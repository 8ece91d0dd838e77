--------------------------- MODULE BatchRunProofs ---------------------------
(***************************************************************************)
(* Theorems about batch runs, for any number of processes, structures,     *)
(* settings and acts of the user.  The heart of the invariant is that the  *)
(* status file of a structure is gone while its outputs change, so that a  *)
(* status file always speaks of the outputs that are there.                *)
(***************************************************************************)
EXTENDS BatchRun, TLAPS

WholeOutput(settings, content) ==
  [kind |-> "files", settings |-> settings, content |-> content, whole |-> TRUE]

\* An edit is an act: the newest content is not newer than the acts.
InputsAreActs == \A s \in Structures : input[s] <= acts

\* The run that holds the lock is inside, and nobody else is.
OwnerIsInside == \A r \in BatchRuns : run[r].pc \in Inside <=> holder = r

OwnerIsLast == holder # NoRun => last = holder

\* No status file while its structure is worked on.
WorkIsHidden ==
  \A r \in BatchRuns : run[r].pc \in Working => status[Here(r)] = Missing

\* What a run has read is at least as new as what it has hashed; what it is
\* about to record as completed is on disk.
WorkIsTrue ==
  \A r \in BatchRuns :
    /\ run[r].pc = "read" => run[r].hashed <= input[Here(r)]
    /\ run[r].pc \in {"compute", "finish"}
         => run[r].hashed <= run[r].got /\ run[r].got <= input[Here(r)]
    /\ run[r].pc = "record" /\ run[r].outcome \in Reusables
         => /\ run[r].hashed <= run[r].got /\ run[r].got <= input[Here(r)]
            /\ outs[Here(r)] = WholeOutput(run[r].settings, run[r].got)

\* A status file of a completed structure tells what its outputs are.
StatusIsTrue ==
  \A s \in Structures :
    status[s] # Missing /\ status[s].outcome \in Reusables =>
      \E content \in Contents :
        /\ status[s].content <= content /\ content <= input[s]
        /\ status[s].outputs = WholeOutput(status[s].manifest, content)
        /\ outs[s] # Missing
        /\ outs[s].kind = "files"
        /\ outs[s].settings = status[s].manifest
        /\ outs[s].content = content

BatchInv ==
  /\ BatchTypeOK
  /\ InputsAreActs
  /\ OwnerIsInside
  /\ OwnerIsLast
  /\ WorkIsHidden
  /\ WorkIsTrue
  /\ StatusIsTrue

-----------------------------------------------------------------------------
\* A missing file is neither a record nor an output.
LEMMA Distinct ==
  /\ \A record \in Records : record # Missing
  /\ \A output \in Outputs : output # Missing
BY DEF Records, Outputs, Missing

\* Complete outputs are outputs.
LEMMA WholeIsOutput ==
  ASSUME NEW settings \in Settings, NEW content \in Contents
  PROVE  WholeOutput(settings, content) \in Outputs
BY DEF WholeOutput, Outputs

\* A run that has not begun.
LEMMA IdleIsProcess == Idle \in Processes
<1>1. (CHOOSE m \in Settings : TRUE) \in Settings
  BY BatchBounds
<1> QED BY <1>1, BatchBounds
      DEF Idle, Processes, Modes, Structures, Contents, Outcomes, Inside, Working, Ended

\* The empty directory is typed.
LEMMA MissingIsFunction ==
  /\ [s \in Structures |-> Missing] \in [Structures -> Records \cup {Missing}]
  /\ [s \in Structures |-> Missing] \in [Structures -> Outputs \cup {Missing}]
OBVIOUS

\* Initially nothing is on disk.
LEMMA InitBatch == BatchInit => BatchInv
<1> SUFFICES ASSUME BatchInit PROVE BatchInv
  OBVIOUS
<1>1. BatchTypeOK
  <2>1. /\ holder \in BatchRuns \cup {NoRun} /\ last \in BatchRuns \cup {NoRun}
        /\ artifacts \in BOOLEAN /\ batchManifest \in SUBSET Settings
    BY DEF BatchInit, DirInit
  <2>2. run \in [BatchRuns -> Processes]
    BY IdleIsProcess DEF BatchInit
  <2>3. /\ status \in [Structures -> Records \cup {Missing}]
        /\ outs \in [Structures -> Outputs \cup {Missing}]
    BY MissingIsFunction DEF BatchInit
  <2>4. acts \in 0..MaxActs /\ 0 \in Contents
    BY BatchBounds DEF BatchInit, Contents
  <2>5. input \in [Structures -> Contents]
    BY <2>4 DEF BatchInit
  <2> QED BY <2>1, <2>2, <2>3, <2>4, <2>5 DEF BatchTypeOK
<1> QED BY <1>1, BatchRunsNat
      DEF BatchInit, DirInit, BatchInv, InputsAreActs, OwnerIsInside, OwnerIsLast, WorkIsHidden,
          WorkIsTrue, StatusIsTrue, Idle, Inside, Working, Missing

-----------------------------------------------------------------------------
(* Type correctness.  A process keeps its type under the updates that the  *)
(* actions make.                                                           *)

Pcs == {"idle", "check", "lock"} \cup Inside \cup Ended

\* A run that only moves on.
LEMMA ProcessGoto ==
  ASSUME NEW p \in Processes, NEW pc \in Pcs
  PROVE  [p EXCEPT !.pc = pc] \in Processes
BY DEF Processes, Pcs

\* A run that moves on and remembers one thing.
LEMMA ProcessField ==
  ASSUME NEW p \in Processes, NEW pc \in Pcs
  PROVE  /\ \A mode \in Modes, m \in Settings :
              [p EXCEPT !.pc = pc, !.mode = mode, !.settings = m] \in Processes
         /\ \A content \in Contents : /\ [p EXCEPT !.pc = pc, !.hashed = content] \in Processes
                                      /\ [p EXCEPT !.pc = pc, !.got = content] \in Processes
         /\ \A o \in Outcomes : [p EXCEPT !.pc = pc, !.outcome = o] \in Processes
BY DEF Processes, Pcs

\* The fields of a run.
LEMMA ProcessTypes ==
  ASSUME NEW p \in Processes
  PROVE  /\ p.pc \in Pcs /\ p.mode \in Modes /\ p.settings \in Settings /\ p.at \in Structures
         /\ p.hashed \in Contents /\ p.got \in Contents /\ p.outcome \in Outcomes
         /\ p.results \in Seq(Records)
BY DEF Processes, Pcs

\* The points of a run, by kind.
LEMMA PcsAre ==
  /\ Inside \subseteq Pcs /\ Ended \subseteq Pcs /\ Working \subseteq Inside
  /\ {"check", "lock", "log", "manifest", "loop", "hash", "read", "compute", "finish", "record",
      "summary", "close", "refused", "done", "dead"} \subseteq Pcs
BY DEF Pcs, Inside, Ended, Working

\* A record for a structure, and what the run has become after it.
LEMMA AfterStructureType ==
  ASSUME BatchTypeOK, NEW r \in BatchRuns, NEW record \in Records, AfterStructure(r, record)
  PROVE  run' \in [BatchRuns -> Processes]
<1> DEFINE here == run[r].at
           next == [Idle EXCEPT !.mode = run[r].mode, !.settings = run[r].settings,
                         !.results = Append(run[r].results, record),
                         !.at = IF here = LastStructure THEN here ELSE here + 1,
                         !.pc = IF here = LastStructure THEN "summary" ELSE "loop"]
<1>1. run[r] \in Processes
  BY DEF BatchTypeOK
<1>2. /\ run[r].mode \in Modes /\ run[r].settings \in Settings /\ here \in Structures
      /\ run[r].results \in Seq(Records)
  BY <1>1, ProcessTypes
<1>3. (IF here = LastStructure THEN here ELSE here + 1) \in Structures
  BY <1>2, BatchBounds DEF Structures
<1>4. Append(run[r].results, record) \in Seq(Records)
  BY <1>2
<1>5. (IF here = LastStructure THEN "summary" ELSE "loop") \in Pcs
  BY DEF Pcs, Inside
<1>6. next \in Processes
  <2> HIDE DEF here
  <2> QED BY <1>2, <1>3, <1>4, <1>5, IdleIsProcess DEF Processes, Pcs
<1>7. run' = [run EXCEPT ![r] = next]
  BY DEF AfterStructure, Here
<1> HIDE DEF next
<1> QED BY <1>6, <1>7 DEF BatchTypeOK

\* A fresh status record.
LEMMA NewRecordType ==
  ASSUME BatchTypeOK, NEW r \in BatchRuns, NEW hash \in Contents
  PROVE  NewRecord(r, hash) \in Records
<1>1. run[r] \in Processes
  BY DEF BatchTypeOK
<1>2. run[r].settings \in Settings /\ run[r].outcome \in Outcomes /\ Here(r) \in Structures
  BY <1>1, ProcessTypes DEF Here
<1>3. outs[Here(r)] \in Outputs \cup {Missing}
  BY <1>2 DEF BatchTypeOK
<1> QED BY <1>2, <1>3 DEF NewRecord, Records

\* What a calculation leaves in the directory.
LEMMA ReadContentType ==
  ASSUME BatchTypeOK, NEW r \in BatchRuns, NEW whole \in BOOLEAN
  PROVE  ReadContent(r, whole) \in Outputs
<1>1. run[r] \in Processes
  BY DEF BatchTypeOK
<1>2. run[r].settings \in Settings /\ run[r].got \in Contents
  BY <1>1, ProcessTypes
<1> QED BY <1>2 DEF ReadContent, Outputs

\* A whole step keeps the types, given that edits are counted.
LEMMA TypeStep ==
  ASSUME BatchTypeOK, InputsAreActs, [BatchNext]_batchVars
  PROVE  BatchTypeOK'
<1> USE DEF BatchTypeOK
<1>1. \A r \in BatchRuns : run[r] \in Processes /\ Here(r) \in Structures
  BY ProcessTypes DEF Here
<1>2. ASSUME NEW r \in BatchRuns, NEW pc \in Pcs, BatchGoto(r, pc)
      PROVE  run' \in [BatchRuns -> Processes]
  BY <1>1, <1>2, ProcessGoto DEF BatchGoto
<1>3. ASSUME NEW r \in BatchRuns, NEW pc \in Pcs, End(r, pc)
      PROVE  run' \in [BatchRuns -> Processes]
  BY <1>1, <1>3, ProcessGoto, IdleIsProcess DEF End
<1>4. CASE UNCHANGED batchVars
  BY <1>4 DEF batchVars, dirVars
<1>5. ASSUME NEW r \in BatchRuns, NEW mode \in Modes, NEW m \in Settings, StartBatch(r, mode, m)
      PROVE  BatchTypeOK'
  <2>1. [run[r] EXCEPT !.pc = "check", !.mode = mode, !.settings = m] \in Processes
    BY <1>1, ProcessField, PcsAre
  <2>2. run' \in [BatchRuns -> Processes]
    BY <1>5, <2>1 DEF StartBatch
  <2> QED BY <1>5, <2>2 DEF StartBatch, dirVars
<1>6. ASSUME NEW r \in BatchRuns, CheckDirectory(r) PROVE BatchTypeOK'
  BY <1>6, <1>2, <1>3, PcsAre DEF CheckDirectory, dirVars, Available
<1>7. ASSUME NEW r \in BatchRuns, LockDirectory(r) PROVE BatchTypeOK'
  BY <1>7, <1>2, <1>3, PcsAre DEF LockDirectory, Take, dirVars
<1>8. ASSUME NEW r \in BatchRuns, OpenLog(r) PROVE BatchTypeOK'
  BY <1>8, <1>2, <1>3, PcsAre DEF OpenLog, dirVars
<1>9. ASSUME NEW r \in BatchRuns, PrepareManifest(r) PROVE BatchTypeOK'
  <2>1. batchManifest' \in SUBSET Settings
    BY <1>9, <1>1, ProcessTypes DEF PrepareManifest
  <2> QED BY <1>9, <2>1, <1>2, <1>3, PcsAre DEF PrepareManifest, Free
<1>10. ASSUME NEW r \in BatchRuns, Consider(r) PROVE BatchTypeOK'
  <2>1. CASE run[r].mode = "resume" /\ Reusable(run[r].settings, Here(r))
    <3>1. status[Here(r)] \in Records
      BY <2>1, <1>1 DEF Reusable
    <3>2. run' \in [BatchRuns -> Processes]
      BY <1>10, <2>1, <3>1, AfterStructureType DEF Consider
    <3> QED BY <1>10, <2>1, <3>2 DEF Consider, dirVars
  <2>2. CASE ~(run[r].mode = "resume" /\ Reusable(run[r].settings, Here(r)))
    BY <1>10, <2>2, <1>2, PcsAre DEF Consider, dirVars
  <2> QED BY <2>1, <2>2
<1>11. ASSUME NEW r \in BatchRuns, Hash(r) PROVE BatchTypeOK'
  <2>1. [run[r] EXCEPT !.pc = "read", !.hashed = input[Here(r)]] \in Processes
    BY <1>1, ProcessField, PcsAre
  <2>2. run' \in [BatchRuns -> Processes]
    BY <1>11, <2>1 DEF Hash
  <2> QED BY <1>11, <2>2 DEF Hash, dirVars
<1>12. ASSUME NEW r \in BatchRuns, Read(r) PROVE BatchTypeOK'
  <2>1. [run[r] EXCEPT !.pc = "compute", !.got = input[Here(r)]] \in Processes
    BY <1>1, ProcessField, PcsAre
  <2>2. run' \in [BatchRuns -> Processes]
    BY <1>12, <2>1 DEF Read
  <2> QED BY <1>12, <2>2 DEF Read, dirVars
<1>13. ASSUME NEW r \in BatchRuns, Compute(r) PROVE BatchTypeOK'
  BY <1>13, <1>1, <1>2, PcsAre, ReadContentType DEF Compute, dirVars
<1>14. ASSUME NEW r \in BatchRuns, FinishOutputs(r) PROVE BatchTypeOK'
  <2>1. \A o \in Reusables : [run[r] EXCEPT !.pc = "record", !.outcome = o] \in Processes
    BY <1>1, ProcessField, PcsAre DEF Reusables, Outcomes
  <2>2. run' \in [BatchRuns -> Processes]
    BY <1>14, <2>1 DEF FinishOutputs
  <2> QED BY <1>14, <1>1, <2>2, ReadContentType DEF FinishOutputs, dirVars
<1>15. ASSUME NEW r \in BatchRuns, StructureFails(r) PROVE BatchTypeOK'
  <2>1. [run[r] EXCEPT !.pc = "record", !.outcome = "failed"] \in Processes
    BY <1>1, ProcessField, PcsAre DEF Outcomes
  <2>2. run' \in [BatchRuns -> Processes]
    BY <1>15, <2>1 DEF StructureFails
  <2> QED BY <1>15, <2>2 DEF StructureFails, dirVars
<1>16. ASSUME NEW r \in BatchRuns, RecordStatus(r) PROVE BatchTypeOK'
  <2>1. NewRecord(r, run[r].hashed) \in Records
    BY <1>1, ProcessTypes, NewRecordType
  <2>2. run' \in [BatchRuns -> Processes]
    BY <1>16, <2>1, AfterStructureType DEF RecordStatus
  <2> QED BY <1>16, <1>1, <2>1, <2>2 DEF RecordStatus, dirVars
<1>17. ASSUME NEW r \in BatchRuns, OpenSummary(r) PROVE BatchTypeOK'
  BY <1>17, <1>2, <1>3, PcsAre DEF OpenSummary, dirVars
<1>18. ASSUME NEW r \in BatchRuns, WriteSummary(r) PROVE BatchTypeOK'
  BY <1>18, <1>2, <1>3, PcsAre DEF WriteSummary, Free
<1>19. ASSUME NEW r \in BatchRuns, BatchDies(r) PROVE BatchTypeOK'
  BY <1>19, <1>2, <1>3, PcsAre DEF BatchDies, Free
<1>20. ASSUME NEW s \in Structures, EditInput(s) PROVE BatchTypeOK'
  <2>1. input[s] + 1 \in Contents /\ acts + 1 \in 0..MaxActs
    BY <1>20, BatchBounds DEF EditInput, InputsAreActs, Contents
  <2> QED BY <1>20, <2>1 DEF EditInput, dirVars
<1>21. ASSUME NEW s \in Structures, DamageOutput(s) PROVE BatchTypeOK'
  <2>1. acts + 1 \in 0..MaxActs
    BY <1>21, BatchBounds DEF DamageOutput
  <2>2. [outs[s] EXCEPT !.whole = FALSE] \in Outputs
    BY <1>21 DEF DamageOutput, Outputs
  <2> QED BY <1>21, <2>1, <2>2 DEF DamageOutput, dirVars
<1> QED BY <1>4, <1>5, <1>6, <1>7, <1>8, <1>9, <1>10, <1>11, <1>12, <1>13, <1>14, <1>15, <1>16, <1>17, <1>18, <1>19, <1>20, <1>21
      DEF BatchNext, BatchStep

-----------------------------------------------------------------------------
(* What the updates of a process do.                                       *)

Others(r) == \A q \in BatchRuns \ {r} : run'[q] = run[q]

\* What moving on changes, and what it leaves.
LEMMA GotoEffect ==
  ASSUME BatchTypeOK, NEW r \in BatchRuns, NEW pc \in Pcs, BatchGoto(r, pc)
  PROVE  /\ Others(r)
         /\ run'[r] = [run[r] EXCEPT !.pc = pc]
         /\ run'[r].pc = pc /\ run'[r].at = run[r].at /\ run'[r].hashed = run[r].hashed
         /\ run'[r].got = run[r].got /\ run'[r].settings = run[r].settings
         /\ run'[r].outcome = run[r].outcome /\ run'[r].results = run[r].results
<1>1. run' = [run EXCEPT ![r] = [run[r] EXCEPT !.pc = pc]]
  BY DEF BatchGoto
<1>2. Others(r) /\ run'[r] = [run[r] EXCEPT !.pc = pc]
  BY <1>1 DEF BatchTypeOK, Others
<1>3. run[r] \in Processes
  BY DEF BatchTypeOK
<1> QED BY <1>2, <1>3 DEF Processes

\* What the end of a run changes.
LEMMA EndEffect ==
  ASSUME BatchTypeOK, NEW r \in BatchRuns, NEW pc \in Pcs, End(r, pc)
  PROVE  Others(r) /\ run'[r].pc = pc
<1>1. Others(r) /\ run'[r] = [Idle EXCEPT !.pc = pc]
  BY DEF End, BatchTypeOK, Others
<1> QED BY <1>1 DEF Idle

\* What going on to the next structure changes.
LEMMA AfterEffect ==
  ASSUME BatchTypeOK, NEW r \in BatchRuns, NEW record, AfterStructure(r, record)
  PROVE  /\ Others(r)
         /\ run'[r].pc = IF Here(r) = LastStructure THEN "summary" ELSE "loop"
         /\ run'[r].at = IF Here(r) = LastStructure THEN Here(r) ELSE Here(r) + 1
         /\ run'[r].settings = run[r].settings
         /\ run'[r].results = Append(run[r].results, record)
<1> DEFINE at == IF Here(r) = LastStructure THEN Here(r) ELSE Here(r) + 1
           pc == IF Here(r) = LastStructure THEN "summary" ELSE "loop"
           results == Append(run[r].results, record)
           mine == [Idle EXCEPT !.mode = run[r].mode, !.settings = run[r].settings,
                                !.results = results, !.at = at, !.pc = pc]
<1>1. run' = [run EXCEPT ![r] = mine]
  BY DEF AfterStructure
<1> HIDE DEF at, pc, results
<1>2. /\ mine.pc = pc /\ mine.at = at /\ mine.settings = run[r].settings
      /\ mine.results = results
  BY DEF Idle
<1> HIDE DEF mine
<1>3. Others(r) /\ run'[r] = mine
  BY <1>1 DEF BatchTypeOK, Others
<1> QED BY <1>2, <1>3 DEF at, pc, results

\* The actions of a process that is inside and stays inside.
Stays(r) ==
  /\ run[r].pc \in Inside /\ run'[r].pc \in Inside /\ Others(r)
  /\ UNCHANGED <<holder, last>>

\* Steps taken inside the lock stay inside.
LEMMA StaysInside ==
  ASSUME BatchTypeOK, NEW r \in BatchRuns,
         OpenLog(r) \/ Consider(r) \/ Hash(r) \/ Read(r) \/ Compute(r) \/ FinishOutputs(r)
         \/ StructureFails(r) \/ RecordStatus(r) \/ OpenSummary(r)
  PROVE  Stays(r)
<1> USE PcsAre DEF BatchAt, dirVars
<1>1. run[r] \in Processes /\ run \in [BatchRuns -> Processes]
  BY DEF BatchTypeOK
<1>2. CASE OpenLog(r)
  BY <1>2, GotoEffect DEF OpenLog, Stays, Inside, Working
<1>3. CASE Consider(r)
  BY <1>3, GotoEffect, AfterEffect DEF Consider, Stays, Inside, Working
<1>4. CASE Hash(r)
  <2>1. Others(r) /\ run'[r].pc \in Working
    BY <1>1, <1>4 DEF Hash, Others, Processes, Working
  <2> QED BY <1>4, <2>1 DEF Hash, Stays, Inside, Working
<1>5. CASE Read(r)
  <2>1. Others(r) /\ run'[r].pc \in Working
    BY <1>1, <1>5 DEF Read, Others, Processes, Working
  <2> QED BY <1>5, <2>1 DEF Read, Stays, Inside, Working
<1>6. CASE Compute(r)
  BY <1>6, GotoEffect DEF Compute, Stays, Inside, Working
<1>7. CASE FinishOutputs(r)
  <2>1. Others(r) /\ run'[r].pc \in Working
    BY <1>1, <1>7 DEF FinishOutputs, Others, Processes, Working
  <2> QED BY <1>7, <2>1 DEF FinishOutputs, Stays, Inside, Working
<1>8. CASE StructureFails(r)
  <2>1. Others(r) /\ run'[r].pc \in Working
    BY <1>1, <1>8 DEF StructureFails, Others, Processes, Working
  <2> QED BY <1>8, <2>1 DEF StructureFails, Stays, Inside, Working
<1>9. CASE RecordStatus(r)
  BY <1>9, AfterEffect DEF RecordStatus, Stays, Inside, Working
<1>10. CASE OpenSummary(r)
  BY <1>10, GotoEffect DEF OpenSummary, Stays, Inside, Working
<1> QED BY <1>2, <1>3, <1>4, <1>5, <1>6, <1>7, <1>8, <1>9, <1>10

-----------------------------------------------------------------------------
(* Ownership.                                                              *)

\* Every step keeps the owner of the lock inside, and the last to have begun.
LEMMA OwnerStep ==
  ASSUME BatchTypeOK, OwnerIsInside, OwnerIsLast, [BatchNext]_batchVars
  PROVE  OwnerIsInside' /\ OwnerIsLast'
<1> USE BatchRunsNat, PcsAre DEF OwnerIsInside, OwnerIsLast, BatchAt, dirVars
<1>0. run \in [BatchRuns -> Processes] /\ holder \in BatchRuns \cup {NoRun}
  BY DEF BatchTypeOK
<1>1. CASE UNCHANGED batchVars
  BY <1>1 DEF batchVars
<1>2. ASSUME NEW r \in BatchRuns, NEW mode \in Modes, NEW m \in Settings, StartBatch(r, mode, m)
      PROVE  OwnerIsInside' /\ OwnerIsLast'
  <2>1. Others(r) /\ run'[r].pc = "check"
    BY <1>0, <1>2 DEF StartBatch, Processes, Others
  <2> QED BY <1>2, <2>1 DEF StartBatch, Others, Inside, Working
<1>3. ASSUME NEW r \in BatchRuns, Stays(r) PROVE OwnerIsInside' /\ OwnerIsLast'
  BY <1>3 DEF Stays, Others
<1>4. ASSUME NEW r \in BatchRuns, CheckDirectory(r) PROVE OwnerIsInside' /\ OwnerIsLast'
  <2>1. Others(r) /\ run'[r].pc \in {"lock", "refused"}
    BY <1>4, GotoEffect, EndEffect DEF CheckDirectory
  <2> QED BY <1>4, <2>1 DEF CheckDirectory, Others, Inside, Working
<1>5. ASSUME NEW r \in BatchRuns, LockDirectory(r) PROVE OwnerIsInside' /\ OwnerIsLast'
  <2>1. CASE Take(r) /\ BatchGoto(r, "log") /\ last' = r
    <3>1. Others(r) /\ run'[r].pc = "log"
      BY <2>1, GotoEffect
    <3> QED BY <2>1, <3>1 DEF Take, Others, Inside, Working
  <2>2. CASE holder # NoRun /\ End(r, "refused") /\ UNCHANGED <<holder, last>>
    <3>1. Others(r) /\ run'[r].pc = "refused"
      BY <2>2, EndEffect
    <3>2. run[r].pc = "lock"
      BY <1>5 DEF LockDirectory
    <3> QED BY <2>2, <3>1, <3>2 DEF Others, Inside, Working
  <2> QED BY <1>5, <2>1, <2>2 DEF LockDirectory
<1>6. ASSUME NEW r \in BatchRuns, PrepareManifest(r) PROVE OwnerIsInside' /\ OwnerIsLast'
  <2>1. CASE BatchGoto(r, "loop") /\ UNCHANGED holder
    <3>1. Others(r) /\ run'[r].pc = "loop"
      BY <2>1, GotoEffect
    <3> QED BY <1>6, <2>1, <3>1 DEF PrepareManifest, Others, Inside, Working
  <2>2. CASE End(r, "refused") /\ Free(r)
    <3>1. Others(r) /\ run'[r].pc = "refused"
      BY <2>2, EndEffect
    <3>2. run[r].pc = "manifest" /\ UNCHANGED last
      BY <1>6 DEF PrepareManifest
    <3> QED BY <2>2, <3>1, <3>2 DEF Free, Others, Inside, Working
  <2> QED BY <1>6, <2>1, <2>2 DEF PrepareManifest
<1>7. ASSUME NEW r \in BatchRuns, WriteSummary(r) PROVE OwnerIsInside' /\ OwnerIsLast'
  <2>1. Others(r) /\ run'[r].pc = "done"
    BY <1>7, EndEffect DEF WriteSummary
  <2> QED BY <1>7, <2>1 DEF WriteSummary, Free, Others, Inside, Working
<1>8. ASSUME NEW r \in BatchRuns, BatchDies(r) PROVE OwnerIsInside' /\ OwnerIsLast'
  <2>1. Others(r) /\ run'[r].pc = "dead"
    BY <1>8, EndEffect DEF BatchDies
  <2> QED BY <1>8, <2>1 DEF BatchDies, Free, Others, Inside, Working, Ended
<1>9. ASSUME NEW s \in Structures, EditInput(s) \/ DamageOutput(s)
      PROVE  OwnerIsInside' /\ OwnerIsLast'
  BY <1>9 DEF EditInput, DamageOutput
<1> QED BY <1>1, <1>2, <1>3, <1>4, <1>5, <1>6, <1>7, <1>8, <1>9, StaysInside
      DEF BatchNext, BatchStep

-----------------------------------------------------------------------------
(* Status files and outputs.                                               *)

Truth == WorkIsHidden /\ WorkIsTrue /\ StatusIsTrue

\* A step that leaves r outside the work on a structure and touches no file
\* of a structure.
Quiet(r) ==
  Others(r) /\ run'[r].pc \in Pcs \ Working /\ UNCHANGED <<status, outs, input>>

\* Steps that touch no status file, output or input.
LEMMA QuietActions ==
  ASSUME BatchTypeOK, NEW r \in BatchRuns,
         \/ \E mode \in Modes, m \in Settings : StartBatch(r, mode, m)
         \/ CheckDirectory(r) \/ LockDirectory(r) \/ OpenLog(r) \/ PrepareManifest(r)
         \/ OpenSummary(r) \/ WriteSummary(r) \/ BatchDies(r)
  PROVE  Quiet(r)
<1> USE PcsAre DEF Quiet
<1>1. ASSUME NEW mode \in Modes, NEW m \in Settings, StartBatch(r, mode, m)
      PROVE  Quiet(r)
  <2>1. Others(r) /\ run'[r].pc = "check"
    BY <1>1 DEF StartBatch, Processes, Others, BatchTypeOK
  <2> QED BY <1>1, <2>1 DEF StartBatch, Working
<1>2. CASE CheckDirectory(r)
  <2>1. Others(r) /\ run'[r].pc \in {"lock", "refused"}
    BY <1>2, GotoEffect, EndEffect DEF CheckDirectory
  <2> QED BY <1>2, <2>1 DEF CheckDirectory, Working
<1>3. CASE LockDirectory(r)
  <2>1. Others(r) /\ run'[r].pc \in {"log", "refused"}
    BY <1>3, GotoEffect, EndEffect DEF LockDirectory
  <2> QED BY <1>3, <2>1 DEF LockDirectory, Working
<1>4. CASE OpenLog(r)
  <2>1. Others(r) /\ run'[r].pc = "manifest"
    BY <1>4, GotoEffect DEF OpenLog
  <2> QED BY <1>4, <2>1 DEF OpenLog, Working
<1>5. CASE PrepareManifest(r)
  <2>1. Others(r) /\ run'[r].pc \in {"loop", "refused"}
    BY <1>5, GotoEffect, EndEffect DEF PrepareManifest
  <2> QED BY <1>5, <2>1 DEF PrepareManifest, Working
<1>6. CASE OpenSummary(r)
  <2>1. Others(r) /\ run'[r].pc = "close"
    BY <1>6, GotoEffect DEF OpenSummary
  <2> QED BY <1>6, <2>1 DEF OpenSummary, Working
<1>7. CASE WriteSummary(r)
  <2>1. Others(r) /\ run'[r].pc = "done"
    BY <1>7, EndEffect DEF WriteSummary
  <2> QED BY <1>7, <2>1 DEF WriteSummary, Working
<1>8. CASE BatchDies(r)
  <2>1. Others(r) /\ run'[r].pc = "dead"
    BY <1>8, EndEffect DEF BatchDies
  <2> QED BY <1>8, <2>1 DEF BatchDies, Working
<1> QED BY <1>1, <1>2, <1>3, <1>4, <1>5, <1>6, <1>7, <1>8

\* Such steps keep the status files true.
LEMMA QuietIsTrue ==
  ASSUME Truth, NEW r \in BatchRuns, Quiet(r)
  PROVE  Truth'
<1>1. \A q \in BatchRuns : run'[q].pc \in Working => run'[q] = run[q]
  BY DEF Quiet, Others
<1>2. WorkIsHidden'
  BY <1>1 DEF Truth, WorkIsHidden, Quiet, Here
<1>3. WorkIsTrue'
  BY <1>1 DEF Truth, WorkIsTrue, Quiet, Here, Working
<1>4. StatusIsTrue'
  BY DEF Truth, StatusIsTrue, Quiet
<1> QED BY <1>2, <1>3, <1>4 DEF Truth

\* Only the owner works.
LEMMA OthersRest ==
  ASSUME OwnerIsInside, NEW r \in BatchRuns, run[r].pc \in Inside, Others(r)
  PROVE  \A q \in BatchRuns \ {r} : run'[q].pc \notin Working
BY PcsAre DEF OwnerIsInside, Others

\* A reused or withdrawn status file keeps them true.
LEMMA ConsiderIsTrue ==
  ASSUME BatchTypeOK, OwnerIsInside, Truth, NEW r \in BatchRuns, Consider(r)
  PROVE  Truth'
<1>1. CASE run[r].mode = "resume" /\ Reusable(run[r].settings, Here(r))
  <2>1. Others(r) /\ run'[r].pc \in {"summary", "loop"}
    BY <1>1, AfterEffect DEF Consider
  <2>2. Quiet(r)
    BY <1>1, <2>1, PcsAre DEF Consider, Quiet, Working
  <2> QED BY <2>2, QuietIsTrue
<1>2. CASE ~(run[r].mode = "resume" /\ Reusable(run[r].settings, Here(r)))
  <2>1. /\ Others(r) /\ run'[r].pc = "hash" /\ run'[r].at = run[r].at
        /\ status' = [status EXCEPT ![run[r].at] = Missing] /\ UNCHANGED <<outs, input>>
    BY <1>2, GotoEffect, PcsAre DEF Consider, Here
  <2>2. run[r].pc \in Inside
    BY DEF Consider, BatchAt, Inside
  <2>3. \A q \in BatchRuns \ {r} : run'[q].pc \notin Working
    BY <2>1, <2>2, OthersRest
  <2>4. run[r].at \in Structures /\ status \in [Structures -> Records \cup {Missing}]
    BY ProcessTypes DEF BatchTypeOK
  <2>5. WorkIsHidden'
    BY <2>1, <2>3, <2>4 DEF WorkIsHidden, Here
  <2>6. WorkIsTrue'
    BY <2>1, <2>3 DEF WorkIsTrue, Working
  <2>7. StatusIsTrue'
    BY <2>1, <2>4 DEF Truth, StatusIsTrue
  <2> QED BY <2>5, <2>6, <2>7 DEF Truth
<1> QED BY <1>1, <1>2

\* The steps of the work on a structure.
LEMMA FinishEffect ==
  ASSUME BatchTypeOK, NEW r \in BatchRuns, FinishOutputs(r)
  PROVE  /\ Others(r) /\ run'[r].at = run[r].at /\ run'[r].settings = run[r].settings
         /\ run'[r].pc = "record" /\ run'[r].hashed = run[r].hashed /\ run'[r].got = run[r].got
<1>1. PICK o \in Reusables : run' = [run EXCEPT ![r].pc = "record", ![r].outcome = o]
  BY DEF FinishOutputs
<1>2. run[r] \in Processes
  BY DEF BatchTypeOK
<1>3. Others(r) /\ run'[r] = [run[r] EXCEPT !.pc = "record", !.outcome = o]
  BY <1>1 DEF BatchTypeOK, Others
<1> QED BY <1>2, <1>3 DEF Processes

\* Work on a structure whose status file is gone keeps them true.
LEMMA WorkStaysTrue ==
  ASSUME BatchTypeOK, OwnerIsInside, Truth, NEW r \in BatchRuns,
         Hash(r) \/ Read(r) \/ Compute(r) \/ FinishOutputs(r) \/ StructureFails(r)
  PROVE  Truth'
<1> USE DEF BatchAt
<1> DEFINE s == run[r].at
<1>1. run[r] \in Processes /\ run[r] = [run[r] EXCEPT !.at = s] /\ s \in Structures
  BY ProcessTypes DEF BatchTypeOK, Processes
<1>2. run[r].pc \in Working /\ run[r].pc \in Inside
  BY DEF Hash, Read, Compute, FinishOutputs, StructureFails, Working, Inside
<1>3. status[s] = Missing /\ UNCHANGED <<status, input>>
  BY <1>2 DEF Truth, WorkIsHidden, Here, Hash, Read, Compute, FinishOutputs, StructureFails
<1>4. /\ Others(r) /\ run'[r].at = s /\ run'[r].settings = run[r].settings
      /\ \A t \in Structures \ {s} : outs'[t] = outs[t]
  <2>1. CASE Hash(r) \/ Read(r) \/ StructureFails(r)
    <3>1. UNCHANGED outs
      BY <2>1 DEF Hash, Read, StructureFails
    <3>2. Others(r)
      BY <2>1 DEF Hash, Read, StructureFails, BatchTypeOK, Others
    <3>3. run'[r].at = s /\ run'[r].settings = run[r].settings
      BY <1>1, <2>1 DEF Hash, Read, StructureFails, BatchTypeOK, Processes
    <3> QED BY <3>1, <3>2, <3>3
  <2>2. CASE Compute(r)
    BY <1>1, <2>2, GotoEffect, PcsAre DEF Compute, BatchTypeOK, Here
  <2>3. CASE FinishOutputs(r)
    <3>1. \A t \in Structures \ {s} : outs'[t] = outs[t]
      BY <1>1, <2>3 DEF FinishOutputs, BatchTypeOK, Here
    <3> QED BY <2>3, <3>1, FinishEffect
  <2> QED BY <2>1, <2>2, <2>3
<1>5. \A q \in BatchRuns \ {r} : run'[q].pc \notin Working
  BY <1>2, <1>4, OthersRest
<1>6. WorkIsHidden'
  BY <1>3, <1>4, <1>5 DEF WorkIsHidden, Here
<1>7. StatusIsTrue'
  BY <1>3, <1>4 DEF Truth, StatusIsTrue
<1>8. WorkIsTrue'
  <2>1. input[s] \in Nat /\ run[r].hashed \in Nat /\ run[r].got \in Nat
    BY <1>1, ProcessTypes DEF BatchTypeOK, Contents
  <2>2. CASE Hash(r)
    <3>1. run'[r].pc = "read" /\ run'[r].hashed = input[s]
      BY <1>1, <2>2 DEF Hash, BatchTypeOK, Processes, Here
    <3> QED BY <1>3, <1>4, <1>5, <2>1, <3>1 DEF WorkIsTrue, Here, Working
  <2>3. CASE Read(r)
    <3>1. run'[r].pc = "compute" /\ run'[r].hashed = run[r].hashed /\ run'[r].got = input[s]
      BY <1>1, <2>3 DEF Read, BatchTypeOK, Processes, Here
    <3>2. run[r].hashed <= input[s]
      BY <1>2, <2>3 DEF Truth, WorkIsTrue, Read, Here, Working
    <3> QED BY <1>3, <1>4, <1>5, <2>1, <3>1, <3>2 DEF WorkIsTrue, Here, Working
  <2>4. CASE Compute(r)
    <3>1. run'[r].pc = "finish" /\ run'[r].hashed = run[r].hashed /\ run'[r].got = run[r].got
      BY <2>4, GotoEffect, PcsAre DEF Compute
    <3>2. run[r].hashed <= run[r].got /\ run[r].got <= input[s]
      BY <2>4 DEF Truth, WorkIsTrue, Compute, Here
    <3> QED BY <1>3, <1>4, <1>5, <2>1, <3>1, <3>2 DEF WorkIsTrue, Here, Working
  <2>5. CASE FinishOutputs(r)
    <3>1. run'[r].pc = "record" /\ run'[r].hashed = run[r].hashed /\ run'[r].got = run[r].got
      BY <2>5, FinishEffect
    <3>2. run[r].hashed <= run[r].got /\ run[r].got <= input[s]
      BY <2>5 DEF Truth, WorkIsTrue, FinishOutputs, Here
    <3>3. outs'[s] = WholeOutput(run[r].settings, run[r].got)
      <4>1. outs' = [outs EXCEPT ![s] = ReadContent(r, TRUE)]
        BY <2>5 DEF FinishOutputs, Here
      <4>2. outs'[s] = ReadContent(r, TRUE)
        BY <1>1, <4>1 DEF BatchTypeOK
      <4> QED BY <4>2 DEF ReadContent, WholeOutput
    <3> QED BY <1>3, <1>4, <1>5, <2>1, <3>1, <3>2, <3>3 DEF WorkIsTrue, Here, Working
  <2>6. CASE StructureFails(r)
    <3>1. run'[r].pc = "record" /\ run'[r].outcome = "failed" /\ run'[r].hashed = run[r].hashed
      BY <1>1, <2>6 DEF StructureFails, BatchTypeOK, Processes
    <3> QED BY <1>3, <1>4, <1>5, <2>1, <3>1 DEF WorkIsTrue, Here, Working, Reusables
  <2> QED BY <2>2, <2>3, <2>4, <2>5, <2>6
<1> QED BY <1>6, <1>7, <1>8 DEF Truth

\* The status file written is that of the outputs on disk.
LEMMA RecordIsTrue ==
  ASSUME BatchTypeOK, OwnerIsInside, Truth, NEW r \in BatchRuns, RecordStatus(r)
  PROVE  Truth'
<1> DEFINE s == run[r].at
           record == NewRecord(r, run[r].hashed)
<1>1. /\ run[r].at \in Structures /\ run[r].hashed \in Contents /\ run[r].got \in Contents
      /\ input[s] \in Contents /\ run[r].settings \in Settings
  BY ProcessTypes DEF BatchTypeOK
<1>2. Others(r) /\ run'[r].pc \in {"summary", "loop"}
  BY AfterEffect DEF RecordStatus
<1>3. run[r].pc \in Inside /\ run[r].pc = "record"
  BY DEF RecordStatus, BatchAt, Inside, Working
<1>4. \A q \in BatchRuns : run'[q].pc \notin Working
  BY <1>2, <1>3, OthersRest DEF Working
<1>5. WorkIsHidden' /\ WorkIsTrue'
  BY <1>4 DEF WorkIsHidden, WorkIsTrue, Working
<1>6. /\ \A t \in Structures \ {s} : status'[t] = status[t]
      /\ status'[s] = record /\ UNCHANGED <<outs, input>>
  BY <1>1 DEF RecordStatus, BatchTypeOK, Here
<1>7. /\ record.content = run[r].hashed /\ record.manifest = run[r].settings
      /\ record.outcome = run[r].outcome /\ record.outputs = outs[s]
  BY DEF NewRecord, Here
<1> HIDE DEF record
<1>8. ASSUME run[r].outcome \in Reusables
      PROVE  /\ record.content <= run[r].got /\ run[r].got <= input[s]
             /\ record.outputs = WholeOutput(record.manifest, run[r].got)
             /\ outs[s] # Missing /\ outs[s].kind = "files"
             /\ outs[s].settings = record.manifest /\ outs[s].content = run[r].got
  <2>1. /\ run[r].hashed <= run[r].got /\ run[r].got <= input[s]
        /\ outs[s] = WholeOutput(run[r].settings, run[r].got)
    BY <1>3, <1>8 DEF Truth, WorkIsTrue, Here
  <2>2. outs[s] # Missing
    BY <1>1, <2>1, WholeIsOutput, Distinct
  <2> QED BY <1>7, <2>1, <2>2 DEF WholeOutput
<1>9. StatusIsTrue'
  <2> SUFFICES ASSUME NEW t \in Structures, status'[t] # Missing, status'[t].outcome \in Reusables
               PROVE  \E content \in Contents :
                        /\ status'[t].content <= content /\ content <= input'[t]
                        /\ status'[t].outputs = WholeOutput(status'[t].manifest, content)
                        /\ outs'[t] # Missing
                        /\ outs'[t].kind = "files"
                        /\ outs'[t].settings = status'[t].manifest
                        /\ outs'[t].content = content
    BY DEF StatusIsTrue
  <2>1. CASE t = s
    <3>1. run[r].outcome \in Reusables
      BY <1>6, <1>7, <2>1
    <3> QED BY <1>1, <1>6, <1>8, <2>1, <3>1
  <2>2. CASE t # s
    BY <1>6, <2>2 DEF Truth, StatusIsTrue
  <2> QED BY <2>1, <2>2
<1> QED BY <1>5, <1>9 DEF Truth

\* The user makes the content of inputs newer, and outputs smaller.
LEMMA UserStaysTrue ==
  ASSUME BatchTypeOK, InputsAreActs, OwnerIsInside, Truth, NEW s \in Structures,
         EditInput(s) \/ DamageOutput(s)
  PROVE  Truth' /\ InputsAreActs'
<1>1. CASE EditInput(s)
  <2>1. /\ \A t \in Structures : input[t] \in Nat /\ input'[t] \in Nat /\ input[t] <= input'[t]
        /\ UNCHANGED <<run, status, outs>>
    BY <1>1 DEF EditInput, BatchTypeOK, Contents, dirVars
  <2>2. \A r \in BatchRuns : /\ Here(r) \in Structures /\ run[r].hashed \in Nat
                             /\ run[r].got \in Nat
    BY ProcessTypes DEF BatchTypeOK, Here, Contents
  <2>3. WorkIsHidden'
    BY <2>1 DEF Truth, WorkIsHidden, Here
  <2>4. WorkIsTrue'
    <3>1. \A r \in BatchRuns : UNCHANGED Here(r)
      BY <2>1 DEF Here
    <3> QED BY <2>1, <2>2, <3>1 DEF Truth, WorkIsTrue
  <2>5. StatusIsTrue'
    BY <2>1 DEF Truth, StatusIsTrue, Contents
  <2>6. InputsAreActs'
    BY <1>1 DEF EditInput, InputsAreActs, BatchTypeOK, Contents
  <2> QED BY <2>3, <2>4, <2>5, <2>6 DEF Truth
<1>2. CASE DamageOutput(s)
  <2>1. \A r \in BatchRuns : run[r].pc \notin Working
    BY <1>2, PcsAre, BatchRunsNat DEF DamageOutput, OwnerIsInside
  <2>2. /\ UNCHANGED <<run, status, input>> /\ outs[s] \in Outputs
        /\ outs' = [outs EXCEPT ![s].whole = FALSE]
    BY <1>2 DEF DamageOutput, BatchTypeOK
  <2>3. outs'[s] = [outs[s] EXCEPT !.whole = FALSE]
    BY <2>2 DEF BatchTypeOK
  <2>4. [outs[s] EXCEPT !.whole = FALSE] \in Outputs
    BY <2>2 DEF Outputs
  <2>5. /\ outs'[s] # Missing /\ outs'[s].kind = outs[s].kind
        /\ outs'[s].settings = outs[s].settings /\ outs'[s].content = outs[s].content
    <3>1. outs'[s] # Missing
      BY <2>3, <2>4, Distinct
    <3> QED BY <2>2, <2>3, <3>1 DEF Outputs
  <2>6. \A t \in Structures \ {s} : outs'[t] = outs[t]
    BY <2>2 DEF BatchTypeOK
  <2>7. WorkIsHidden' /\ WorkIsTrue'
    BY <2>1, <2>2 DEF WorkIsHidden, WorkIsTrue, Working
  <2>8. StatusIsTrue'
    BY <2>2, <2>5, <2>6 DEF Truth, StatusIsTrue
  <2>9. InputsAreActs'
    BY <1>2 DEF DamageOutput, InputsAreActs, BatchTypeOK, Contents
  <2> QED BY <2>7, <2>8, <2>9 DEF Truth
<1> QED BY <1>1, <1>2

\* Every step keeps the status files true.
LEMMA TruthStep ==
  ASSUME BatchTypeOK, InputsAreActs, OwnerIsInside, Truth, [BatchNext]_batchVars
  PROVE  Truth' /\ InputsAreActs'
<1>1. CASE UNCHANGED batchVars
  BY <1>1 DEF batchVars, Truth, WorkIsHidden, WorkIsTrue, StatusIsTrue, InputsAreActs, Here
<1>2. ASSUME NEW r \in BatchRuns,
             BatchStep(r) \/ \E mode \in Modes, m \in Settings : StartBatch(r, mode, m)
      PROVE  Truth' /\ InputsAreActs'
  <2>1. UNCHANGED <<input, acts>>
    BY <1>2 DEF BatchStep, StartBatch, CheckDirectory, LockDirectory, OpenLog, PrepareManifest,
                Consider, Hash, Read, Compute, FinishOutputs, StructureFails, RecordStatus,
                OpenSummary, WriteSummary, BatchDies
  <2>2. Truth'
    BY <1>2, QuietActions, QuietIsTrue, ConsiderIsTrue, WorkStaysTrue, RecordIsTrue DEF BatchStep
  <2> QED BY <2>1, <2>2 DEF InputsAreActs
<1> QED BY <1>1, <1>2, UserStaysTrue DEF BatchNext

\* Every step keeps the invariant.
LEMMA BatchInvStep == BatchInv /\ [BatchNext]_batchVars => BatchInv'
<1> SUFFICES ASSUME BatchInv, [BatchNext]_batchVars PROVE BatchInv'
  OBVIOUS
<1>1. BatchTypeOK'
  BY TypeStep DEF BatchInv
<1>2. OwnerIsInside' /\ OwnerIsLast'
  BY OwnerStep DEF BatchInv
<1>3. Truth' /\ InputsAreActs'
  BY TruthStep DEF BatchInv, Truth
<1> QED BY <1>1, <1>2, <1>3 DEF BatchInv, Truth

\* Every reachable state of the batch directory satisfies the invariant.
THEOREM BatchInvariant == BatchSpec => []BatchInv
BY InitBatch, BatchInvStep, PTL DEF BatchSpec

\* Type correctness of the batch directory, as BatchTypeOK.
THEOREM BatchTypeCorrect == BatchSpec => []BatchTypeOK
<1>1. BatchInv => BatchTypeOK
  BY DEF BatchInv
<1> QED BY <1>1, BatchInvariant, PTL

\* ReuseIsSound for any number of runs, structures, settings, kills and edits:
\* what _reusable_record lets a resumed run take over is what the run would
\* compute.
THEOREM ReuseSound == BatchSpec => []ReuseIsSound
<1>1. BatchInv => ReuseIsSound
  <2> SUFFICES ASSUME BatchInv, NEW m \in Settings, NEW s \in Structures, Reusable(m, s)
               PROVE  outs[s] = WholeOutput(m, input[s])
    BY DEF ReuseIsSound, WholeOutput
  <2>1. status[s] # Missing /\ status[s].outcome \in Reusables /\ status[s].manifest = m
        /\ status[s].content = input[s] /\ outs[s] # Missing
        /\ outs[s].whole = status[s].outputs.whole
    BY DEF Reusable
  <2>2. PICK content \in Contents :
          /\ status[s].content <= content /\ content <= input[s]
          /\ status[s].outputs = WholeOutput(status[s].manifest, content)
          /\ outs[s].kind = "files"
          /\ outs[s].settings = status[s].manifest
          /\ outs[s].content = content
    BY <2>1 DEF BatchInv, StatusIsTrue
  <2>3. content = input[s]
    BY <2>1, <2>2 DEF BatchInv, BatchTypeOK, Contents
  <2>4. outs[s] \in Outputs /\ outs[s].whole = TRUE
    BY <2>1, <2>2 DEF BatchInv, BatchTypeOK, WholeOutput
  <2> QED BY <2>1, <2>2, <2>3, <2>4 DEF Outputs, WholeOutput
<1> QED BY <1>1, BatchInvariant, PTL

-----------------------------------------------------------------------------
(* The summary.  The results that a run has collected are the status files *)
(* of the structures it has been through.                                  *)

Before == {"idle", "check", "lock", "log", "manifest"}
Through == {"loop", "summary", "close"} \cup Working

\* How many structures the run has been through.
Passed(r) == IF run[r].pc \in {"summary", "close"} THEN LastStructure ELSE run[r].at - 1

NotBegun ==
  \A r \in BatchRuns : run[r].pc \in Before => run[r].at = 1 /\ run[r].results = <<>>

Collected(r) ==
  /\ batchManifest = {run[r].settings}
  /\ Len(run[r].results) = Passed(r)
  /\ \A i \in 1..Passed(r) : /\ run[r].results[i] = status[i] /\ status[i] \in Records
                             /\ status[i].manifest = run[r].settings

ResultsAgree == \A r \in BatchRuns : run[r].pc \in Through => Collected(r)

SummaryInv == BatchInv /\ NotBegun /\ ResultsAgree /\ SummaryAgrees

\* A run that is through its structures is still inside the lock.
LEMMA ThroughIsInside == Through \subseteq Inside /\ Before \cap Through = {}
BY DEF Through, Inside, Before, Working

\* A run that begins, or leaves before it has begun.
LEMMA BeginsBefore ==
  ASSUME BatchTypeOK, NotBegun, NEW r \in BatchRuns,
         \/ \E mode \in Modes, m \in Settings : StartBatch(r, mode, m)
         \/ CheckDirectory(r) \/ LockDirectory(r) \/ OpenLog(r)
  PROVE  /\ Others(r) /\ run'[r].pc \in {"check", "lock", "log", "manifest", "refused"}
         /\ run'[r].pc # "refused" => run'[r].at = 1 /\ run'[r].results = <<>>
         /\ run[r].pc \in Before /\ UNCHANGED <<batchManifest, status, summary>>
<1> USE PcsAre DEF BatchAt
<1>1. run[r] \in Processes
  BY DEF BatchTypeOK
<1>2. ASSUME NEW mode \in Modes, NEW m \in Settings, StartBatch(r, mode, m)
      PROVE  /\ Others(r) /\ run'[r].pc = "check" /\ run'[r].at = run[r].at
             /\ run'[r].results = run[r].results
             /\ run[r].pc \in Before /\ UNCHANGED <<batchManifest, status, summary>>
  <2>1. Others(r) /\ run'[r] = [run[r] EXCEPT !.pc = "check", !.mode = mode, !.settings = m]
    BY <1>2 DEF StartBatch, Others, BatchTypeOK
  <2>2. /\ run'[r].pc = "check" /\ run'[r].at = run[r].at /\ run'[r].results = run[r].results
    BY <1>1, <2>1 DEF Processes
  <2> QED BY <1>2, <2>1, <2>2 DEF StartBatch, Before
<1>3. ASSUME NEW pc \in {"lock", "log", "manifest"}, BatchGoto(r, pc), run[r].pc \in Before
      PROVE  Others(r) /\ run'[r].pc = pc /\ run'[r].at = 1 /\ run'[r].results = <<>>
  BY <1>3, GotoEffect DEF NotBegun
<1>4. ASSUME End(r, "refused") PROVE Others(r) /\ run'[r].pc = "refused"
  BY <1>4, EndEffect
<1>5. CASE CheckDirectory(r)
  BY <1>3, <1>4, <1>5 DEF CheckDirectory, Before
<1>6. CASE LockDirectory(r)
  BY <1>3, <1>4, <1>6 DEF LockDirectory, Before
<1>7. CASE OpenLog(r)
  BY <1>3, <1>7 DEF OpenLog, Before
<1> QED BY <1>2, <1>5, <1>6, <1>7 DEF NotBegun

\* The work on a structure collects nothing and hides no older status file.
LEMMA WorkCollects ==
  ASSUME BatchTypeOK, NEW r \in BatchRuns, Collected(r), run[r].pc \in Through,
         \/ Hash(r) \/ Read(r) \/ Compute(r) \/ FinishOutputs(r) \/ StructureFails(r)
         \/ OpenSummary(r)
  PROVE  run'[r].pc \in Through /\ Collected(r)'
<1> USE PcsAre DEF BatchAt
<1>1. run[r] \in Processes
  BY DEF BatchTypeOK
<1>2. UNCHANGED <<batchManifest, status>>
  BY DEF Hash, Read, Compute, FinishOutputs, StructureFails, OpenSummary
<1>3. /\ run'[r].pc \in Through /\ run'[r].at = run[r].at /\ run'[r].settings = run[r].settings
      /\ run'[r].results = run[r].results
      /\ run'[r].pc \in {"summary", "close"} <=> run[r].pc \in {"summary", "close"}
  <2>1. CASE Hash(r)
    <3>1. run'[r] = [run[r] EXCEPT !.pc = "read", !.hashed = input[Here(r)]]
      BY <2>1 DEF Hash, BatchTypeOK
    <3>2. /\ run'[r].pc = "read" /\ run'[r].at = run[r].at
          /\ run'[r].settings = run[r].settings /\ run'[r].results = run[r].results
      BY <1>1, <3>1 DEF Processes
    <3>3. run[r].pc \notin {"summary", "close"}
      BY <2>1 DEF Hash
    <3> QED BY <3>2, <3>3 DEF Through, Working
  <2>2. CASE Read(r)
    <3>1. run'[r] = [run[r] EXCEPT !.pc = "compute", !.got = input[Here(r)]]
      BY <2>2 DEF Read, BatchTypeOK
    <3>2. /\ run'[r].pc = "compute" /\ run'[r].at = run[r].at
          /\ run'[r].settings = run[r].settings /\ run'[r].results = run[r].results
      BY <1>1, <3>1 DEF Processes
    <3>3. run[r].pc \notin {"summary", "close"}
      BY <2>2 DEF Read
    <3> QED BY <3>2, <3>3 DEF Through, Working
  <2>3. CASE Compute(r)
    BY <2>3, GotoEffect DEF Compute, Through, Working
  <2>4. CASE FinishOutputs(r)
    <3>1. PICK o \in Reusables : run' = [run EXCEPT ![r].pc = "record", ![r].outcome = o]
      BY <2>4 DEF FinishOutputs
    <3>2. run'[r] = [run[r] EXCEPT !.pc = "record", !.outcome = o]
      BY <3>1 DEF BatchTypeOK
    <3> QED BY <1>1, <2>4, <3>2 DEF FinishOutputs, Processes, Through, Working
  <2>5. CASE StructureFails(r)
    <3>1. run'[r] = [run[r] EXCEPT !.pc = "record", !.outcome = "failed"]
      BY <2>5 DEF StructureFails, BatchTypeOK
    <3>2. /\ run'[r].pc = "record" /\ run'[r].at = run[r].at
          /\ run'[r].settings = run[r].settings /\ run'[r].results = run[r].results
      BY <1>1, <3>1 DEF Processes
    <3>3. run[r].pc \notin {"summary", "close"}
      BY <2>5 DEF StructureFails
    <3> QED BY <3>2, <3>3 DEF Through, Working
  <2>6. CASE OpenSummary(r)
    BY <2>6, GotoEffect DEF OpenSummary, Through
  <2> QED BY <2>1, <2>2, <2>3, <2>4, <2>5, <2>6
<1> QED BY <1>2, <1>3 DEF Collected, Passed

\* One more structure.
LEMMA AfterCollects ==
  ASSUME BatchTypeOK, NEW r \in BatchRuns, Collected(r),
         run[r].pc \in {"loop"} \cup Working,
         NEW record \in Records, AfterStructure(r, record),
         record.manifest = run[r].settings,
         status'[Here(r)] = record,
         \A s \in Structures \ {Here(r)} : status'[s] = status[s],
         UNCHANGED batchManifest
  PROVE  run'[r].pc \in Through /\ Collected(r)'
<1> DEFINE at == run[r].at
           results == run[r].results
<1>1. /\ at \in Structures /\ results \in Seq(Records)
  BY ProcessTypes DEF BatchTypeOK
<1>2. /\ run'[r].pc = IF at = LastStructure THEN "summary" ELSE "loop"
      /\ run'[r].at = IF at = LastStructure THEN at ELSE at + 1
      /\ run'[r].settings = run[r].settings
      /\ run'[r].results = Append(results, record)
  BY AfterEffect DEF Here
<1>3. Passed(r) = at - 1 /\ Passed(r)' = at
  BY <1>1, <1>2, BatchBounds DEF Passed, Working, Structures
<1>4. Len(results) = at - 1
  BY <1>3 DEF Collected
<1>5. /\ Len(run'[r].results) = at /\ run'[r].results[at] = record
      /\ \A i \in 1..(at - 1) : run'[r].results[i] = results[i]
  BY <1>1, <1>2, <1>4 DEF Structures
<1>6. \A i \in 1..(at - 1) : /\ results[i] = status[i] /\ status[i] \in Records
                             /\ status[i].manifest = run[r].settings /\ status'[i] = status[i]
  BY <1>1, <1>3, BatchBounds DEF Collected, Structures, Here
<1>7. status'[at] = record
  BY DEF Here
<1>8. \A i \in 1..at : /\ run'[r].results[i] = status'[i] /\ status'[i] \in Records
                       /\ status'[i].manifest = run[r].settings
  <2> SUFFICES ASSUME NEW i \in 1..at
               PROVE  /\ run'[r].results[i] = status'[i] /\ status'[i] \in Records
                      /\ status'[i].manifest = run[r].settings
    OBVIOUS
  <2>1. i = at \/ i \in 1..(at - 1)
    BY <1>1 DEF Structures
  <2> QED BY <1>5, <1>6, <1>7, <2>1
<1>9. run'[r].pc \in Through
  BY <1>2 DEF Through
<1> QED BY <1>2, <1>3, <1>5, <1>8, <1>9 DEF Collected

\* A step of the owner r leaves the others where they are, before or after.
LEMMA OwnerAlone ==
  ASSUME OwnerIsInside, NotBegun, NEW r \in BatchRuns, run[r].pc \in Inside, Others(r)
  PROVE  \A q \in BatchRuns \ {r} :
           /\ run'[q].pc \notin Through
           /\ run'[q].pc \in Before => run'[q].at = 1 /\ run'[q].results = <<>>
BY ThroughIsInside DEF OwnerIsInside, Others, NotBegun

\* The results gathered so far are those of the structures passed.
LEMMA ResultsStep ==
  ASSUME BatchTypeOK, OwnerIsInside, NotBegun, ResultsAgree, [BatchNext]_batchVars
  PROVE  NotBegun' /\ ResultsAgree'
<1> USE PcsAre DEF BatchAt
<1>1. CASE UNCHANGED batchVars
  BY <1>1 DEF batchVars, NotBegun, ResultsAgree, Collected, Passed
<1>2. ASSUME NEW r \in BatchRuns,
             \/ \E mode \in Modes, m \in Settings : StartBatch(r, mode, m)
             \/ CheckDirectory(r) \/ LockDirectory(r) \/ OpenLog(r)
      PROVE  NotBegun' /\ ResultsAgree'
  <2>1. /\ Others(r) /\ run'[r].pc \in {"check", "lock", "log", "manifest", "refused"}
        /\ run'[r].pc # "refused" => run'[r].at = 1 /\ run'[r].results = <<>>
        /\ UNCHANGED <<batchManifest, status>>
    BY <1>2, BeginsBefore
  <2>2. NotBegun'
    BY <2>1 DEF NotBegun, Others, Before
  <2>3. ASSUME NEW q \in BatchRuns, run'[q].pc \in Through PROVE Collected(q)'
    <3>1. q # r
      BY <2>1, <2>3 DEF Through, Working
    <3>2. run'[q] = run[q]
      BY <2>1, <3>1 DEF Others
    <3>3. Collected(q)
      BY <2>3, <3>2 DEF ResultsAgree
    <3> QED BY <2>1, <3>2, <3>3 DEF Collected, Passed
  <2> QED BY <2>2, <2>3 DEF ResultsAgree
<1>3. ASSUME NEW r \in BatchRuns, PrepareManifest(r) PROVE NotBegun' /\ ResultsAgree'
  <2>1. run[r].pc \in Inside /\ run[r].pc \in Before
    BY <1>3 DEF PrepareManifest, Inside, Before
  <2>2. CASE BatchGoto(r, "loop") /\ batchManifest' = {run[r].settings}
    <3>1. /\ Others(r) /\ run'[r].pc = "loop" /\ run'[r].at = 1 /\ run'[r].results = <<>>
          /\ run'[r].settings = run[r].settings
      BY <2>1, <2>2, GotoEffect DEF NotBegun
    <3>2. Collected(r)'
      BY <2>2, <3>1 DEF Collected, Passed
    <3> QED BY <2>1, <3>1, <3>2, OwnerAlone DEF NotBegun, ResultsAgree, Before
  <2>3. CASE End(r, "refused")
    <3>1. Others(r) /\ run'[r].pc = "refused"
      BY <2>3, EndEffect
    <3> QED BY <2>1, <3>1, OwnerAlone DEF NotBegun, ResultsAgree, Before, Through, Working
  <2> QED BY <1>3, <2>2, <2>3 DEF PrepareManifest
<1>4. ASSUME NEW r \in BatchRuns, Consider(r) \/ RecordStatus(r) PROVE NotBegun' /\ ResultsAgree'
  <2>1. run[r].pc \in {"loop"} \cup Working /\ run[r].pc \in Inside /\ run[r].pc \in Through
    BY <1>4 DEF Consider, RecordStatus, Inside, Working, Through
  <2>2. Others(r)
    BY <1>4, StaysInside DEF Stays
  <2>3. /\ Here(r) \in Structures /\ run[r].hashed \in Contents
        /\ status \in [Structures -> Records \cup {Missing}]
    BY ProcessTypes DEF BatchTypeOK, Here
  <2>4. Collected(r)
    BY <2>1 DEF ResultsAgree
  <2>5. run'[r].pc \in Through /\ Collected(r)'
    <3>1. CASE Consider(r) /\ run[r].mode = "resume" /\ Reusable(run[r].settings, Here(r))
      <4>1. /\ AfterStructure(r, status[Here(r)]) /\ UNCHANGED <<status, batchManifest>>
            /\ status[Here(r)] \in Records /\ status[Here(r)].manifest = run[r].settings
        BY <2>3, <3>1 DEF Consider, Reusable
      <4> QED BY <2>1, <2>4, <4>1, AfterCollects
    <3>2. CASE Consider(r) /\ ~(run[r].mode = "resume" /\ Reusable(run[r].settings, Here(r)))
      <4>1. /\ run'[r].pc = "hash" /\ run'[r].at = run[r].at /\ run'[r].settings = run[r].settings
            /\ run'[r].results = run[r].results
            /\ status' = [status EXCEPT ![Here(r)] = Missing] /\ UNCHANGED batchManifest
        BY <3>2, GotoEffect DEF Consider
      <4>2. run[r].pc = "loop"
        BY <3>2 DEF Consider
      <4>3. Passed(r)' = run[r].at - 1 /\ Passed(r) = run[r].at - 1
        BY <4>1, <4>2 DEF Passed
      <4>4. \A i \in 1..(run[r].at - 1) : status'[i] = status[i]
        BY <2>3, <4>1 DEF Structures, Here
      <4> QED BY <2>4, <4>1, <4>3, <4>4 DEF Collected, Through, Working
    <3>3. CASE RecordStatus(r)
      <4>1. NewRecord(r, run[r].hashed) \in Records
        BY <2>3, NewRecordType
      <4>2. NewRecord(r, run[r].hashed).manifest = run[r].settings
        BY DEF NewRecord
      <4>3. /\ AfterStructure(r, NewRecord(r, run[r].hashed)) /\ UNCHANGED batchManifest
            /\ status'[Here(r)] = NewRecord(r, run[r].hashed)
            /\ \A s \in Structures \ {Here(r)} : status'[s] = status[s]
        BY <2>3, <3>3 DEF RecordStatus
      <4> QED BY <2>1, <2>4, <4>1, <4>2, <4>3, AfterCollects
    <3> QED BY <1>4, <3>1, <3>2, <3>3
  <2> QED BY <2>1, <2>2, <2>5, OwnerAlone, ThroughIsInside DEF NotBegun, ResultsAgree
<1>5. ASSUME NEW r \in BatchRuns,
             \/ Hash(r) \/ Read(r) \/ Compute(r) \/ FinishOutputs(r) \/ StructureFails(r)
             \/ OpenSummary(r)
      PROVE  NotBegun' /\ ResultsAgree'
  <2>1. run[r].pc \in Through /\ run[r].pc \in Inside
    BY <1>5 DEF Hash, Read, Compute, FinishOutputs, StructureFails, OpenSummary, Inside, Working,
                Through
  <2>2. Others(r)
    BY <1>5, StaysInside DEF Stays
  <2>3. run'[r].pc \in Through /\ Collected(r)'
    BY <1>5, <2>1, WorkCollects DEF ResultsAgree
  <2> QED BY <2>1, <2>2, <2>3, OwnerAlone, ThroughIsInside DEF NotBegun, ResultsAgree
<1>6. ASSUME NEW r \in BatchRuns, WriteSummary(r) \/ BatchDies(r) PROVE NotBegun' /\ ResultsAgree'
  <2>1. run[r].pc \in Inside
    BY <1>6 DEF WriteSummary, BatchDies, Inside
  <2>2. Others(r) /\ run'[r].pc \in {"done", "dead"}
    BY <1>6, EndEffect DEF WriteSummary, BatchDies
  <2> QED BY <2>1, <2>2, OwnerAlone DEF NotBegun, ResultsAgree, Before, Through, Working
<1>7. ASSUME NEW s \in Structures, EditInput(s) \/ DamageOutput(s) PROVE NotBegun' /\ ResultsAgree'
  BY <1>7 DEF EditInput, DamageOutput, NotBegun, ResultsAgree, Collected, Passed
<1> QED BY <1>1, <1>2, <1>3, <1>4, <1>5, <1>6, <1>7 DEF BatchNext, BatchStep

\* The run that completes leaves a summary of its status files behind.
LEMMA WriteAgrees ==
  ASSUME BatchTypeOK, OwnerIsInside, OwnerIsLast, ResultsAgree, NEW r \in BatchRuns, WriteSummary(r)
  PROVE  SummaryAgrees'
<1>1. run[r].pc = "close" /\ holder = r /\ last' = r
  BY BatchRunsNat DEF WriteSummary, BatchAt, OwnerIsInside, OwnerIsLast, Inside
<1>2. Passed(r) = LastStructure /\ Collected(r)
  BY <1>1 DEF ResultsAgree, Through, Passed
<1>3. /\ run[r].results \in Seq(Records) /\ Len(run[r].results) = LastStructure
      /\ \A i \in Structures : run[r].results[i] = status[i] /\ status[i].manifest = run[r].settings
  BY <1>2, ProcessTypes DEF BatchTypeOK, Collected, Structures
<1>4. run[r].results = status
  <2>1. run[r].results \in [Structures -> Records]
    BY <1>3 DEF Structures
  <2> QED BY <1>3, <2>1 DEF BatchTypeOK
<1>5. batchManifest = {run[r].settings}
  BY <1>2 DEF Collected
<1> QED BY <1>3, <1>4, <1>5, <1>1 DEF WriteSummary, SummaryAgrees

\* The summary is written from all results, by the run inside.
LEMMA SummaryStep ==
  ASSUME BatchTypeOK, OwnerIsInside, OwnerIsLast, NotBegun, ResultsAgree, SummaryAgrees,
         [BatchNext]_batchVars
  PROVE  SummaryAgrees'
<1> USE PcsAre, BatchRunsNat DEF BatchAt, dirVars
<1>1. CASE UNCHANGED batchVars
  BY <1>1 DEF batchVars, SummaryAgrees
<1>2. ASSUME NEW r \in BatchRuns, Stays(r) PROVE SummaryAgrees'
  BY <1>2 DEF Stays, OwnerIsInside, SummaryAgrees
<1>3. ASSUME NEW r \in BatchRuns,
             \/ \E mode \in Modes, m \in Settings : StartBatch(r, mode, m)
             \/ CheckDirectory(r) \/ LockDirectory(r)
      PROVE  SummaryAgrees'
  <2>1. /\ Others(r) /\ run'[r].pc # "done" /\ run[r].pc # "done"
        /\ UNCHANGED <<batchManifest, status, summary>>
    BY <1>3, BeginsBefore DEF Before
  <2>2. UNCHANGED <<holder, last>> \/ holder' = r
    BY <1>3 DEF StartBatch, CheckDirectory, LockDirectory, Take
  <2>3. last \in BatchRuns \cup {NoRun}
    BY DEF BatchTypeOK
  <2> QED BY <2>1, <2>2, <2>3 DEF SummaryAgrees, Others
<1>4. ASSUME NEW r \in BatchRuns, PrepareManifest(r) PROVE SummaryAgrees'
  <2>1. holder = r /\ last' = r
    BY <1>4 DEF PrepareManifest, OwnerIsInside, OwnerIsLast, Inside
  <2>2. run'[r].pc \in {"loop", "refused"}
    BY <1>4, GotoEffect, EndEffect DEF PrepareManifest
  <2> QED BY <2>1, <2>2 DEF SummaryAgrees
<1>5. ASSUME NEW r \in BatchRuns, BatchDies(r) PROVE SummaryAgrees'
  <2>1. last' = r
    BY <1>5 DEF BatchDies, OwnerIsInside, OwnerIsLast
  <2>2. run'[r].pc = "dead"
    BY <1>5, EndEffect DEF BatchDies
  <2> QED BY <2>1, <2>2 DEF SummaryAgrees
<1>6. ASSUME NEW s \in Structures, EditInput(s) \/ DamageOutput(s) PROVE SummaryAgrees'
  BY <1>6 DEF EditInput, DamageOutput, SummaryAgrees
<1> QED BY <1>1, <1>2, <1>3, <1>4, <1>5, <1>6, StaysInside, WriteAgrees DEF BatchNext, BatchStep

\* The invariant of the summary holds at the start.
LEMMA SummaryInvInit == BatchInit => SummaryInv
<1> SUFFICES ASSUME BatchInit PROVE SummaryInv
  OBVIOUS
<1>1. NotBegun /\ ResultsAgree
  BY DEF BatchInit, Idle, NotBegun, ResultsAgree, Through, Working
<1> QED BY <1>1, InitBatch DEF BatchInit, SummaryInv, SummaryAgrees

\* Every step keeps the invariant of the summary.
LEMMA SummaryInvStep == SummaryInv /\ [BatchNext]_batchVars => SummaryInv'
<1> SUFFICES ASSUME SummaryInv, [BatchNext]_batchVars PROVE SummaryInv'
  OBVIOUS
<1>1. BatchInv'
  BY BatchInvStep DEF SummaryInv
<1>2. NotBegun' /\ ResultsAgree'
  BY ResultsStep DEF SummaryInv, BatchInv
<1>3. SummaryAgrees'
  BY SummaryStep DEF SummaryInv, BatchInv
<1> QED BY <1>1, <1>2, <1>3 DEF SummaryInv

\* SummaryAgrees for any number of runs and structures: when the last run to
\* own the directory has completed, batch_summary.json, the status files and
\* the manifest are of one run.
THEOREM SummaryCorrect == BatchSpec => []SummaryAgrees
<1>1. SummaryInv => SummaryAgrees
  BY DEF SummaryInv
<1> QED BY <1>1, SummaryInvInit, SummaryInvStep, PTL DEF BatchSpec
=============================================================================
