------------------------------- MODULE NebRun -------------------------------
(***************************************************************************)
(* The attempts at one NEB run in its directory: neb/workflow.py, the      *)
(* checkpoint store of neb/io.py, the stages of runners/neb.py.  The lock  *)
(* .neb-run.lock lets one attempt at a time into the directory (the others *)
(* are refused before they touch anything), so attempts follow each other: *)
(* the first is new, the others resume from a checkpoint of the user's     *)
(* choice.  Any write may fail, a KeyboardInterrupt or a cancellation may  *)
(* arrive, and the process may be killed between any two steps.            *)
(*                                                                         *)
(* A band is the number of optimiser steps it has gone through since it    *)
(* was interpolated; a checkpoint is its place in the sequence of step_N   *)
(* directories.  Each JSON file, each checkpoint directory and the pointer *)
(* latest are replaced atomically.                                         *)
(***************************************************************************)
EXTENDS Naturals, Sequences

CONSTANTS
  Policy,           \* endpoint_policy: "relax" or "validate"
  Climb,            \* the climbing-image stage follows the first
  Interval,         \* checkpoint_interval
  StageSteps,       \* max_steps of a stage
  MaxAttempts,      \* bound
  MaxRaises         \* bound: failing writes, interrupts, cancellations

ASSUME NebOptions == Policy \in {"relax", "validate"} /\ Climb \in BOOLEAN
ASSUME NebNumbers == /\ Interval \in Nat \ {0} /\ StageSteps \in Nat
                     /\ MaxAttempts \in Nat /\ MaxRaises \in Nat

VARIABLES
  attempt,          \* the process of the present attempt
  checkpoints,      \* the directories step_N
  latest,           \* the checkpoint the pointer names, 0 without one
  context,          \* run_context.json
  results,          \* neb_results.json
  arts,             \* artifacts.json
  exported,         \* attempts whose VASP path has been exported
  raises

nebFiles == <<checkpoints, latest, context, results, arts, exported>>
nebVars == <<attempt, nebFiles, raises>>

-----------------------------------------------------------------------------
Stages == IF Climb THEN <<"neb_pre", "ci_neb">> ELSE <<"neb">>
Labels == {"prepared", "final", "neb", "neb_pre", "ci_neb"}
Failures == {"failed", "cancelled"}
Endings == {"completed", "not_converged"}
NoReport == [status |-> "none", attempt |-> 0, checkpoint |-> 0]

\* What the try statements cover, and the steps of _record_failed_attempt.
Covered == {"write", "link", "point", "relax", "step", "export", "results", "context",
            "artifacts"}
Recording == {"failResults", "failContext", "failArtifacts"}
Gone == {"left", "dead"}

NebAt(pc) == attempt.pc = pc
NebGoto(pc) == attempt' = [attempt EXCEPT !.pc = pc]

NewAttempt(pc, id, source, band) ==
  [pc |-> pc, id |-> id, source |-> source, loaded |-> band, band |-> band,
   label |-> "prepared", stage |-> 1, step |-> 0, checkpoint |-> 0, status |-> "running"]

Die == attempt' = NewAttempt("dead", attempt.id, "given", 0)

NebInit ==
  /\ attempt = NewAttempt("dead", 0, "given", 0)
  /\ checkpoints = <<>> /\ latest = 0
  /\ context = NoReport /\ results = NoReport /\ arts = NoReport
  /\ exported = {}
  /\ raises = 0

-----------------------------------------------------------------------------
(* The beginning of an attempt. *)

Begin(source, band) ==
  /\ attempt.pc \in Gone
  /\ attempt.id < MaxAttempts
  /\ attempt' = NewAttempt("begin", attempt.id + 1, source, band)
  /\ UNCHANGED <<nebFiles, raises>>

\* _preflight_new_output: a new attempt needs a directory without files.
BeginNew == attempt.id = 0 /\ Begin("given", 0)

\* _resume_band: the stage of the checkpoint tells where its band comes from.
ResumeSource(c) == IF checkpoints[c].label = "prepared" THEN "prepared" ELSE "optimized"

\* A run directory that has a pointer resumes at latest; naming a step
\* directory resumes there.
BeginResume == \E c \in DOMAIN checkpoints : Begin(ResumeSource(c), checkpoints[c].band)

\* run_context.json (and resolved_config.json), before the first try.
WriteRunning ==
  /\ NebAt("begin")
  /\ context' = [status |-> "running", attempt |-> attempt.id, checkpoint |-> 0]
  /\ NebGoto("write")
  /\ UNCHANGED <<checkpoints, latest, results, arts, exported, raises>>

-----------------------------------------------------------------------------
(* NEBCheckpointStore.write, and the artifacts that follow it. *)

WriteDirectory ==
  /\ NebAt("write")
  /\ checkpoints' = Append(checkpoints, [attempt |-> attempt.id, label |-> attempt.label,
                                         band |-> attempt.band])
  /\ NebGoto("link")
  /\ UNCHANGED <<latest, context, results, arts, exported, raises>>

\* Mutant: the results are published without the export.
AfterLinkNoExport == IF attempt.label = "final" THEN "results" ELSE "point"

AfterLink == IF attempt.label = "final" THEN "export" ELSE "point"

\* Mutant: the pointer names the next number of the sequence.
MoveLatestOffByOne ==
  /\ NebAt("link")
  /\ latest' = Len(checkpoints) + 1
  /\ attempt' = [attempt EXCEPT !.pc = AfterLink, !.checkpoint = Len(checkpoints)]
  /\ UNCHANGED <<checkpoints, context, results, arts, exported, raises>>

\* Mutant: the pointer moves only at the end of an attempt.
MoveLatestAtEnd ==
  /\ NebAt("link")
  /\ latest' = IF attempt.label = "final" THEN Len(checkpoints) ELSE latest
  /\ attempt' = [attempt EXCEPT !.pc = AfterLink, !.checkpoint = Len(checkpoints)]
  /\ UNCHANGED <<checkpoints, context, results, arts, exported, raises>>

MoveLatest ==
  /\ NebAt("link")
  /\ latest' = Len(checkpoints)
  /\ attempt' = [attempt EXCEPT !.pc = AfterLink, !.checkpoint = Len(checkpoints)]
  /\ UNCHANGED <<checkpoints, context, results, arts, exported, raises>>

Report(status) == [status |-> status, attempt |-> attempt.id, checkpoint |-> attempt.checkpoint]

PointArtifacts ==
  /\ NebAt("point")
  /\ arts' = Report("running")
  /\ NebGoto(IF attempt.label = "prepared" THEN "relax" ELSE "step")
  /\ UNCHANGED <<checkpoints, latest, context, results, exported, raises>>

-----------------------------------------------------------------------------
(* NEBRunner.run. *)

\* A band at the given stage and step; checkpoint_callback decides whether it
\* is written.
Reached(stage, step, band) ==
  attempt' = [attempt EXCEPT !.stage = stage, !.step = step, !.band = band,
                             !.label = Stages[stage],
                             !.pc = IF step % Interval = 0 THEN "write" ELSE "step"]

\* The end points, and the band between them: an optimised band is kept, any
\* other is interpolated anew when its end points were relaxed.
Relax ==
  /\ NebAt("relax")
  /\ Reached(1, 0, IF attempt.source # "optimized" /\ Policy = "relax"
                   THEN 0 ELSE attempt.band)
  /\ UNCHANGED <<nebFiles, raises>>

\* The final band.
FinalBand(status) ==
  attempt' = [attempt EXCEPT !.label = "final", !.pc = "write", !.status = status]

\* An optimiser step, the end of the first of two stages, or the end.
Optimise ==
  /\ NebAt("step")
  /\ \/ attempt.step < StageSteps /\ Reached(attempt.stage, attempt.step + 1, attempt.band + 1)
     \/ attempt.stage < Len(Stages) /\ Reached(attempt.stage + 1, 0, attempt.band)
     \/ attempt.stage = Len(Stages) /\ FinalBand("completed")
     \/ attempt.step = StageSteps /\ FinalBand("not_converged")
  /\ UNCHANGED <<nebFiles, raises>>

-----------------------------------------------------------------------------
(* The reports at the end. *)

Export ==
  /\ NebAt("export")
  /\ exported' = exported \cup {attempt.id}
  /\ NebGoto("results")
  /\ UNCHANGED <<checkpoints, latest, context, results, arts, raises>>

WriteResults ==
  /\ NebAt("results")
  /\ results' = Report(attempt.status)
  /\ NebGoto("context")
  /\ UNCHANGED <<checkpoints, latest, context, arts, exported, raises>>

WriteContext ==
  /\ NebAt("context")
  /\ context' = [context EXCEPT !.status = attempt.status]
  /\ NebGoto("artifacts")
  /\ UNCHANGED <<checkpoints, latest, results, arts, exported, raises>>

WriteArtifacts ==
  /\ NebAt("artifacts")
  /\ arts' = Report(attempt.status)
  /\ NebGoto("left")
  /\ UNCHANGED <<checkpoints, latest, context, results, exported, raises>>

\* An exception: outside the try statements, and while the failure is being
\* recorded, it just leaves the attempt.
NebRaise ==
  /\ raises < MaxRaises
  /\ raises' = raises + 1
  /\ \/ /\ attempt.pc \in Covered
        /\ \E status \in Failures :
             attempt' = [attempt EXCEPT !.pc = "failResults", !.status = status]
     \/ attempt.pc \in {"begin"} \cup Recording /\ Die
  /\ UNCHANGED nebFiles

\* _record_failed_attempt.
FailResults ==
  /\ NebAt("failResults")
  /\ results' = Report(attempt.status)
  /\ NebGoto("failContext")
  /\ UNCHANGED <<checkpoints, latest, context, arts, exported, raises>>

\* Mutant: the failure is recorded in the results and the context only.
FailContextOnly ==
  /\ NebAt("failContext")
  /\ context' = [context EXCEPT !.status = attempt.status]
  /\ NebGoto("left")
  /\ UNCHANGED <<checkpoints, latest, results, arts, exported, raises>>

FailContext ==
  /\ NebAt("failContext")
  /\ context' = [context EXCEPT !.status = attempt.status]
  /\ NebGoto("failArtifacts")
  /\ UNCHANGED <<checkpoints, latest, results, arts, exported, raises>>

FailArtifacts ==
  /\ NebAt("failArtifacts")
  /\ arts' = Report(attempt.status)
  /\ NebGoto("left")
  /\ UNCHANGED <<checkpoints, latest, context, results, exported, raises>>

NebKilled ==
  /\ attempt.pc \notin Gone
  /\ Die
  /\ UNCHANGED <<nebFiles, raises>>

NebNext ==
  \/ BeginNew \/ BeginResume \/ WriteRunning
  \/ WriteDirectory \/ MoveLatest \/ PointArtifacts
  \/ Relax \/ Optimise
  \/ Export \/ WriteResults \/ WriteContext \/ WriteArtifacts
  \/ NebRaise \/ FailResults \/ FailContext \/ FailArtifacts
  \/ NebKilled

NebSpec == NebInit /\ [][NebNext]_nebVars

-----------------------------------------------------------------------------
Reports == [status : {"none", "running"} \cup Endings \cup Failures, attempt : Nat,
            checkpoint : Nat]

\* Type correctness of the attempt and of the run directory.
NebTypeOK ==
  /\ attempt \in [pc : {"begin"} \cup Covered \cup Recording \cup Gone, id : Nat,
                  source : {"given", "prepared", "optimized"}, loaded : Nat, band : Nat,
                  label : Labels, stage : DOMAIN Stages, step : 0..StageSteps,
                  checkpoint : Nat, status : {"running"} \cup Endings \cup Failures]
  /\ checkpoints \in Seq([attempt : Nat, label : Labels, band : Nat])
  /\ latest \in {0} \cup DOMAIN checkpoints
  /\ context \in Reports /\ results \in Reports /\ arts \in Reports
  /\ exported \subseteq Nat
  /\ raises \in 0..MaxRaises

\* A resume that is given the run directory starts from the pointer
\* (resolve_checkpoint_path): it misses at most the one checkpoint that each
\* attempt was writing when it ended, however often attempts die.
LatestIsNearlyNewest ==
  \A i, j \in DOMAIN checkpoints :
    latest < i /\ i < j => checkpoints[i].attempt # checkpoints[j].attempt

\* When an attempt has come to its end, also to a failure it could record,
\* its three reports tell one story: the same attempt, status and checkpoint.
NebReportsAgree ==
  NebAt("left") =>
    /\ results = Report(attempt.status)
    /\ arts = results
    /\ context.status = results.status /\ context.attempt = results.attempt

\* A finished status in a result or in the artifacts is backed by the final
\* checkpoint of that attempt and by its exported VASP path, whatever failed
\* or was killed meanwhile.
FinishedIsBacked ==
  \A report \in {results, arts} :
    report.status \in Endings =>
      /\ report.checkpoint \in DOMAIN checkpoints
      /\ checkpoints[report.checkpoint].label = "final"
      /\ checkpoints[report.checkpoint].attempt = report.attempt
      /\ report.attempt \in exported

\* "Geometry resume must preserve the saved interior path" (runners/neb.py:237):
\* a resumed attempt optimises from the band its checkpoint holds.
BandKept ==
  [][NebAt("relax") /\ ~NebAt("relax")' /\ attempt'.pc \in {"write", "step"}
       => attempt'.band = attempt.loaded]_nebVars
=============================================================================
