------------------------------ MODULE BatchRun ------------------------------
(***************************************************************************)
(* Batch runs in one output directory (runners/batch.py and the claim and  *)
(* log of engine.py): first runs, overwriting runs and resumed runs, two   *)
(* of them at the same time, each of which may be killed between any two   *)
(* writes, while the user edits input files.                               *)
(*                                                                         *)
(* A result is named by what it was computed from: the settings of the run *)
(* (everything _manifest collects) and the content of the input file that  *)
(* was read.  Two contents have different SHA-256 sums; two whole outputs  *)
(* may have the same size.  A content that has been edited away does not   *)
(* come back.  The progress log, which nothing reads, is left out.         *)
(***************************************************************************)
EXTENDS RunDirectory, Naturals, Sequences

CONSTANTS
  BatchRuns,        \* processes, numbered in the order they are started
  Settings,         \* what _manifest distinguishes
  LastStructure,    \* structures are 1 .. LastStructure, in order
  MaxActs           \* bound: edits of input files and damage to outputs

ASSUME BatchRunsNat == BatchRuns \subseteq Nat /\ NoRun \notin BatchRuns
ASSUME BatchBounds == LastStructure \in Nat \ {0} /\ MaxActs \in Nat /\ Settings # {}

Structures == 1..LastStructure
Contents == 0..MaxActs

Missing == [kind |-> "missing"]
Outputs == [kind : {"files"}, settings : Settings, content : Contents, whole : BOOLEAN]
Outcomes == {"completed", "failed"}     \* "completed" stands for "not_converged" too
Reusables == {"completed"}
Records == [kind : {"record"}, manifest : Settings, content : Contents, outcome : Outcomes,
            outputs : Outputs \cup {Missing}]

VARIABLES
  run,              \* the processes
  batchManifest,    \* batch_manifest.json: {} or one element
  status,           \* the status file of each structure
  outs,             \* the output files of each structure
  summary,          \* batch_summary.json
  input,            \* the content of each input file
  acts,             \* acts of the user so far
  last              \* history: the last run that took the lock

batchVars == <<dirVars, run, batchManifest, status, outs, summary, input, acts, last>>

-----------------------------------------------------------------------------
Idle == [pc |-> "idle", mode |-> "new", settings |-> CHOOSE m \in Settings : TRUE,
         at |-> 1, hashed |-> 0, got |-> 0, outcome |-> "failed", results |-> <<>>]

\* While a structure is worked on, and while the lock is held.
Working == {"hash", "read", "compute", "finish", "record"}
Inside == {"log", "manifest", "loop", "summary", "close"} \cup Working
Ended == {"refused", "done", "dead"}

Processes == [pc : {"idle", "check", "lock"} \cup Inside \cup Ended, mode : Modes,
              settings : Settings, at : Structures, hashed : Contents, got : Contents,
              outcome : Outcomes, results : Seq(Records)]

BatchAt(r, pc) == run[r].pc = pc
BatchGoto(r, pc) == run' = [run EXCEPT ![r].pc = pc]
End(r, pc) == run' = [run EXCEPT ![r] = [Idle EXCEPT !.pc = pc]]
Here(r) == run[r].at

BatchInit ==
  /\ DirInit
  /\ run = [r \in BatchRuns |-> Idle]
  /\ batchManifest = {}
  /\ status = [s \in Structures |-> Missing]
  /\ outs = [s \in Structures |-> Missing]
  /\ summary = Missing
  /\ input = [s \in Structures |-> 0]
  /\ acts = 0
  /\ last = NoRun

-----------------------------------------------------------------------------
(* Claim of the directory. *)

StartBatch(r, mode, settings) ==
  /\ BatchAt(r, "idle")
  /\ \A q \in BatchRuns : q < r => ~BatchAt(q, "idle")
  /\ run' = [run EXCEPT ![r].pc = "check", ![r].mode = mode, ![r].settings = settings]
  /\ UNCHANGED <<dirVars, batchManifest, status, outs, summary, input, acts, last>>

CheckDirectory(r) ==
  /\ BatchAt(r, "check")
  /\ IF Available(run[r].mode) THEN BatchGoto(r, "lock") ELSE End(r, "refused")
  /\ UNCHANGED <<dirVars, batchManifest, status, outs, summary, input, acts, last>>

LockDirectory(r) ==
  /\ BatchAt(r, "lock")
  /\ \/ Take(r) /\ BatchGoto(r, "log") /\ last' = r
     \/ holder # NoRun /\ End(r, "refused") /\ UNCHANGED <<holder, last>>
  /\ UNCHANGED <<artifacts, batchManifest, status, outs, summary, input, acts>>

\* resolved_config.json and run.log.
OpenLog(r) ==
  /\ BatchAt(r, "log")
  /\ artifacts' = TRUE
  /\ BatchGoto(r, "manifest")
  /\ UNCHANGED <<holder, batchManifest, status, outs, summary, input, acts, last>>

PrepareManifest(r) ==
  /\ BatchAt(r, "manifest")
  /\ IF run[r].mode # "resume"
     THEN batchManifest' = {run[r].settings} /\ BatchGoto(r, "loop") /\ UNCHANGED holder
     ELSE /\ UNCHANGED batchManifest
          /\ IF batchManifest = {run[r].settings}
             THEN BatchGoto(r, "loop") /\ UNCHANGED holder
             ELSE End(r, "refused") /\ Free(r)
  /\ UNCHANGED <<artifacts, status, outs, summary, input, acts, last>>

-----------------------------------------------------------------------------
(* One structure after the other. *)

\* _reusable_record: what is on disk for structure s, seen from a run with the
\* given settings.  Of an output only its size is compared.
Reusable(settings, s) ==
  /\ status[s] # Missing
  /\ status[s].manifest = settings
  /\ status[s].outcome \in Reusables
  /\ status[s].content = input[s]
  /\ status[s].outputs # Missing
  /\ outs[s] # Missing
  /\ outs[s].whole = status[s].outputs.whole

AfterStructure(r, record) ==
  run' = [run EXCEPT ![r] =
            [Idle EXCEPT !.mode = run[r].mode, !.settings = run[r].settings,
                         !.results = Append(run[r].results, record),
                         !.at = IF Here(r) = LastStructure THEN Here(r) ELSE Here(r) + 1,
                         !.pc = IF Here(r) = LastStructure THEN "summary" ELSE "loop"]]

\* Mutant: the old status file stays until the new one replaces it.
ConsiderKeepsStatus(r) ==
  /\ BatchAt(r, "loop")
  /\ UNCHANGED status
  /\ IF run[r].mode = "resume" /\ Reusable(run[r].settings, Here(r))
     THEN AfterStructure(r, status[Here(r)])
     ELSE BatchGoto(r, "hash")
  /\ UNCHANGED <<dirVars, batchManifest, outs, summary, input, acts, last>>

Consider(r) ==
  /\ BatchAt(r, "loop")
  /\ IF run[r].mode = "resume" /\ Reusable(run[r].settings, Here(r))
     THEN AfterStructure(r, status[Here(r)]) /\ UNCHANGED status
     ELSE BatchGoto(r, "hash") /\ status' = [status EXCEPT ![Here(r)] = Missing]
  /\ UNCHANGED <<dirVars, batchManifest, outs, summary, input, acts, last>>

Hash(r) ==
  /\ BatchAt(r, "hash")
  /\ run' = [run EXCEPT ![r].pc = "read", ![r].hashed = input[Here(r)]]
  /\ UNCHANGED <<dirVars, batchManifest, status, outs, summary, input, acts, last>>

Read(r) ==
  /\ BatchAt(r, "read")
  /\ run' = [run EXCEPT ![r].pc = "compute", ![r].got = input[Here(r)]]
  /\ UNCHANGED <<dirVars, batchManifest, status, outs, summary, input, acts, last>>

ReadContent(r, whole) ==
  [kind |-> "files", settings |-> run[r].settings, content |-> run[r].got, whole |-> whole]

\* The runner of the structure begins to write its outputs, among what an
\* earlier attempt may have left there (not represented) ...
Compute(r) ==
  /\ BatchAt(r, "compute")
  /\ outs' = [outs EXCEPT ![Here(r)] = ReadContent(r, FALSE)]
  /\ BatchGoto(r, "finish")
  /\ UNCHANGED <<dirVars, batchManifest, status, summary, input, acts, last>>

\* ... and has written all of them.
FinishOutputs(r) ==
  /\ BatchAt(r, "finish")
  /\ outs' = [outs EXCEPT ![Here(r)] = ReadContent(r, TRUE)]
  /\ \E o \in Reusables : run' = [run EXCEPT ![r].pc = "record", ![r].outcome = o]
  /\ UNCHANGED <<dirVars, batchManifest, status, summary, input, acts, last>>

\* Mutant: a cancellation is recorded as the outcome of the structure.
StructureFailsCancelled(r) ==
  /\ run[r].pc \in {"hash", "read", "compute", "finish"}
  /\ run' = [run EXCEPT ![r].pc = "record", ![r].outcome = "cancelled"]
  /\ UNCHANGED <<dirVars, batchManifest, status, outs, summary, input, acts, last>>

\* An exception other than a cancellation, at any point of the work.
StructureFails(r) ==
  /\ run[r].pc \in {"hash", "read", "compute", "finish"}
  /\ run' = [run EXCEPT ![r].pc = "record", ![r].outcome = "failed"]
  /\ UNCHANGED <<dirVars, batchManifest, status, outs, summary, input, acts, last>>

NewRecord(r, hash) ==
  [kind |-> "record", manifest |-> run[r].settings, content |-> hash,
   outcome |-> run[r].outcome, outputs |-> outs[Here(r)]]

\* Mutant: the input file is hashed when the result is recorded.
RecordHashesLast(r) ==
  /\ BatchAt(r, "record")
  /\ status' = [status EXCEPT ![Here(r)] = NewRecord(r, input[Here(r)])]
  /\ AfterStructure(r, NewRecord(r, input[Here(r)]))
  /\ UNCHANGED <<dirVars, batchManifest, outs, summary, input, acts, last>>

\* The status file, replaced atomically; the progress line follows.
RecordStatus(r) ==
  /\ BatchAt(r, "record")
  /\ status' = [status EXCEPT ![Here(r)] = NewRecord(r, run[r].hashed)]
  /\ AfterStructure(r, NewRecord(r, run[r].hashed))
  /\ UNCHANGED <<dirVars, batchManifest, outs, summary, input, acts, last>>

-----------------------------------------------------------------------------
\* batch_summary.json is opened for writing ...
OpenSummary(r) ==
  /\ BatchAt(r, "summary")
  /\ summary' = [kind |-> "torn"]
  /\ BatchGoto(r, "close")
  /\ UNCHANGED <<dirVars, batchManifest, status, outs, input, acts, last>>

\* ... written and closed; the run leaves the directory.
WriteSummary(r) ==
  /\ BatchAt(r, "close")
  /\ summary' = [kind |-> "summary", results |-> run[r].results]
  /\ Free(r)
  /\ End(r, "done")
  /\ UNCHANGED <<artifacts, batchManifest, status, outs, input, acts, last>>

\* The process is killed, or a cancellation or an error outside
\* _process_one leaves the run.
BatchDies(r) ==
  /\ run[r].pc \in Inside
  /\ End(r, "dead")
  /\ Free(r)
  /\ UNCHANGED <<artifacts, batchManifest, status, outs, summary, input, acts, last>>

BatchStep(r) ==
  \/ CheckDirectory(r) \/ LockDirectory(r) \/ OpenLog(r) \/ PrepareManifest(r)
  \/ Consider(r) \/ Hash(r) \/ Read(r) \/ Compute(r) \/ FinishOutputs(r) \/ StructureFails(r)
  \/ RecordStatus(r) \/ OpenSummary(r) \/ WriteSummary(r) \/ BatchDies(r)

\* The user replaces the content of an input file, at any time.
EditInput(s) ==
  /\ acts < MaxActs
  /\ acts' = acts + 1
  /\ input' = [input EXCEPT ![s] = @ + 1]
  /\ UNCHANGED <<dirVars, run, batchManifest, status, outs, summary, last>>

\* The user removes an output or cuts it short, while nothing runs.
DamageOutput(s) ==
  /\ holder = NoRun
  /\ acts < MaxActs
  /\ acts' = acts + 1
  /\ outs[s] # Missing
  /\ outs' = [outs EXCEPT ![s].whole = FALSE]
  /\ UNCHANGED <<dirVars, run, batchManifest, status, summary, input, last>>

BatchNext ==
  \/ \E r \in BatchRuns :
       \/ \E mode \in Modes, m \in Settings : StartBatch(r, mode, m)
       \/ BatchStep(r)
  \/ \E s \in Structures : EditInput(s) \/ DamageOutput(s)

BatchSpec == BatchInit /\ [][BatchNext]_batchVars

-----------------------------------------------------------------------------
\* Type correctness of the batch directory and of the runs in it.
BatchTypeOK ==
  /\ holder \in BatchRuns \cup {NoRun}
  /\ last \in BatchRuns \cup {NoRun}
  /\ artifacts \in BOOLEAN
  /\ run \in [BatchRuns -> Processes]
  /\ batchManifest \in SUBSET Settings
  /\ status \in [Structures -> Records \cup {Missing}]
  /\ outs \in [Structures -> Outputs \cup {Missing}]
  /\ input \in [Structures -> Contents]
  /\ acts \in 0..MaxActs

\* What a resumed run would reuse (_reusable_record) is what it would compute:
\* the whole outputs of the same settings from the present content of the
\* input file, whatever run was killed or overwritten at whatever point and
\* whenever inputs were edited.
ReuseIsSound ==
  \A m \in Settings, s \in Structures :
    Reusable(m, s) => outs[s] = [kind |-> "files", settings |-> m, content |-> input[s],
                                 whole |-> TRUE]

\* When the last run to own the directory has completed, batch_summary.json
\* and the status files tell the same results, all under the manifest on
\* disk: two runs never mix theirs.
SummaryAgrees ==
  holder = NoRun /\ last # NoRun /\ run[last].pc = "done" =>
    /\ summary = [kind |-> "summary", results |-> status]
    /\ \A s \in Structures : batchManifest = {status[s].manifest}
=============================================================================
