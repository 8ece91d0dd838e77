---------------------------- MODULE MCWorkflows ----------------------------
(***************************************************************************)
(* Bounded instances of the workflows that own an output directory.  A     *)
(* directory is used by one of them: MD with its output thread, native     *)
(* GPUMD, batch, NEB or configuration search.                              *)
(***************************************************************************)
EXTENDS MDOutput, GpumdRun, BatchRun, NebRun, ConfSearch

VARIABLE workflow

Init == /\ workflow \in {"md", "gpumd", "batch", "neb", "confsearch"}
        /\ MDInit /\ GpumdInit /\ BatchInit /\ NebInit /\ SearchInit

InMD == UNCHANGED <<workflow, gpumdVars, batchVars, nebVars, searchVars>>
InGpumd == UNCHANGED <<workflow, vars, batchVars, nebVars, searchVars>>
InBatch == UNCHANGED <<workflow, vars, gpumdVars, nebVars, searchVars>>
InNeb == UNCHANGED <<workflow, vars, gpumdVars, batchVars, searchVars>>
InSearch == UNCHANGED <<workflow, vars, gpumdVars, batchVars, nebVars>>

Next ==
  \/ workflow = "md" /\ MDNext /\ InMD
  \/ workflow = "gpumd" /\ GpumdNext /\ InGpumd
  \/ workflow = "batch" /\ BatchNext /\ InBatch
  \/ workflow = "neb" /\ NebNext /\ InNeb
  \/ workflow = "confsearch" /\ SearchNext /\ InSearch

\* The fairness of MDOutput and of GpumdRun.
Fairness ==
  /\ WF_vars(workflow = "md" /\ MDStep /\ InMD)
  /\ WF_vars(workflow = "md" /\ WriterStep /\ InMD)
  /\ WF_gpumdVars(workflow = "gpumd" /\ WrapperStep /\ InGpumd)
  /\ \A r \in GpumdRuns : WF_gpumdVars(workflow = "gpumd" /\ GpumdIsKilled(r) /\ InGpumd)

Spec == Init /\ [][Next]_<<workflow, vars, gpumdVars, batchVars, nebVars, searchVars>> /\ Fairness

\* BothEnd of MDOutput, for the behaviours that are MD runs: the calculation
\* and its output thread come to an end.
MDBothEnd == workflow = "md" => BothEnd
=============================================================================
