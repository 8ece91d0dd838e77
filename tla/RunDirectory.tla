---------------------------- MODULE RunDirectory ----------------------------
(***************************************************************************)
(* Ownership of an output directory (run_directory.py,                     *)
(* CalculationEngine.output_directory_claim in engine.py).  A run that is  *)
(* neither told to overwrite nor resumes refuses a directory that holds    *)
(* calculation outputs; then it takes the exclusive lock.  The two are     *)
(* separate steps.  The system frees the lock of a process that ends, so   *)
(* the lock never outlives its run.                                        *)
(***************************************************************************)
CONSTANT NoRun      \* nobody

VARIABLES
  holder,           \* the run that holds .mliport-run.lock
  artifacts         \* the directory holds a name of RUN_ARTIFACT_NAMES

dirVars == <<holder, artifacts>>

Modes == {"new", "overwrite", "resume"}

DirInit == holder = NoRun /\ artifacts = FALSE

\* ensure_output_available, for what the caller asked for.
Available(mode) == mode = "new" => ~artifacts

\* Mutant: the lock is not exclusive.
TakeAlways(r) == holder' = r

\* run_directory_lock: a second run is refused, never kept waiting.
Take(r) == holder = NoRun /\ holder' = r

\* The lock of a run that ends, in whatever way.
Free(r) == holder' = IF holder = r THEN NoRun ELSE holder
=============================================================================
