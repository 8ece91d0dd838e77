------------------------------ MODULE GpumdRun ------------------------------
(***************************************************************************)
(* Native GPUMD runs in one output directory (gpumd/process.py and         *)
(* gpumd/runner.py): the wrapper that launches the gpumd process, polls    *)
(* it, stops it on a cancellation, a timeout or an exception, and writes   *)
(* manifest.json.  gpumd runs in a session of its own: no signal to the    *)
(* wrapper reaches it, and it outlives a wrapper that is killed.  One      *)
(* wrapper at a time holds the directory lock; gpumd does not inherit it.  *)
(***************************************************************************)
EXTENDS Naturals, FiniteSets

CONSTANTS
  MaxGpumdRuns,     \* bound: runs in the directory, one after the other
  MaxStops          \* bound: interrupts of one run

ASSUME GpumdBounds == MaxGpumdRuns \in Nat /\ MaxStops \in Nat

GpumdRuns == 1..MaxGpumdRuns

VARIABLES
  wrapper,
  gpumd,            \* the gpumd process of each run
  cwd,              \* and the tree it runs in
  native,           \* the tree at native/, 0 without one
  trees,            \* runs with output in each tree; a tree keeps its name
                    \* when native/ is renamed
  verdict           \* manifest.json

gpumdVars == <<wrapper, gpumd, cwd, native, trees, verdict>>

-----------------------------------------------------------------------------
Alive == {"running", "asked", "killed"}
Exited == {"succeeded", "failed"}

\* Inside run_gpumd: in its try statement before the finally clause, and in
\* or after that clause.
Watching == {"poll", "stop", "grace", "kill", "killWait"}
Leaving == {"finally", "wait"}
GpumdOver == {"left", "dead"}

Me == wrapper.id
Mine == gpumd[Me]
WrapperAt(pc) == wrapper.pc = pc
WrapperGoto(pc) == wrapper' = [wrapper EXCEPT !.pc = pc]

GpumdInit ==
  /\ wrapper = [pc |-> "dead", id |-> 0, cancel |-> FALSE, late |-> FALSE, status |-> "exited",
                watched |-> FALSE, last |-> FALSE, stops |-> 0]
  /\ gpumd = [r \in GpumdRuns |-> "none"]
  /\ cwd = [r \in GpumdRuns |-> 0]
  /\ native = 0
  /\ trees = [r \in GpumdRuns |-> {}]
  /\ verdict = [run |-> 0, status |-> "none"]

-----------------------------------------------------------------------------
\* The first run, or one told to overwrite: every other finds run.log.
StartGpumd ==
  /\ wrapper.pc \in GpumdOver
  /\ wrapper.id < MaxGpumdRuns
  /\ wrapper' = [pc |-> "claim", id |-> wrapper.id + 1, cancel |-> FALSE, late |-> FALSE,
                 status |-> "exited", watched |-> FALSE, last |-> FALSE, stops |-> 0]
  /\ UNCHANGED <<gpumd, cwd, native, trees, verdict>>

\* Mutant: the old output is deleted instead of moved aside.
ClaimNativeDeletes ==
  /\ WrapperAt("claim")
  /\ trees' = [r \in GpumdRuns |-> IF r = native THEN {} ELSE trees[r]]
  /\ WrapperGoto("mkdir")
  /\ UNCHANGED <<gpumd, cwd, native, verdict>>

\* _claim_native_directory
ClaimNative ==
  /\ WrapperAt("claim")
  /\ native' = IF native # 0 /\ trees[native] # {} THEN 0 ELSE native
  /\ WrapperGoto("mkdir")
  /\ UNCHANGED <<gpumd, cwd, trees, verdict>>

MakeNative ==
  /\ WrapperAt("mkdir")
  /\ native' = IF native = 0 THEN Me ELSE native
  /\ WrapperGoto("inputs")
  /\ UNCHANGED <<gpumd, cwd, trees, verdict>>

\* model.xyz and run.in
WriteInputs ==
  /\ WrapperAt("inputs")
  /\ trees' = [trees EXCEPT ![native] = @ \cup {Me}]
  /\ WrapperGoto("launch")
  /\ UNCHANGED <<gpumd, cwd, native, verdict>>

\* Popen.  The child is there, and no finally clause is in force yet.
Launch ==
  /\ WrapperAt("launch")
  /\ gpumd' = [gpumd EXCEPT ![Me] = "running"]
  /\ cwd' = [cwd EXCEPT ![Me] = native]
  /\ WrapperGoto("spawned")
  /\ UNCHANGED <<native, trees, verdict>>

\* The try statement is entered: from here on a finally clause stops gpumd.
EnterWatch ==
  /\ WrapperAt("spawned")
  /\ wrapper' = [wrapper EXCEPT !.pc = "poll", !.watched = TRUE]
  /\ UNCHANGED <<gpumd, cwd, native, trees, verdict>>

-----------------------------------------------------------------------------
(* The loop of run_gpumd and _stop_process. *)

Poll ==
  /\ WrapperAt("poll")
  /\ \/ Mine \in Exited /\ WrapperGoto("finally")
     \/ /\ Mine \notin Exited /\ wrapper.cancel
        /\ wrapper' = [wrapper EXCEPT !.pc = "stop", !.status = "cancelled"]
     \/ /\ Mine \notin Exited /\ ~wrapper.cancel /\ wrapper.late
        /\ wrapper' = [wrapper EXCEPT !.pc = "stop", !.status = "timeout"]
  /\ UNCHANGED <<gpumd, cwd, native, trees, verdict>>

\* Back to where _stop_process was called.
Stopped == IF wrapper.last THEN "wait" ELSE "finally"

Ask ==
  /\ WrapperAt("stop")
  /\ gpumd' = [gpumd EXCEPT ![Me] = IF @ = "running" THEN "asked" ELSE @]
  /\ WrapperGoto("grace")
  /\ UNCHANGED <<cwd, native, trees, verdict>>

\* Mutant: SIGINT again instead of SIGKILL.
GraceAsksAgain ==
  /\ WrapperAt("grace")
  /\ WrapperGoto(IF Mine \in Exited THEN Stopped ELSE "stop")
  /\ UNCHANGED <<gpumd, cwd, native, trees, verdict>>

\* The process exits within its grace period, or does not.
Grace ==
  /\ WrapperAt("grace")
  /\ WrapperGoto(IF Mine \in Exited THEN Stopped ELSE "kill")
  /\ UNCHANGED <<gpumd, cwd, native, trees, verdict>>

Kill ==
  /\ WrapperAt("kill")
  /\ gpumd' = [gpumd EXCEPT ![Me] = IF @ \in Alive THEN "killed" ELSE @]
  /\ WrapperGoto("killWait")
  /\ UNCHANGED <<cwd, native, trees, verdict>>

KillWait ==
  /\ WrapperAt("killWait")
  /\ WrapperGoto(Stopped)
  /\ UNCHANGED <<gpumd, cwd, native, trees, verdict>>

\* Mutant: no finally clause.
FinallyNothing ==
  /\ WrapperAt("finally")
  /\ WrapperGoto(IF wrapper.status = "raised" THEN "failed" ELSE "wait")
  /\ UNCHANGED <<gpumd, cwd, native, trees, verdict>>

\* The finally clause stops a process that is still there.
Finally ==
  /\ WrapperAt("finally")
  /\ wrapper' = [wrapper EXCEPT !.last = TRUE,
                                !.pc = IF Mine \in Exited THEN "wait" ELSE "stop"]
  /\ UNCHANGED <<gpumd, cwd, native, trees, verdict>>

\* The wait at the end has no timeout; an exception goes on without it.
Wait ==
  /\ WrapperAt("wait")
  /\ IF wrapper.status = "raised" THEN WrapperGoto("failed")
     ELSE Mine \in Exited /\ WrapperGoto("judge")
  /\ UNCHANGED <<gpumd, cwd, native, trees, verdict>>

-----------------------------------------------------------------------------
\* GpumdRunner.run: a result that is not cancelled needs a return code of
\* zero and output that can be read.
Judge ==
  /\ WrapperAt("judge")
  /\ \/ wrapper.status = "cancelled" /\ WrapperGoto("cancelled")
     \/ wrapper.status = "exited" /\ Mine = "succeeded" /\ WrapperGoto("completed")
     \/ wrapper.status # "cancelled" /\ WrapperGoto("failed")
  /\ UNCHANGED <<gpumd, cwd, native, trees, verdict>>

\* manifest.json is opened, then written; either may fail, and a failure is
\* passed over.
OpenManifest ==
  /\ wrapper.pc \in {"cancelled", "completed", "failed"}
  /\ \/ /\ verdict' = [run |-> Me, status |-> "torn"]
        /\ wrapper' = [wrapper EXCEPT !.pc = "close", !.status = wrapper.pc]
     \/ verdict' = verdict /\ WrapperGoto("left")
  /\ UNCHANGED <<gpumd, cwd, native, trees>>

CloseManifest ==
  /\ WrapperAt("close")
  /\ verdict' \in {verdict, [run |-> Me, status |-> wrapper.status]}
  /\ WrapperGoto("left")
  /\ UNCHANGED <<gpumd, cwd, native, trees>>

\* In the try statement of GpumdRunner.run, outside that of run_gpumd: the
\* way to "failed" leads past no call of _stop_process.
Unprotected ==
  \/ wrapper.pc \in {"launch", "spawned", "judge", "cancelled", "completed"} \cup Leaving
  \/ wrapper.pc \in Watching /\ wrapper.last
  \/ wrapper.pc = "close" /\ wrapper.status # "failed"

\* A KeyboardInterrupt or another exception: gpumd cannot be launched, or the
\* interrupt comes after the fork, while run_gpumd watches the process or
\* leaves, or while the result is read and reported.
InterruptGpumd ==
  /\ wrapper.stops < MaxStops
  /\ \/ /\ wrapper.pc \in Watching /\ ~wrapper.last
        /\ wrapper' = [wrapper EXCEPT !.pc = "finally", !.status = "raised",
                                      !.stops = @ + 1]
     \/ /\ Unprotected
        /\ wrapper' = [wrapper EXCEPT !.pc = "failed", !.status = "raised",
                                      !.stops = @ + 1]
  /\ UNCHANGED <<gpumd, cwd, native, trees, verdict>>

\* Killed, or forced to exit by the job worker at the end of its grace; or an
\* exception outside the try statement.
WrapperDies ==
  /\ wrapper.pc \notin GpumdOver
  /\ WrapperGoto("dead")
  /\ UNCHANGED <<gpumd, cwd, native, trees, verdict>>

-----------------------------------------------------------------------------
\* The cancel event is set, and the wall-clock limit passes, at any time.
CancelGpumd ==
  /\ wrapper.pc \notin GpumdOver /\ ~wrapper.cancel
  /\ wrapper' = [wrapper EXCEPT !.cancel = TRUE]
  /\ UNCHANGED <<gpumd, cwd, native, trees, verdict>>

Expire ==
  /\ wrapper.pc \in Watching /\ ~wrapper.late
  /\ wrapper' = [wrapper EXCEPT !.late = TRUE]
  /\ UNCHANGED <<gpumd, cwd, native, trees, verdict>>

\* gpumd ends by itself, or in answer to SIGINT, which it may ignore.
GpumdExits(r) ==
  /\ gpumd[r] \in {"running", "asked"}
  /\ \E how \in Exited : gpumd' = [gpumd EXCEPT ![r] = how]
  /\ UNCHANGED <<wrapper, cwd, native, trees, verdict>>

GpumdIsKilled(r) ==
  /\ gpumd[r] = "killed"
  /\ gpumd' = [gpumd EXCEPT ![r] = "failed"]
  /\ UNCHANGED <<wrapper, cwd, native, trees, verdict>>

\* Its dumps append to files of the directory it was started in.
GpumdWrites(r) ==
  /\ gpumd[r] \in Alive
  /\ trees' = [trees EXCEPT ![cwd[r]] = @ \cup {r}]
  /\ UNCHANGED <<wrapper, gpumd, cwd, native, verdict>>

WrapperStep ==
  \/ ClaimNative \/ MakeNative \/ WriteInputs \/ Launch \/ EnterWatch
  \/ Poll \/ Ask \/ Grace \/ Kill \/ KillWait \/ Finally \/ Wait
  \/ Judge \/ OpenManifest \/ CloseManifest

GpumdNext ==
  \/ StartGpumd \/ WrapperStep \/ InterruptGpumd \/ WrapperDies \/ CancelGpumd \/ Expire
  \/ \E r \in GpumdRuns : GpumdExits(r) \/ GpumdIsKilled(r) \/ GpumdWrites(r)

\* The wrapper keeps running; SIGKILL is not ignored.
GpumdFairness ==
  /\ WF_gpumdVars(WrapperStep)
  /\ \A r \in GpumdRuns : WF_gpumdVars(GpumdIsKilled(r))

GpumdSpec == GpumdInit /\ [][GpumdNext]_gpumdVars /\ GpumdFairness

-----------------------------------------------------------------------------
\* _claim_native_directory: "Never mix two runs inside one native/ directory",
\* also when the gpumd process of a killed wrapper is still writing.
NativeIsOneRun == \A t \in GpumdRuns : Cardinality(trees[t]) <= 1

\* A verdict tells how its run ended: completed only after gpumd exited with
\* success; and once the try statement of run_gpumd is entered, a single
\* interrupt, wherever it comes, leaves no verdict while gpumd goes on (it has
\* exited or has been sent SIGKILL).  An interrupt between Popen and that
\* statement, or a second one, can: the manifest then says failed and gpumd
\* runs on unsignalled.
VerdictIsTrue ==
  verdict.run # 0 =>
    /\ verdict.status = "completed" => gpumd[verdict.run] = "succeeded"
    /\ verdict.run = Me /\ wrapper.watched /\ wrapper.stops <= 1 =>
         gpumd[Me] \in {"none", "killed"} \cup Exited

\* A run that is cancelled or timed out while it watches gpumd comes to an
\* end, also when gpumd ignores SIGINT.
StopsInTheEnd ==
  WrapperAt("poll") /\ (wrapper.cancel \/ wrapper.late) ~> wrapper.pc \in GpumdOver
=============================================================================
