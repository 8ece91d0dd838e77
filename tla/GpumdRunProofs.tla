--------------------------- MODULE GpumdRunProofs ---------------------------
(***************************************************************************)
(* Theorems about native GPUMD runs, for any number of runs and            *)
(* interrupts.                                                             *)
(***************************************************************************)
EXTENDS GpumdRun, FiniteSetTheorems, TLAPS

Reporting == {"cancelled", "completed", "failed", "close"}
WrapperPcs == {"claim", "mkdir", "inputs", "launch", "spawned", "judge"} \cup Watching \cup Leaving
              \cup Reporting \cup GpumdOver
Settled == {"none", "killed"} \cup Exited

Wrappers == [pc : WrapperPcs, id : 0..MaxGpumdRuns, cancel : BOOLEAN, late : BOOLEAN,
             status : {"exited", "cancelled", "timeout", "raised", "completed", "failed"},
             watched : BOOLEAN, last : BOOLEAN, stops : Nat]

GpumdTypeOK ==
  /\ wrapper \in Wrappers
  /\ wrapper.pc # "dead" => Me \in GpumdRuns
  /\ gpumd \in [GpumdRuns -> {"none"} \cup Alive \cup Exited]
  /\ cwd \in [GpumdRuns -> 0..MaxGpumdRuns]
  /\ native \in 0..MaxGpumdRuns
  /\ trees \in [GpumdRuns -> SUBSET GpumdRuns]

-----------------------------------------------------------------------------
\* Nothing is there of runs to come.
NothingAhead ==
  /\ native <= Me
  /\ \A r \in GpumdRuns : r > Me => gpumd[r] = "none" /\ trees[r] = {}
  /\ wrapper.pc \in {"claim", "mkdir", "inputs", "launch"} => gpumd[Me] = "none"
  /\ wrapper.pc \in {"claim", "mkdir"} => trees[Me] = {} /\ native # Me

\* The tree a run will write to is free until its inputs are there.
NativeIsMine ==
  /\ wrapper.pc = "mkdir" /\ native # 0 => trees[native] = {}
  /\ wrapper.pc = "inputs" => native # 0 /\ trees[native] = {}
  /\ wrapper.pc = "launch" => native # 0 /\ Me \in trees[native]

\* gpumd writes to a tree that already holds the inputs of its run.
WritesAtHome ==
  \A r \in GpumdRuns : gpumd[r] # "none" => cwd[r] \in GpumdRuns /\ r \in trees[cwd[r]]

OneRun == \A t \in GpumdRuns : \A a, b \in trees[t] : a = b

TreeInv == GpumdTypeOK /\ NothingAhead /\ NativeIsMine /\ WritesAtHome /\ OneRun

-----------------------------------------------------------------------------
Prepares == {"claim", "mkdir", "inputs", "launch"}

\* What is known of gpumd where the wrapper is.
WatchIsTrue ==
  /\ wrapper.pc \in Prepares \cup {"spawned", "poll"} => ~wrapper.last
  /\ wrapper.pc \in Prepares \cup {"spawned"} => ~wrapper.watched
  /\ wrapper.pc \in {"killWait", "wait"} => Mine \in Settled
  /\ wrapper.pc = "finally" /\ wrapper.stops = 0 => Mine \in Settled
  /\ wrapper.pc \in Watching /\ wrapper.last /\ wrapper.stops = 0 => Mine \in Settled
  /\ wrapper.pc \in {"judge", "cancelled", "completed"} => Mine \in Exited
  /\ wrapper.pc \in Reporting /\ wrapper.watched /\ wrapper.stops <= 1 => Mine \in Settled
  /\ wrapper.pc = "completed" => Mine = "succeeded"
  /\ wrapper.pc = "close" /\ wrapper.status = "completed" => Mine = "succeeded"

VerdictIsOld ==
  /\ verdict.run \in 0..Me
  /\ verdict.run = Me /\ Me # 0 => wrapper.pc \in {"close", "failed"} \cup GpumdOver

-----------------------------------------------------------------------------
\* Runs are positive numbers; 0 is none.
LEMMA RunsAre == GpumdRuns \subseteq Nat \ {0} /\ GpumdRuns \subseteq 0..MaxGpumdRuns
BY GpumdBounds DEF GpumdRuns

\* What a step of the wrapper does to its record.
LEMMA WrapperGotoIs ==
  ASSUME wrapper \in Wrappers, NEW pc \in WrapperPcs, WrapperGoto(pc)
  PROVE  /\ wrapper' \in Wrappers /\ wrapper'.pc = pc /\ wrapper'.id = wrapper.id
         /\ wrapper'.status = wrapper.status /\ wrapper'.last = wrapper.last
         /\ wrapper'.watched = wrapper.watched /\ wrapper'.stops = wrapper.stops
BY DEF WrapperGoto, Wrappers

\* Every step but a start keeps the run, and all but EnterWatch keep watched;
\* what else a step may do to the record.
Turns(pc, status, last, stops) ==
  /\ wrapper' \in Wrappers /\ wrapper'.id = wrapper.id /\ wrapper'.pc = pc
  /\ wrapper'.status = status /\ wrapper'.last = last /\ wrapper'.stops = stops
  /\ wrapper'.watched = wrapper.watched

\* One turn of the polling loop: the child has ended, or it is to be stopped.
LEMMA PollIs ==
  ASSUME wrapper \in Wrappers, Poll
  PROVE  \/ Turns("finally", wrapper.status, wrapper.last, wrapper.stops) /\ Mine \in Exited
         \/ \E status \in {"cancelled", "timeout"} :
              Turns("stop", status, wrapper.last, wrapper.stops)
<1>1. CASE Mine \in Exited /\ WrapperGoto("finally")
  BY <1>1, WrapperGotoIs DEF Turns, WrapperPcs, Leaving
<1>2. ASSUME NEW status \in {"cancelled", "timeout"},
             wrapper' = [wrapper EXCEPT !.pc = "stop", !.status = status]
      PROVE  Turns("stop", status, wrapper.last, wrapper.stops)
  BY <1>2 DEF Turns, Wrappers, WrapperPcs, Watching
<1> QED BY <1>1, <1>2 DEF Poll

\* The finally block waits for an ended child and stops a living one.
LEMMA FinallyIs ==
  ASSUME wrapper \in Wrappers, Finally
  PROVE  Turns(IF Mine \in Exited THEN "wait" ELSE "stop", wrapper.status, TRUE, wrapper.stops)
<1> DEFINE pc == IF Mine \in Exited THEN "wait" ELSE "stop"
<1>1. pc \in WrapperPcs
  BY DEF WrapperPcs, Leaving, Watching
<1>2. wrapper' = [wrapper EXCEPT !.last = TRUE, !.pc = pc]
  BY DEF Finally
<1> HIDE DEF pc
<1>3. Turns(pc, wrapper.status, TRUE, wrapper.stops)
  BY <1>1, <1>2 DEF Turns, Wrappers
<1> QED BY <1>3 DEF pc

\* Where a KeyboardInterrupt leads.
LEMMA InterruptIs ==
  ASSUME wrapper \in Wrappers, InterruptGpumd
  PROVE  \/ Turns("finally", "raised", wrapper.last, wrapper.stops + 1)
            /\ wrapper.pc \in Watching
         \/ Turns("failed", "raised", wrapper.last, wrapper.stops + 1)
            /\ Unprotected
<1>1. wrapper.stops + 1 \in Nat
  BY DEF Wrappers
<1>2. ASSUME NEW pc \in {"finally", "failed"},
             wrapper' = [wrapper EXCEPT !.pc = pc, !.status = "raised", !.stops = @ + 1]
      PROVE  Turns(pc, "raised", wrapper.last, wrapper.stops + 1)
  BY <1>1, <1>2 DEF Turns, Wrappers, WrapperPcs, Leaving, Reporting
<1> QED BY <1>2 DEF InterruptGpumd

\* The final manifest is opened on the way out, or given up.
LEMMA OpenIs ==
  ASSUME wrapper \in Wrappers, OpenManifest
  PROVE  \/ /\ Turns("close", wrapper.pc, wrapper.last, wrapper.stops)
            /\ verdict' = [run |-> Me, status |-> "torn"]
         \/ /\ Turns("left", wrapper.status, wrapper.last, wrapper.stops)
            /\ UNCHANGED verdict
<1>1. wrapper.pc \in {"exited", "cancelled", "timeout", "raised", "completed", "failed"}
  BY DEF OpenManifest
<1>2. CASE /\ verdict' = [run |-> Me, status |-> "torn"]
           /\ wrapper' = [wrapper EXCEPT !.pc = "close", !.status = wrapper.pc]
  BY <1>1, <1>2 DEF Turns, Wrappers, WrapperPcs, Reporting
<1>3. CASE verdict' = verdict /\ WrapperGoto("left")
  <2>1. "left" \in WrapperPcs
    BY DEF WrapperPcs, GpumdOver
  <2> QED BY <1>3, <2>1, WrapperGotoIs DEF Turns
<1> QED BY <1>2, <1>3 DEF OpenManifest

\* The try statement of run_gpumd is entered.
LEMMA EnterIs ==
  ASSUME wrapper \in Wrappers, EnterWatch
  PROVE  /\ wrapper' \in Wrappers /\ wrapper'.pc = "poll" /\ wrapper'.id = wrapper.id
         /\ wrapper'.last = wrapper.last /\ wrapper.pc = "spawned"
BY DEF EnterWatch, WrapperAt, Wrappers, WrapperPcs, Watching

\* A cancellation or a deadline changes nothing but what the next poll sees.
LEMMA SignalIs ==
  ASSUME wrapper \in Wrappers, CancelGpumd \/ Expire
  PROVE  Turns(wrapper.pc, wrapper.status, wrapper.last, wrapper.stops)
BY DEF CancelGpumd, Expire, Turns, Wrappers

\* A new run takes the next number.
LEMMA StartIs ==
  ASSUME wrapper \in Wrappers, StartGpumd
  PROVE  /\ wrapper' \in Wrappers /\ wrapper'.pc = "claim" /\ wrapper'.id = wrapper.id + 1
         /\ wrapper.id + 1 \in GpumdRuns /\ ~wrapper'.last /\ ~wrapper'.watched
<1>1. wrapper.id + 1 \in GpumdRuns /\ wrapper.id + 1 \in 0..MaxGpumdRuns
  BY GpumdBounds DEF StartGpumd, Wrappers, GpumdRuns
<1> QED BY <1>1 DEF StartGpumd, Wrappers, WrapperPcs

\* A step that only moves on.
LEMMA GotoTurns ==
  ASSUME wrapper \in Wrappers, NEW pc \in WrapperPcs, WrapperGoto(pc)
  PROVE  Turns(pc, wrapper.status, wrapper.last, wrapper.stops)
BY WrapperGotoIs DEF Turns

\* The places a wrapper goes to when it waits, leaves or reports.
LEMMA PlacesAre ==
  /\ Watching \cup Leaving \cup Reporting \cup GpumdOver \cup {"judge"} \subseteq WrapperPcs
  /\ {"mkdir", "inputs", "launch", "spawned"} \subseteq WrapperPcs
BY DEF WrapperPcs

-----------------------------------------------------------------------------
(* Trees.                                                                  *)

\* A step that prepares nothing, launches nothing and touches no tree.
LEMMA TreesStay ==
  ASSUME TreeInv, wrapper' \in Wrappers, wrapper'.id = wrapper.id,
         wrapper'.pc = wrapper.pc \/ wrapper'.pc \notin Prepares,
         wrapper.pc = "dead" => wrapper'.pc = "dead",
         gpumd' \in [GpumdRuns -> {"none"} \cup Alive \cup Exited],
         \A r \in GpumdRuns : gpumd'[r] = "none" <=> gpumd[r] = "none",
         UNCHANGED <<cwd, native, trees>>
  PROVE  TreeInv'
<1>1. GpumdTypeOK'
  BY DEF TreeInv, GpumdTypeOK, Me
<1>2. NothingAhead'
  <2>1. wrapper.pc # "dead" => Me \in GpumdRuns
    BY DEF TreeInv, GpumdTypeOK
  <2> QED BY <2>1 DEF TreeInv, NothingAhead, Me, Prepares
<1>3. NativeIsMine'
  BY DEF TreeInv, NativeIsMine, Me, Prepares
<1>4. WritesAtHome' /\ OneRun'
  BY DEF TreeInv, WritesAtHome, OneRun
<1> QED BY <1>1, <1>2, <1>3, <1>4 DEF TreeInv

\* A new run finds the tree of an older one.
LEMMA StartTree ==
  ASSUME TreeInv, StartGpumd
  PROVE  TreeInv'
<1>1. wrapper \in Wrappers /\ wrapper.id \in Nat /\ native \in Nat
  BY GpumdBounds DEF TreeInv, GpumdTypeOK, Wrappers
<1>2. /\ wrapper' \in Wrappers /\ wrapper'.pc = "claim" /\ Me' = Me + 1 /\ Me + 1 \in GpumdRuns
      /\ UNCHANGED <<gpumd, cwd, native, trees>>
  BY <1>1, StartIs DEF Me, StartGpumd
<1>3. GpumdTypeOK'
  BY <1>2 DEF TreeInv, GpumdTypeOK
<1>4. Me < Me + 1 /\ native < Me + 1 /\ \A r \in GpumdRuns : r > Me + 1 => r > Me
  BY <1>1, RunsAre DEF TreeInv, NothingAhead, Me
<1>5. NothingAhead'
  BY <1>1, <1>2, <1>4 DEF TreeInv, NothingAhead, Me
<1>6. NativeIsMine'
  BY <1>2 DEF NativeIsMine
<1>7. WritesAtHome' /\ OneRun'
  BY <1>2 DEF TreeInv, WritesAtHome, OneRun
<1> QED BY <1>3, <1>5, <1>6, <1>7 DEF TreeInv

\* The claim of the tree.
LEMMA ClaimTree ==
  ASSUME TreeInv, ClaimNative
  PROVE  TreeInv'
<1>1. /\ wrapper' \in Wrappers /\ wrapper'.pc = "mkdir" /\ Me' = Me /\ wrapper.pc = "claim"
      /\ UNCHANGED <<gpumd, cwd, trees>>
      /\ native' = IF native # 0 /\ trees[native] # {} THEN 0 ELSE native
  BY WrapperGotoIs, PlacesAre DEF TreeInv, GpumdTypeOK, ClaimNative, WrapperAt, Me
<1>2. Me \in GpumdRuns /\ native \in 0..MaxGpumdRuns /\ native <= Me /\ native # Me
  BY <1>1 DEF TreeInv, GpumdTypeOK, NothingAhead
<1>3. native' \in 0..MaxGpumdRuns /\ native' <= Me /\ native' # Me
  <2>1. native' \in {0, native}
    BY <1>1
  <2>2. 0 \in 0..MaxGpumdRuns /\ 0 <= Me /\ 0 # Me
    BY <1>2, RunsAre, GpumdBounds
  <2> QED BY <1>2, <2>1, <2>2
<1>4. GpumdTypeOK'
  BY <1>1, <1>2, <1>3 DEF TreeInv, GpumdTypeOK
<1>5. NothingAhead'
  BY <1>1, <1>3 DEF TreeInv, NothingAhead
<1>6. NativeIsMine'
  BY <1>1 DEF NativeIsMine
<1>7. WritesAtHome' /\ OneRun'
  BY <1>1 DEF TreeInv, WritesAtHome, OneRun
<1> QED BY <1>4, <1>5, <1>6, <1>7 DEF TreeInv

\* The new tree belongs to this run.
LEMMA MakeTree ==
  ASSUME TreeInv, MakeNative
  PROVE  TreeInv'
<1>1. /\ wrapper' \in Wrappers /\ wrapper'.pc = "inputs" /\ Me' = Me /\ wrapper.pc = "mkdir"
      /\ UNCHANGED <<gpumd, cwd, trees>>
      /\ native' = IF native = 0 THEN Me ELSE native
  BY WrapperGotoIs, PlacesAre DEF TreeInv, GpumdTypeOK, MakeNative, WrapperAt, Me
<1>2. Me \in GpumdRuns /\ Me \in Nat \ {0} /\ native \in 0..MaxGpumdRuns /\ native <= Me
  BY <1>1, RunsAre DEF TreeInv, GpumdTypeOK, NothingAhead
<1>3. native' \in 0..MaxGpumdRuns /\ native' <= Me /\ native' # 0 /\ trees[native'] = {}
  BY <1>1, <1>2, RunsAre DEF TreeInv, NothingAhead, NativeIsMine
<1>4. GpumdTypeOK'
  BY <1>1, <1>2, <1>3 DEF TreeInv, GpumdTypeOK
<1>5. NothingAhead'
  BY <1>1, <1>3 DEF TreeInv, NothingAhead
<1>6. NativeIsMine'
  BY <1>1, <1>3 DEF NativeIsMine
<1>7. WritesAtHome' /\ OneRun'
  BY <1>1 DEF TreeInv, WritesAtHome, OneRun
<1> QED BY <1>4, <1>5, <1>6, <1>7 DEF TreeInv

\* The inputs are written in the own tree.
LEMMA InputsTree ==
  ASSUME TreeInv, WriteInputs
  PROVE  TreeInv'
<1>1. /\ wrapper' \in Wrappers /\ wrapper'.pc = "launch" /\ Me' = Me /\ wrapper.pc = "inputs"
      /\ UNCHANGED <<gpumd, cwd, native>>
      /\ trees' = [trees EXCEPT ![native] = @ \cup {Me}]
  BY WrapperGotoIs, PlacesAre DEF TreeInv, GpumdTypeOK, WriteInputs, WrapperAt, Me
<1>2. /\ Me \in GpumdRuns /\ native \in GpumdRuns /\ native <= Me /\ trees[native] = {}
      /\ trees \in [GpumdRuns -> SUBSET GpumdRuns]
  BY <1>1 DEF TreeInv, GpumdTypeOK, NothingAhead, NativeIsMine, GpumdRuns
<1>3. /\ trees' \in [GpumdRuns -> SUBSET GpumdRuns] /\ trees'[native] = {Me}
      /\ \A t \in GpumdRuns \ {native} : trees'[t] = trees[t]
  BY <1>1, <1>2
<1>4. GpumdTypeOK'
  BY <1>1, <1>3 DEF TreeInv, GpumdTypeOK
<1>5. NothingAhead'
  BY <1>1, <1>2, <1>3, RunsAre DEF TreeInv, NothingAhead
<1>6. NativeIsMine'
  BY <1>1, <1>2, <1>3, RunsAre DEF NativeIsMine
<1>7. WritesAtHome'
  BY <1>1, <1>2, <1>3 DEF TreeInv, WritesAtHome
<1>8. OneRun'
  BY <1>3 DEF TreeInv, OneRun
<1> QED BY <1>4, <1>5, <1>6, <1>7, <1>8 DEF TreeInv

\* The child is started in the own tree.
LEMMA LaunchTree ==
  ASSUME TreeInv, Launch
  PROVE  TreeInv'
<1>1. /\ wrapper' \in Wrappers /\ wrapper'.pc = "spawned" /\ Me' = Me /\ wrapper.pc = "launch"
      /\ UNCHANGED <<native, trees>>
      /\ gpumd' = [gpumd EXCEPT ![Me] = "running"] /\ cwd' = [cwd EXCEPT ![Me] = native]
  BY WrapperGotoIs, PlacesAre DEF TreeInv, GpumdTypeOK, Launch, WrapperAt, Me
<1>2. Me \in GpumdRuns /\ native \in GpumdRuns /\ Me \in trees[native]
  BY <1>1 DEF TreeInv, GpumdTypeOK, NativeIsMine, GpumdRuns
<1>3. /\ gpumd' \in [GpumdRuns -> {"none"} \cup Alive \cup Exited]
      /\ cwd' \in [GpumdRuns -> 0..MaxGpumdRuns]
      /\ \A r \in GpumdRuns \ {Me} : gpumd'[r] = gpumd[r] /\ cwd'[r] = cwd[r]
      /\ cwd'[Me] = native
  BY <1>1, <1>2, RunsAre DEF TreeInv, GpumdTypeOK, Alive
<1>4. GpumdTypeOK'
  BY <1>1, <1>2, <1>3 DEF TreeInv, GpumdTypeOK
<1>5. NothingAhead'
  BY <1>1, <1>2, <1>3, RunsAre DEF TreeInv, NothingAhead
<1>6. NativeIsMine'
  BY <1>1 DEF NativeIsMine
<1>7. WritesAtHome'
  BY <1>1, <1>2, <1>3 DEF TreeInv, WritesAtHome
<1>8. OneRun'
  BY <1>1 DEF TreeInv, OneRun
<1> QED BY <1>4, <1>5, <1>6, <1>7, <1>8 DEF TreeInv

\* Its dumps change nothing: the tree holds the inputs of the run already.
LEMMA WritesTree ==
  ASSUME TreeInv, NEW r \in GpumdRuns, GpumdWrites(r)
  PROVE  TreeInv' /\ UNCHANGED gpumdVars
<1>1. cwd[r] \in GpumdRuns /\ r \in trees[cwd[r]]
  BY DEF TreeInv, WritesAtHome, GpumdWrites, Alive
<1>2. trees' = trees
  BY <1>1 DEF GpumdWrites, TreeInv, GpumdTypeOK
<1>3. UNCHANGED gpumdVars
  BY <1>2 DEF GpumdWrites, gpumdVars
<1> QED BY <1>3 DEF TreeInv, GpumdTypeOK, NothingAhead, NativeIsMine, WritesAtHome, OneRun, Me,
                    gpumdVars

-----------------------------------------------------------------------------
(* Verdicts.                                                               *)

GpumdInv == TreeInv /\ WatchIsTrue /\ VerdictIsOld /\ VerdictIsTrue

\* What the invariant says of the current run.
LEMMA InvFacts ==
  ASSUME GpumdInv
  PROVE  /\ wrapper \in Wrappers /\ Me = wrapper.id /\ Me \in Nat
         /\ wrapper.stops \in Nat /\ wrapper.last \in BOOLEAN
         /\ gpumd \in [GpumdRuns -> {"none"} \cup Alive \cup Exited]
         /\ wrapper.pc # "dead" => Me \in GpumdRuns /\ Me # 0
         /\ verdict.run \in Nat /\ verdict.run <= Me
         /\ verdict.run # 0 => verdict.run \in GpumdRuns
<1>1. wrapper \in Wrappers /\ gpumd \in [GpumdRuns -> {"none"} \cup Alive \cup Exited]
  BY DEF GpumdInv, TreeInv, GpumdTypeOK
<1>2. /\ wrapper.id \in 0..MaxGpumdRuns /\ wrapper.stops \in Nat /\ wrapper.last \in BOOLEAN
      /\ Me = wrapper.id
  BY <1>1 DEF Wrappers, Me
<1>3. wrapper.pc # "dead" => Me \in GpumdRuns /\ Me # 0
  BY RunsAre DEF GpumdInv, TreeInv, GpumdTypeOK
<1>4. /\ verdict.run \in Nat /\ verdict.run <= Me
      /\ verdict.run # 0 => verdict.run \in GpumdRuns
  BY <1>2, GpumdBounds DEF GpumdInv, VerdictIsOld, GpumdRuns
<1> QED BY <1>1, <1>2, <1>3, <1>4, GpumdBounds

\* A step before the report, of a wrapper whose run has no verdict yet.
LEMMA NoVerdictYet ==
  ASSUME GpumdInv, wrapper.pc \notin {"close", "failed"} \cup GpumdOver, wrapper'.id = wrapper.id,
         \A r \in GpumdRuns \ {Me} : gpumd'[r] = gpumd[r], UNCHANGED verdict
  PROVE  VerdictIsOld' /\ VerdictIsTrue'
<1>1. Me' = Me /\ Me # 0 /\ verdict.run # Me
  BY InvFacts DEF Me, GpumdInv, VerdictIsOld, GpumdOver
<1>2. VerdictIsOld'
  BY <1>1 DEF GpumdInv, VerdictIsOld
<1>3. verdict.run # 0 => gpumd'[verdict.run] = gpumd[verdict.run]
  BY <1>1, InvFacts
<1> QED BY <1>1, <1>2, <1>3 DEF GpumdInv, VerdictIsTrue

\* The wrapper prepares the run.
LEMMA PrepareIsTrue ==
  ASSUME GpumdInv, StartGpumd \/ ClaimNative \/ MakeNative \/ WriteInputs \/ Launch \/ EnterWatch
  PROVE  WatchIsTrue' /\ VerdictIsOld' /\ VerdictIsTrue'
<1>1. CASE StartGpumd
  <2>1. /\ wrapper'.pc = "claim" /\ Me' = Me + 1 /\ ~wrapper'.last /\ ~wrapper'.watched
        /\ UNCHANGED <<gpumd, verdict>>
    BY <1>1, InvFacts, StartIs DEF StartGpumd, Me
  <2>2. WatchIsTrue'
    BY <2>1 DEF WatchIsTrue, Watching, Reporting
  <2>3. VerdictIsOld'
    BY <2>1, InvFacts DEF VerdictIsOld
  <2>4. verdict.run # Me'
    BY <2>1, InvFacts
  <2>5. VerdictIsTrue'
    BY <2>1, <2>4 DEF GpumdInv, VerdictIsTrue
  <2> QED BY <2>2, <2>3, <2>5
<1>2. ASSUME NEW pc \in {"mkdir", "inputs", "launch"}, WrapperGoto(pc), wrapper.pc \in Prepares,
             UNCHANGED <<gpumd, verdict>>
      PROVE  WatchIsTrue' /\ VerdictIsOld' /\ VerdictIsTrue'
  <2>1. /\ wrapper'.pc = pc /\ wrapper'.id = wrapper.id
        /\ wrapper'.last = wrapper.last /\ wrapper'.watched = wrapper.watched
    BY <1>2, InvFacts, WrapperGotoIs, PlacesAre
  <2>2. WatchIsTrue'
    BY <1>2, <2>1 DEF GpumdInv, WatchIsTrue, Watching, Reporting, Prepares
  <2> QED BY <1>2, <2>1, <2>2, NoVerdictYet DEF Prepares, GpumdOver
<1>3. CASE Launch
  <2>1. /\ wrapper'.pc = "spawned" /\ wrapper'.id = wrapper.id /\ wrapper'.last = wrapper.last
        /\ wrapper'.watched = wrapper.watched /\ wrapper.pc = "launch" /\ UNCHANGED verdict
        /\ gpumd' = [gpumd EXCEPT ![Me] = "running"]
    BY <1>3, InvFacts, WrapperGotoIs, PlacesAre DEF Launch, WrapperAt
  <2>2. WatchIsTrue'
    BY <2>1 DEF GpumdInv, WatchIsTrue, Watching, Reporting, Prepares
  <2>3. \A r \in GpumdRuns \ {Me} : gpumd'[r] = gpumd[r]
    BY <2>1, InvFacts
  <2> QED BY <2>1, <2>2, <2>3, NoVerdictYet DEF GpumdOver
<1>4. CASE EnterWatch
  <2>1. /\ wrapper'.pc = "poll" /\ wrapper'.id = wrapper.id /\ wrapper'.last = wrapper.last
        /\ wrapper.pc = "spawned" /\ UNCHANGED <<gpumd, verdict>>
    BY <1>4, InvFacts, EnterIs DEF EnterWatch
  <2>2. WatchIsTrue'
    BY <2>1 DEF GpumdInv, WatchIsTrue, Watching, Reporting, Prepares
  <2> QED BY <2>1, <2>2, NoVerdictYet DEF GpumdOver
<1> QED BY <1>1, <1>2, <1>3, <1>4 DEF ClaimNative, MakeNative, WriteInputs, WrapperAt, Prepares

\* The wrapper watches gpumd, stops it, and leaves.
LEMMA WatchStaysTrue ==
  ASSUME GpumdInv,
         \/ Poll \/ Ask \/ Grace \/ Kill \/ KillWait \/ Finally \/ Wait \/ Judge
         \/ InterruptGpumd /\ wrapper.pc # "close"
  PROVE  WatchIsTrue' /\ VerdictIsOld' /\ VerdictIsTrue'
<1> USE DEF WrapperAt
<1>1. /\ wrapper \in Wrappers /\ Me = wrapper.id /\ wrapper.stops \in Nat /\ wrapper.last \in BOOLEAN
      /\ gpumd \in [GpumdRuns -> {"none"} \cup Alive \cup Exited]
  BY InvFacts
<1>2. wrapper.pc \notin {"close", "failed"} \cup GpumdOver
  BY DEF Poll, Ask, Grace, Kill, KillWait, Finally, Wait, Judge, InterruptGpumd, Unprotected,
         GpumdOver, Watching, Leaving
<1>3. Me \in GpumdRuns
  BY <1>2, InvFacts DEF GpumdOver
<1>4. /\ UNCHANGED verdict /\ \A r \in GpumdRuns \ {Me} : gpumd'[r] = gpumd[r]
  BY <1>1, <1>3 DEF Poll, Ask, Grace, Kill, KillWait, Finally, Wait, Judge, InterruptGpumd
\* Where the wrapper is after the step, and what it then knows.
<1>5. ASSUME NEW pc, NEW status, NEW last, NEW stops, Turns(pc, status, last, stops),
             pc \notin Prepares \cup {"spawned"}, pc = "poll" => ~last,
             pc \in {"killWait", "wait"} => gpumd'[Me] \in Settled,
             pc = "finally" /\ stops = 0 => gpumd'[Me] \in Settled,
             pc \in Watching /\ last /\ stops = 0 => gpumd'[Me] \in Settled,
             pc \in {"judge", "cancelled", "completed"} => gpumd'[Me] \in Exited,
             pc \in Reporting /\ wrapper.watched /\ stops <= 1 => gpumd'[Me] \in Settled,
             pc = "completed" => gpumd'[Me] = "succeeded",
             pc # "close"
      PROVE  WatchIsTrue' /\ VerdictIsOld' /\ VerdictIsTrue'
  <2>1. Me' = Me /\ wrapper'.id = wrapper.id
    BY <1>5 DEF Turns, Me
  <2>2. WatchIsTrue'
    BY <1>5, <2>1 DEF Turns, WatchIsTrue, Mine
  <2> QED BY <1>2, <1>4, <2>1, <2>2, NoVerdictYet
<1>6. Exited \subseteq Settled
  BY DEF Settled
<1>7. CASE Poll
  <2>1. UNCHANGED gpumd /\ ~wrapper.last
    BY <1>7 DEF Poll, GpumdInv, WatchIsTrue
  <2>2. CASE Turns("finally", wrapper.status, wrapper.last, wrapper.stops) /\ Mine \in Exited
    BY <1>5, <1>6, <2>1, <2>2 DEF Mine, Watching, Reporting, Prepares
  <2>3. ASSUME NEW status, Turns("stop", status, wrapper.last, wrapper.stops)
        PROVE  WatchIsTrue' /\ VerdictIsOld' /\ VerdictIsTrue'
    BY <1>5, <2>1, <2>3 DEF Reporting, Prepares
  <2> QED BY <1>1, <1>7, <2>2, <2>3, PollIs
<1>8. CASE Ask
  <2>1. /\ Turns("grace", wrapper.status, wrapper.last, wrapper.stops) /\ wrapper.pc = "stop"
        /\ gpumd'[Me] = IF Mine = "running" THEN "asked" ELSE Mine
    BY <1>1, <1>3, <1>8, GotoTurns, PlacesAre DEF Ask, Watching, Mine
  <2>2. wrapper.last /\ wrapper.stops = 0 => gpumd'[Me] \in Settled
    BY <2>1 DEF GpumdInv, WatchIsTrue, Watching, Settled, Exited
  <2> QED BY <1>5, <2>1, <2>2 DEF Reporting, Prepares
<1>9. CASE Grace
  <2>1. /\ UNCHANGED gpumd /\ wrapper.pc = "grace"
        /\ WrapperGoto(IF Mine \in Exited THEN Stopped ELSE "kill")
    BY <1>9 DEF Grace
  <2>2. CASE Mine \in Exited
    <3>1. Turns(Stopped, wrapper.status, wrapper.last, wrapper.stops)
      BY <1>1, <2>1, <2>2, GotoTurns, PlacesAre DEF Stopped, Leaving
    <3>2. Stopped \in {"wait", "finally"}
      BY DEF Stopped
    <3> QED BY <1>5, <1>6, <2>1, <2>2, <3>1, <3>2 DEF Mine, Watching, Reporting, Prepares
  <2>3. CASE Mine \notin Exited
    <3>1. Turns("kill", wrapper.status, wrapper.last, wrapper.stops)
      BY <1>1, <2>1, <2>3, GotoTurns, PlacesAre DEF Watching
    <3>2. wrapper.last /\ wrapper.stops = 0 => Mine \in Settled
      BY <2>1 DEF GpumdInv, WatchIsTrue, Watching
    <3> QED BY <1>5, <2>1, <3>1, <3>2 DEF Mine, Reporting, Prepares
  <2> QED BY <2>2, <2>3
<1>10. CASE Kill
  <2>1. /\ Turns("killWait", wrapper.status, wrapper.last, wrapper.stops)
        /\ gpumd'[Me] = IF Mine \in Alive THEN "killed" ELSE Mine
    BY <1>1, <1>3, <1>10, GotoTurns, PlacesAre DEF Kill, Watching, Mine
  <2>2. gpumd'[Me] \in Settled
    BY <1>1, <1>3, <2>1 DEF Settled, Mine
  <2> QED BY <1>5, <2>1, <2>2 DEF Reporting, Prepares
<1>11. CASE KillWait
  <2>1. /\ UNCHANGED gpumd /\ Mine \in Settled
        /\ Turns(Stopped, wrapper.status, wrapper.last, wrapper.stops)
    BY <1>1, <1>11, GotoTurns, PlacesAre DEF KillWait, Stopped, Leaving, GpumdInv, WatchIsTrue
  <2>2. Stopped \in {"wait", "finally"}
    BY DEF Stopped
  <2> QED BY <1>5, <2>1, <2>2 DEF Mine, Watching, Reporting, Prepares
<1>12. CASE Finally
  <2>1. /\ UNCHANGED gpumd /\ (wrapper.stops = 0 => Mine \in Settled)
        /\ Turns(IF Mine \in Exited THEN "wait" ELSE "stop", wrapper.status, TRUE, wrapper.stops)
    BY <1>1, <1>12, FinallyIs DEF Finally, GpumdInv, WatchIsTrue
  <2>2. CASE Mine \in Exited
    <3>1. Turns("wait", wrapper.status, wrapper'.last, wrapper.stops)
      BY <2>1, <2>2 DEF Turns
    <3> QED BY <1>5, <1>6, <2>1, <2>2, <3>1 DEF Mine, Watching, Reporting, Prepares
  <2>3. CASE Mine \notin Exited
    <3>1. Turns("stop", wrapper.status, wrapper'.last, wrapper.stops)
      BY <2>1, <2>3 DEF Turns
    <3> QED BY <1>5, <2>1, <3>1 DEF Mine, Reporting, Prepares
  <2> QED BY <2>2, <2>3
<1>13. CASE Wait
  <2>1. UNCHANGED gpumd /\ Mine \in Settled
    BY <1>13 DEF Wait, GpumdInv, WatchIsTrue
  <2>2. CASE WrapperGoto("failed")
    <3>1. Turns("failed", wrapper.status, wrapper.last, wrapper.stops)
      BY <1>1, <2>2, GotoTurns, PlacesAre DEF Reporting
    <3> QED BY <1>5, <2>1, <3>1 DEF Mine, Watching, Prepares
  <2>3. CASE Mine \in Exited /\ WrapperGoto("judge")
    <3>1. Turns("judge", wrapper.status, wrapper.last, wrapper.stops)
      BY <1>1, <2>3, GotoTurns, PlacesAre
    <3> QED BY <1>5, <2>1, <2>3, <3>1 DEF Mine, Watching, Reporting, Prepares
  <2> QED BY <1>13, <2>2, <2>3 DEF Wait
<1>14. CASE Judge
  <2>1. UNCHANGED gpumd /\ Mine \in Exited
    BY <1>14 DEF Judge, GpumdInv, WatchIsTrue
  <2>2. ASSUME NEW pc \in {"cancelled", "completed", "failed"}, WrapperGoto(pc),
               pc = "completed" => Mine = "succeeded"
        PROVE  WatchIsTrue' /\ VerdictIsOld' /\ VerdictIsTrue'
    <3>1. Turns(pc, wrapper.status, wrapper.last, wrapper.stops)
      BY <1>1, <2>2, GotoTurns, PlacesAre DEF Reporting
    <3> QED BY <1>5, <1>6, <2>1, <2>2, <3>1 DEF Mine, Watching, Prepares
  <2> QED BY <1>14, <2>2 DEF Judge
<1>15. CASE InterruptGpumd /\ wrapper.pc # "close"
  <2>1. UNCHANGED gpumd
    BY <1>15 DEF InterruptGpumd
  <2>2. CASE Turns("finally", "raised", wrapper.last, wrapper.stops + 1)
    BY <1>1, <1>5, <2>2 DEF Watching, Reporting, Prepares
  <2>3. CASE Turns("failed", "raised", wrapper.last, wrapper.stops + 1) /\ Unprotected
    <3>1. wrapper.watched /\ wrapper.stops + 1 <= 1 => Mine \in Settled
      <4> SUFFICES ASSUME wrapper.watched, wrapper.stops = 0 PROVE Mine \in Settled
        BY <1>1
      <4>1. wrapper.pc \notin {"launch", "spawned"}
        BY DEF GpumdInv, WatchIsTrue, Prepares
      <4>2. CASE wrapper.pc \in Leaving
        BY <4>2 DEF GpumdInv, WatchIsTrue, Leaving
      <4>3. CASE wrapper.pc \in Watching /\ wrapper.last
        BY <4>3 DEF GpumdInv, WatchIsTrue
      <4>4. CASE wrapper.pc \in {"judge", "cancelled", "completed"}
        BY <1>6, <4>4 DEF GpumdInv, WatchIsTrue
      <4> QED BY <1>15, <2>3, <4>1, <4>2, <4>3, <4>4 DEF Unprotected
    <3> QED BY <1>1, <1>5, <2>1, <2>3, <3>1 DEF Mine, Watching, Prepares
  <2> QED BY <1>1, <1>15, <2>2, <2>3, InterruptIs
<1> QED BY <1>7, <1>8, <1>9, <1>10, <1>11, <1>12, <1>13, <1>14, <1>15

\* A report is cut short: the run has failed, and is reported once more.
LEMMA CutIsTrue ==
  ASSUME GpumdInv, InterruptGpumd, wrapper.pc = "close"
  PROVE  WatchIsTrue' /\ VerdictIsOld' /\ VerdictIsTrue'
<1>1. /\ wrapper \in Wrappers /\ Me = wrapper.id /\ wrapper.stops \in Nat
  BY InvFacts
<1>2. UNCHANGED <<gpumd, verdict>> /\ Turns("failed", "raised", wrapper.last, wrapper.stops + 1)
  BY <1>1, InterruptIs DEF InterruptGpumd, Watching
<1>3. /\ wrapper'.pc = "failed" /\ wrapper'.stops = wrapper.stops + 1 /\ Me' = Me /\ Mine' = Mine
      /\ wrapper'.watched = wrapper.watched
  BY <1>2 DEF Turns, Me, Mine
<1>4. wrapper.stops + 1 <= 1 => wrapper.stops <= 1
  BY <1>1
<1>5. WatchIsTrue'
  BY <1>3, <1>4 DEF GpumdInv, WatchIsTrue, Prepares, Watching, Reporting
<1>6. VerdictIsOld'
  BY <1>2, <1>3 DEF GpumdInv, VerdictIsOld
<1>7. VerdictIsTrue'
  BY <1>2, <1>3, <1>4 DEF GpumdInv, VerdictIsTrue
<1> QED BY <1>5, <1>6, <1>7

\* The wrapper writes its verdict, or fails to.
LEMMA ReportIsTrue ==
  ASSUME GpumdInv, OpenManifest \/ CloseManifest
  PROVE  WatchIsTrue' /\ VerdictIsOld' /\ VerdictIsTrue'
<1>1. /\ wrapper \in Wrappers /\ Me \in GpumdRuns /\ Me # 0 /\ Me \in Nat
  BY InvFacts DEF OpenManifest, CloseManifest, WrapperAt
<1>2. ASSUME OpenManifest, verdict' = [run |-> Me, status |-> "torn"],
             Turns("close", wrapper.pc, wrapper.last, wrapper.stops)
      PROVE  WatchIsTrue' /\ VerdictIsOld' /\ VerdictIsTrue'
  <2>1. UNCHANGED gpumd /\ wrapper.pc \in {"cancelled", "completed", "failed"}
    BY <1>2 DEF OpenManifest
  <2>2. /\ wrapper'.pc = "close" /\ wrapper'.status = wrapper.pc /\ wrapper'.stops = wrapper.stops
        /\ wrapper'.watched = wrapper.watched /\ Me' = Me /\ Mine' = Mine
    BY <1>2, <2>1 DEF Turns, Me, Mine
  <2>3. /\ wrapper.watched /\ wrapper.stops <= 1 => Mine \in Settled
        /\ wrapper.pc = "completed" => Mine = "succeeded"
    BY <2>1 DEF GpumdInv, WatchIsTrue, Reporting
  <2>4. WatchIsTrue'
    BY <2>2, <2>3 DEF WatchIsTrue, Prepares, Watching
  <2>5. VerdictIsOld'
    BY <1>1, <1>2, <2>2 DEF VerdictIsOld
  <2>6. VerdictIsTrue'
    BY <1>2, <2>1, <2>2, <2>3 DEF VerdictIsTrue, Settled, Mine
  <2> QED BY <2>4, <2>5, <2>6
<1>3. ASSUME NEW status, Turns("left", status, wrapper.last, wrapper.stops), UNCHANGED gpumd,
             verdict' \in {verdict, [run |-> Me, status |-> wrapper.status]},
             verdict' # verdict => wrapper.pc = "close"
      PROVE  WatchIsTrue' /\ VerdictIsOld' /\ VerdictIsTrue'
  <2>1. /\ wrapper'.pc = "left" /\ wrapper'.stops = wrapper.stops
        /\ wrapper'.watched = wrapper.watched /\ Me' = Me /\ Mine' = Mine
    BY <1>3 DEF Turns, Me, Mine
  <2>2. WatchIsTrue'
    BY <2>1 DEF WatchIsTrue, Prepares, Watching, Reporting
  <2>3. CASE UNCHANGED verdict
    <3>1. VerdictIsOld'
      BY <2>1, <2>3 DEF GpumdInv, VerdictIsOld, GpumdOver
    <3>2. VerdictIsTrue'
      BY <1>3, <2>1, <2>3 DEF GpumdInv, VerdictIsTrue
    <3> QED BY <2>2, <3>1, <3>2
  <2>4. CASE wrapper.pc = "close" /\ verdict' = [run |-> Me, status |-> wrapper.status]
    <3>1. /\ wrapper.watched /\ wrapper.stops <= 1 => Mine \in Settled
          /\ wrapper.status = "completed" => Mine = "succeeded"
      BY <2>4 DEF GpumdInv, WatchIsTrue, Reporting
    <3>2. VerdictIsOld'
      BY <1>1, <2>1, <2>4 DEF VerdictIsOld, GpumdOver
    <3>3. VerdictIsTrue'
      BY <1>3, <2>1, <2>4, <3>1 DEF VerdictIsTrue, Settled, Mine
    <3> QED BY <2>2, <3>2, <3>3
  <2> QED BY <1>3, <2>3, <2>4
<1>4. CASE OpenManifest
  BY <1>1, <1>2, <1>3, <1>4, OpenIs DEF OpenManifest
<1>5. CASE CloseManifest
  <2>1. Turns("left", wrapper.status, wrapper.last, wrapper.stops)
    BY <1>1, <1>5, GotoTurns, PlacesAre DEF CloseManifest, GpumdOver
  <2> QED BY <1>3, <1>5, <2>1 DEF CloseManifest, WrapperAt
<1> QED BY <1>4, <1>5

\* The wrapper dies, is signalled, or its time passes.
LEMMA OutsideIsTrue ==
  ASSUME GpumdInv, WrapperDies \/ CancelGpumd \/ Expire
  PROVE  WatchIsTrue' /\ VerdictIsOld' /\ VerdictIsTrue'
<1>1. wrapper \in Wrappers
  BY InvFacts
<1>2. UNCHANGED <<gpumd, verdict>>
  BY DEF WrapperDies, CancelGpumd, Expire
<1>3. PICK pc \in {"dead", wrapper.pc} : Turns(pc, wrapper.status, wrapper.last, wrapper.stops)
  BY <1>1, GotoTurns, PlacesAre, SignalIs DEF WrapperDies, GpumdOver
<1>4. /\ wrapper'.pc = pc /\ wrapper'.status = wrapper.status /\ wrapper'.last = wrapper.last
      /\ wrapper'.stops = wrapper.stops /\ wrapper'.watched = wrapper.watched
      /\ Me' = Me /\ Mine' = Mine
  BY <1>2, <1>3 DEF Turns, Me, Mine
<1>5. WatchIsTrue'
  BY <1>4 DEF GpumdInv, WatchIsTrue, Prepares, Watching, Reporting
<1>6. VerdictIsOld'
  BY <1>2, <1>4 DEF GpumdInv, VerdictIsOld, GpumdOver
<1>7. VerdictIsTrue'
  BY <1>2, <1>4 DEF GpumdInv, VerdictIsTrue
<1> QED BY <1>5, <1>6, <1>7

\* gpumd ends: what was settled stays settled, and success stays success.
LEMMA EndIsTrue ==
  ASSUME GpumdInv, NEW r \in GpumdRuns, GpumdExits(r) \/ GpumdIsKilled(r)
  PROVE  WatchIsTrue' /\ VerdictIsOld' /\ VerdictIsTrue'
<1>1. PICK how \in Exited : gpumd' = [gpumd EXCEPT ![r] = how]
  BY DEF GpumdExits, GpumdIsKilled, Exited
<1>2. UNCHANGED <<wrapper, verdict>> /\ gpumd[r] \notin Exited
  BY DEF GpumdExits, GpumdIsKilled, Exited
<1>3. \A q \in GpumdRuns : /\ gpumd[q] \in Settled => gpumd'[q] \in Settled
                           /\ gpumd[q] \in Exited => gpumd'[q] = gpumd[q]
  BY <1>1, <1>2, InvFacts DEF Settled
<1>4. /\ wrapper.pc # "dead" => Me \in GpumdRuns
      /\ verdict.run # 0 => verdict.run \in GpumdRuns
  BY InvFacts
<1>5. WatchIsTrue'
  BY <1>2, <1>3, <1>4 DEF GpumdInv, WatchIsTrue, Mine, Me, Watching, Reporting, Exited
<1>6. VerdictIsOld'
  BY <1>2 DEF GpumdInv, VerdictIsOld, Me
<1>7. VerdictIsTrue'
  BY <1>2, <1>3, <1>4 DEF GpumdInv, VerdictIsTrue, Me, Settled, Exited
<1> QED BY <1>5, <1>6, <1>7

-----------------------------------------------------------------------------
\* The invariant holds at the start.
LEMMA GpumdInvInit == GpumdInit => GpumdInv
<1> SUFFICES ASSUME GpumdInit PROVE GpumdInv
  OBVIOUS
<1>1. /\ wrapper \in Wrappers /\ wrapper.pc = "dead" /\ Me = 0
  BY GpumdBounds DEF GpumdInit, Wrappers, WrapperPcs, GpumdOver, Me
<1>2. GpumdTypeOK
  BY <1>1, GpumdBounds DEF GpumdInit, GpumdTypeOK
<1>3. TreeInv
  BY <1>1, <1>2 DEF GpumdInit, TreeInv, NothingAhead, NativeIsMine, WritesAtHome, OneRun
<1> QED BY <1>1, <1>3
      DEF GpumdInit, GpumdInv, WatchIsTrue, VerdictIsOld, VerdictIsTrue, Prepares, Watching, Reporting,
          GpumdOver

\* Every step keeps the tree with its run.
LEMMA TreeStep == GpumdInv /\ [GpumdNext]_gpumdVars => TreeInv'
<1> SUFFICES ASSUME GpumdInv, [GpumdNext]_gpumdVars PROVE TreeInv'
  OBVIOUS
<1>1. TreeInv /\ wrapper \in Wrappers /\ gpumd \in [GpumdRuns -> {"none"} \cup Alive \cup Exited]
  BY InvFacts DEF GpumdInv
<1>2. CASE UNCHANGED gpumdVars
  BY <1>1, <1>2 DEF gpumdVars, TreeInv, GpumdTypeOK, NothingAhead, NativeIsMine, WritesAtHome, OneRun, Me
<1>3. ASSUME NEW pc, NEW status, NEW last, NEW stops, Turns(pc, status, last, stops),
             pc \notin Prepares, wrapper.pc # "dead", UNCHANGED <<gpumd, cwd, native, trees>>
      PROVE  TreeInv'
  BY <1>1, <1>3, TreesStay DEF Turns
<1>4. CASE Poll \/ Finally \/ InterruptGpumd \/ OpenManifest
  <2>1. UNCHANGED <<gpumd, cwd, native, trees>> /\ wrapper.pc # "dead"
    BY <1>4 DEF Poll, Finally, InterruptGpumd, Unprotected, OpenManifest, WrapperAt, Watching, Leaving
  <2>2. CASE Poll
    BY <1>1, <1>3, <2>1, <2>2, PollIs DEF Prepares
  <2>3. CASE Finally
    BY <1>1, <1>3, <2>1, <2>3, FinallyIs DEF Prepares
  <2>4. CASE InterruptGpumd
    BY <1>1, <1>3, <2>1, <2>4, InterruptIs DEF Prepares
  <2>5. CASE OpenManifest
    BY <1>1, <1>3, <2>1, <2>5, OpenIs DEF Prepares
  <2> QED BY <1>4, <2>2, <2>3, <2>4, <2>5
<1>5. CASE Grace \/ KillWait \/ Wait \/ Judge \/ CloseManifest \/ WrapperDies
  <2>1. /\ UNCHANGED <<gpumd, cwd, native, trees>> /\ wrapper.pc # "dead"
        /\ \E pc \in Watching \cup Leaving \cup Reporting \cup GpumdOver \cup {"judge"} :
             WrapperGoto(pc)
    BY <1>5 DEF Grace, KillWait, Wait, Judge, CloseManifest, WrapperDies, WrapperAt, Watching, Leaving,
                Reporting, GpumdOver, Stopped
  <2> QED BY <1>1, <1>3, <2>1, GotoTurns, PlacesAre DEF Prepares, Watching, Leaving, Reporting, GpumdOver
<1>6. CASE CancelGpumd \/ Expire \/ EnterWatch
  <2>1. CASE CancelGpumd \/ Expire
    BY <1>1, <2>1, SignalIs, TreesStay DEF CancelGpumd, Expire, Turns
  <2>2. CASE EnterWatch
    BY <1>1, <2>2, EnterIs, TreesStay DEF EnterWatch, Prepares
  <2> QED BY <1>6, <2>1, <2>2
<1>7. CASE Ask \/ Kill
  <2>1. Me \in GpumdRuns
    BY <1>7, InvFacts DEF Ask, Kill, WrapperAt
  <2>2. PICK pc \in {"grace", "killWait"} : Turns(pc, wrapper.status, wrapper.last, wrapper.stops)
    BY <1>1, <1>7, GotoTurns, PlacesAre DEF Ask, Kill, Watching
  <2>3. PICK state \in {"asked", "killed", Mine} :
          /\ gpumd' = [gpumd EXCEPT ![Me] = state]
          /\ state # Mine => Mine \in Alive
    BY <1>7 DEF Ask, Kill, Alive, Mine
  <2>4. /\ gpumd' \in [GpumdRuns -> {"none"} \cup Alive \cup Exited]
        /\ \A r \in GpumdRuns : gpumd'[r] = "none" <=> gpumd[r] = "none"
    BY <1>1, <2>1, <2>3 DEF Mine, Alive
  <2>5. UNCHANGED <<cwd, native, trees>> /\ wrapper.pc # "dead"
    BY <1>7 DEF Ask, Kill, WrapperAt
  <2> QED BY <1>1, <2>2, <2>4, <2>5, TreesStay DEF Turns, Prepares
<1>8. ASSUME NEW r \in GpumdRuns, GpumdExits(r) \/ GpumdIsKilled(r) PROVE TreeInv'
  <2>1. PICK how \in Exited : gpumd' = [gpumd EXCEPT ![r] = how]
    BY <1>8 DEF GpumdExits, GpumdIsKilled, Exited
  <2>2. UNCHANGED <<wrapper, cwd, native, trees>> /\ gpumd[r] # "none"
    BY <1>8 DEF GpumdExits, GpumdIsKilled
  <2>3. /\ gpumd' \in [GpumdRuns -> {"none"} \cup Alive \cup Exited]
        /\ \A q \in GpumdRuns : gpumd'[q] = "none" <=> gpumd[q] = "none"
    BY <1>1, <2>1, <2>2 DEF Exited
  <2> QED BY <1>1, <2>2, <2>3, TreesStay
<1> QED BY <1>1, <1>2, <1>4, <1>5, <1>6, <1>7, <1>8, StartTree, ClaimTree, MakeTree, InputsTree,
           LaunchTree, WritesTree
      DEF GpumdNext, WrapperStep

\* Every step keeps the invariant.
LEMMA GpumdInvStep == GpumdInv /\ [GpumdNext]_gpumdVars => GpumdInv'
<1> SUFFICES ASSUME GpumdInv, [GpumdNext]_gpumdVars
             PROVE  WatchIsTrue' /\ VerdictIsOld' /\ VerdictIsTrue'
  BY TreeStep DEF GpumdInv
<1>1. CASE UNCHANGED gpumdVars
  BY <1>1 DEF gpumdVars, GpumdInv, WatchIsTrue, VerdictIsOld, VerdictIsTrue, Mine, Me
<1>2. ASSUME NEW r \in GpumdRuns, GpumdWrites(r)
      PROVE  WatchIsTrue' /\ VerdictIsOld' /\ VerdictIsTrue'
  BY <1>1, <1>2, WritesTree DEF GpumdInv
<1> QED BY <1>1, <1>2, PrepareIsTrue, WatchStaysTrue, CutIsTrue, ReportIsTrue, OutsideIsTrue, EndIsTrue
      DEF GpumdNext, WrapperStep

\* Every reachable state of the output directory satisfies the invariant.
THEOREM GpumdInvariant == GpumdSpec => []GpumdInv
BY GpumdInvInit, GpumdInvStep, PTL DEF GpumdSpec

\* NativeIsOneRun for any number of runs: what is in one native/ tree is of
\* one run, whatever gpumd process of a killed wrapper still writes.
THEOREM OneRunPerTree == GpumdSpec => []NativeIsOneRun
<1>1. GpumdInv => NativeIsOneRun
  <2> SUFFICES ASSUME OneRun, NEW t \in GpumdRuns PROVE Cardinality(trees[t]) <= 1
    BY DEF GpumdInv, TreeInv, NativeIsOneRun
  <2>1. CASE trees[t] = {}
    BY <2>1, FS_EmptySet
  <2>2. CASE trees[t] # {}
    <3>1. PICK r \in trees[t] : TRUE
      BY <2>2
    <3>2. \A a \in trees[t] : a = r
      BY <3>1 DEF OneRun
    <3>3. trees[t] = {r}
      BY <3>1, <3>2
    <3>4. Cardinality({r}) = 1
      BY FS_Singleton
    <3> QED BY <3>3, <3>4
  <2> QED BY <2>1, <2>2
<1> QED BY <1>1, GpumdInvariant, PTL

\* VerdictIsTrue for any number of runs and interrupts: manifest.json never
\* tells more than gpumd did.
THEOREM VerdictTrue == GpumdSpec => []VerdictIsTrue
<1>1. GpumdInv => VerdictIsTrue
  BY DEF GpumdInv
<1> QED BY <1>1, GpumdInvariant, PTL
=============================================================================
