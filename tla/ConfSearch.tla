----------------------------- MODULE ConfSearch -----------------------------
(***************************************************************************)
(* One configuration search in its run directory (confsearch/engine.py,    *)
(* checkpoint.py, workflow.py and the commands run, resume and extend of   *)
(* cli.py).  The directory lock lets one process at a time work on it;     *)
(* each may be killed, or fail, between any two steps, and the user        *)
(* resumes or extends what it left.                                        *)
(*                                                                         *)
(* Physics is deterministic: what a quench or a cycle yields is a function *)
(* of where the two random streams of the replica stand and of the minimum *)
(* it starts from.  fate is what has been seen of that function.  A        *)
(* minimum is the position of the MD stream it was found from.  The        *)
(* quenches of a cycle are taken as one, the last.                         *)
(***************************************************************************)
EXTENDS Naturals, Sequences, FiniteSets

CONSTANTS
  LastReplica,      \* replicas are 1 .. LastReplica
  FirstCycles,      \* cs_cycles of the first run
  MaxCycles,        \* bound on the budget of extensions
  MaxSessions       \* bound on processes

ASSUME SearchNumbers ==
  /\ LastReplica \in Nat \ {0} /\ MaxSessions \in Nat
  /\ FirstCycles \in Nat \ {0} /\ MaxCycles \in Nat /\ FirstCycles <= MaxCycles

Replicas == 1..LastReplica
Cycles == 1..MaxCycles

VARIABLES
  search,           \* the present process
  memory,           \* what its engine holds
  saved,            \* checkpoints/confsearch.json
  budget,           \* run_context.json
  rawFiles,         \* sessions with files in raw/replica_r/cycle_c
  found,            \* search_results.json and artifacts.json
  folders,          \* top, diagnostics and minima exist
  history,          \* history/extension_k
  fate

directory == <<saved, budget, rawFiles, found, folders, history>>
searchVars == <<search, memory, directory, fate>>

-----------------------------------------------------------------------------
(* The plan, and what a unit of it does to the state of the engine. *)

Units(cycles) == 1 + LastReplica * cycles

\* Of unit k + 1: the replica and the cycle, for k > 0.
ReplicaOf(k) == ((k - 1) % LastReplica) + 1

\* Mutant: off by one for the last replica.
CycleOfLate(k) == (k \div LastReplica) + 1

CycleOf(k) == ((k - 1) \div LastReplica) + 1

Fresh == [unit |-> 0, active |-> [r \in Replicas |-> TRUE], count |-> [r \in Replicas |-> 0],
          current |-> [r \in Replicas |-> 0], md |-> [r \in Replicas |-> 0],
          mc |-> [r \in Replicas |-> 0], quenches |-> <<>>, time |-> 0]

StartOutcomes == {"valid", "invalid", "unmeasured"}
Eligible == {"accepted", "rejected"}
CycleOutcomes == Eligible \cup {"invalid", "unmeasured", "aborted"}

Key(m, r) == [replica |-> r, md |-> m.md[r], mc |-> m.mc[r], from |-> m.current[r]]
Quenched(m, r, o) == [replica |-> r, md |-> m.md[r], measured |-> o # "unmeasured"]

AfterStart(m, o) ==
  [m EXCEPT !.unit = 1, !.active = [r \in Replicas |-> o[r] = "valid"],
            !.current = [r \in Replicas |-> IF o[r] = "valid" THEN 1 ELSE 0],
            !.quenches = [r \in Replicas |-> Quenched(m, r, o[r])]]

\* _metropolis draws for an eligible end minimum only; an aborted cycle counts.
AfterCycle(m, r, o) ==
  [m EXCEPT !.unit = @ + 1, !.count[r] = CycleOf(m.unit), !.md[r] = @ + 1, !.time = @ + 1,
            !.mc[r] = IF o \in Eligible THEN @ + 1 ELSE @,
            !.current[r] = IF o = "accepted" THEN m.md[r] + 2 ELSE @,
            !.quenches = IF o = "aborted" THEN @ ELSE Append(@, Quenched(m, r, o))]

AfterNothing(m) == [m EXCEPT !.unit = @ + 1]

\* What is not known yet may be taken to be anything.
Fated(key) == IF key \in DOMAIN fate THEN fate[key] ELSE "aborted"

\* The search without interruption, after k units.
Uninterrupted[k \in 0..Units(MaxCycles)] ==
  IF k = 0 THEN Fresh
  ELSE LET m == Uninterrupted[k - 1]
           r == ReplicaOf(m.unit)
       IN  IF k = 1 THEN AfterStart(m, [q \in Replicas |-> Fated(Key(m, q))])
           ELSE IF m.active[r] THEN AfterCycle(m, r, Fated(Key(m, r)))
           ELSE AfterNothing(m)

-----------------------------------------------------------------------------
NoSearch == [kind |-> "none"]
Nothing == [kind |-> "none", cycles |-> 0]
Torn == [kind |-> "torn", cycles |-> 0]
Whole(cycles) == [kind |-> "whole", cycles |-> cycles]

SearchEnded == {"left", "dead"}

SearchAt(pc) == search.pc = pc
SearchGoto(pc) == search' = [search EXCEPT !.pc = pc]

SearchInit ==
  /\ search = [pc |-> "dead", id |-> 0, cycles |-> FirstCycles, extend |-> FALSE]
  /\ memory = Fresh
  /\ saved = NoSearch
  /\ budget = [kind |-> "none", cycles |-> 0, extensions |-> <<>>]
  /\ rawFiles = [r \in Replicas |-> [c \in Cycles |-> {}]]
  /\ found = Nothing
  /\ folders = FALSE
  /\ history = [k \in 0..MaxCycles |-> [found |-> Nothing, folders |-> FALSE]]
  /\ fate = <<>>

-----------------------------------------------------------------------------
(* The commands. *)

StartSearch(pc, cycles, extend) ==
  /\ search.pc \in SearchEnded
  /\ search.id < MaxSessions
  /\ search' = [pc |-> pc, id |-> search.id + 1, cycles |-> cycles, extend |-> extend]
  /\ memory' = Fresh
  /\ UNCHANGED <<directory, fate>>

\* run: its first act, run.log, keeps every later run out.
RunSearch == search.id = 0 /\ StartSearch("context", FirstCycles, FALSE)

\* resume takes every option from run_context.json.  It reads the file before it
\* takes the directory lock, and so does extend: one step stands for both as long
\* as the commands on one search come one after the other.
ResumeSearch == budget.kind = "whole" /\ StartSearch("load", budget.cycles, FALSE)

\* extend also wants the results to be readable.
ExtendSearch ==
  /\ budget.kind = "whole"
  /\ found.kind = "whole"
  /\ \E cycles \in (budget.cycles + 1)..MaxCycles : StartSearch("load", cycles, TRUE)

CreateContext ==
  /\ SearchAt("context")
  /\ budget' = [kind |-> "whole", cycles |-> search.cycles, extensions |-> <<>>]
  /\ SearchGoto("unit")
  /\ UNCHANGED <<memory, saved, rawFiles, found, folders, history, fate>>

\* _recorded_extension_allows_cycle_change
ExtensionRecorded ==
  /\ budget.extensions # <<>>
  /\ budget.extensions[Len(budget.extensions)] = budget.cycles

\* The checkpoint is read and its fingerprint compared.
LoadCheckpoint ==
  /\ SearchAt("load")
  /\ SearchGoto(
       IF \/ saved = NoSearch
          \/ saved.cycles # search.cycles /\ ~search.extend /\ ~ExtensionRecorded
       THEN "left"
       ELSE IF search.extend /\ search.cycles > saved.cycles THEN "archive" ELSE "restore")
  /\ UNCHANGED <<memory, directory, fate>>

-----------------------------------------------------------------------------
(* archive_for_extension and record_extension. *)

ThisExtension == Len(budget.extensions) + 1

\* Mutant: the old results stay where they are.
ArchiveNothing ==
  /\ SearchAt("archive")
  /\ SearchGoto("folders")
  /\ UNCHANGED <<memory, directory, fate>>

\* search_results.json and artifacts.json; a file in the way is replaced.
ArchiveResults ==
  /\ SearchAt("archive")
  /\ IF found = Nothing THEN UNCHANGED <<found, history>>
     ELSE /\ history' = [history EXCEPT ![ThisExtension].found = found]
          /\ found' = Nothing
  /\ SearchGoto("folders")
  /\ UNCHANGED <<memory, saved, budget, rawFiles, folders, fate>>

\* A directory in the way, from an earlier attempt, makes the rename fail.
ArchiveFolders ==
  /\ SearchAt("folders")
  /\ IF folders /\ history[ThisExtension].folders
     THEN SearchGoto("left") /\ UNCHANGED <<folders, history>>
     ELSE /\ history' = [history EXCEPT ![ThisExtension].folders = @ \/ folders]
          /\ folders' = FALSE
          /\ SearchGoto("openContext")
  /\ UNCHANGED <<memory, saved, budget, rawFiles, found, fate>>

\* Of a torn run_context.json nothing is read again.
OpenContext ==
  /\ SearchAt("openContext")
  /\ budget' = [budget EXCEPT !.kind = "torn"]
  /\ SearchGoto("record")
  /\ UNCHANGED <<memory, saved, rawFiles, found, folders, history, fate>>

RecordExtension ==
  /\ SearchAt("record")
  /\ budget' = [kind |-> "whole", cycles |-> search.cycles,
                extensions |-> Append(budget.extensions, search.cycles)]
  /\ SearchGoto("restore")
  /\ UNCHANGED <<memory, saved, rawFiles, found, folders, history, fate>>

-----------------------------------------------------------------------------
(* The engine. *)

\* archive_incomplete: the raw directory a replica was writing is set aside.
SetAside(m) ==
  rawFiles' = [r \in Replicas |-> [c \in Cycles |->
            IF m.active[r] /\ c = m.count[r] + 1 THEN {} ELSE rawFiles[r][c]]]

\* from_dict of the registry turns every distance of a record into a float; a
\* quench that failed or did not converge has none, so the attempt fails.
Restorable == \A i \in DOMAIN saved.memory.quenches : saved.memory.quenches[i].measured

\* Mutant: the Metropolis stream starts anew.
RestoreFreshDraws ==
  /\ SearchAt("restore")
  /\ IF Restorable
     THEN /\ memory' = [saved.memory EXCEPT !.mc = Fresh.mc]
          /\ SetAside(saved.memory)
          /\ SearchGoto("unit")
     ELSE SearchGoto("left") /\ UNCHANGED <<memory, rawFiles>>
  /\ UNCHANGED <<saved, budget, found, folders, history, fate>>

\* Mutant: the files of an interrupted cycle are left where they are.
RestoreKeepsRaw ==
  /\ SearchAt("restore")
  /\ IF Restorable THEN memory' = saved.memory /\ SearchGoto("unit")
                   ELSE SearchGoto("left") /\ UNCHANGED memory
  /\ UNCHANGED <<directory, fate>>

Restore ==
  /\ SearchAt("restore")
  /\ IF Restorable
     THEN memory' = saved.memory /\ SetAside(saved.memory) /\ SearchGoto("unit")
     ELSE SearchGoto("left") /\ UNCHANGED <<memory, rawFiles>>
  /\ UNCHANGED <<saved, budget, found, folders, history, fate>>

\* fate[key] is o, from now on if it has not been before.
Meets(o, keys) ==
  /\ \A key \in keys \cap DOMAIN fate : o[key] = fate[key]
  /\ fate' = [key \in keys \cup DOMAIN fate |-> IF key \in keys THEN o[key] ELSE fate[key]]

\* Without a survivor the search ends before its first checkpoint.
RunStart ==
  /\ SearchAt("unit") /\ memory.unit = 0
  /\ \E o \in [Replicas -> StartOutcomes] :
       /\ Meets([key \in {Key(memory, r) : r \in Replicas} |-> o[key.replica]],
                {Key(memory, r) : r \in Replicas})
       /\ memory' = AfterStart(memory, o)
       /\ SearchGoto(IF \E r \in Replicas : o[r] = "valid" THEN "save" ELSE "left")
  /\ UNCHANGED directory

Due == memory.unit \in 1..(Units(search.cycles) - 1)

SkipCycle ==
  /\ SearchAt("unit") /\ Due
  /\ ~memory.active[ReplicaOf(memory.unit)]
  /\ memory' = AfterNothing(memory)
  /\ SearchGoto("save")
  /\ UNCHANGED <<directory, fate>>

BeginCycle ==
  /\ SearchAt("unit") /\ Due
  /\ LET r == ReplicaOf(memory.unit)
     IN  /\ memory.active[r]
         /\ rawFiles' = [rawFiles EXCEPT ![r][CycleOf(memory.unit)] = @ \cup {search.id}]
  /\ SearchGoto("cycle")
  /\ UNCHANGED <<memory, saved, budget, found, folders, history, fate>>

\* Mutant: a cycle that aborted is not counted.
EndCycleAborted ==
  /\ SearchAt("cycle")
  /\ LET r == ReplicaOf(memory.unit)
         key == Key(memory, r)
     IN  \E o \in CycleOutcomes :
           /\ Meets([k \in {key} |-> o], {key})
           /\ memory' = [AfterCycle(memory, r, o) EXCEPT !.count[r] =
                           IF o = "aborted" THEN memory.count[r] ELSE @]
  /\ SearchGoto("save")
  /\ UNCHANGED directory

EndCycle ==
  /\ SearchAt("cycle")
  /\ LET r == ReplicaOf(memory.unit)
         key == Key(memory, r)
     IN  \E o \in CycleOutcomes :
           /\ Meets([k \in {key} |-> o], {key})
           /\ memory' = AfterCycle(memory, r, o)
  /\ SearchGoto("save")
  /\ UNCHANGED directory

\* The checkpoint is replaced atomically, with the fingerprint of this process.
SaveCheckpoint ==
  /\ SearchAt("save")
  /\ saved' = [kind |-> "checkpoint", cycles |-> search.cycles, memory |-> memory]
  /\ SearchGoto("unit")
  /\ UNCHANGED <<memory, budget, rawFiles, found, folders, history, fate>>

-----------------------------------------------------------------------------
(* _finish, build_results and the end of the workflow. *)

BuildResults ==
  /\ SearchAt("unit")
  /\ memory.unit >= Units(search.cycles)
  /\ folders' = TRUE
  /\ SearchGoto("openResults")
  /\ UNCHANGED <<memory, saved, budget, rawFiles, found, history, fate>>

OpenResults ==
  /\ SearchAt("openResults")
  /\ found' = Torn
  /\ SearchGoto("close")
  /\ UNCHANGED <<memory, saved, budget, rawFiles, folders, history, fate>>

CloseResults ==
  /\ SearchAt("close")
  /\ found' = Whole(search.cycles)
  /\ SearchGoto("left")
  /\ UNCHANGED <<memory, saved, budget, rawFiles, folders, history, fate>>

\* The process is killed, or an exception leaves the workflow: neither
\* touches the directory.
SearchDies ==
  /\ search.pc \notin SearchEnded
  /\ SearchGoto("dead")
  /\ UNCHANGED <<memory, directory, fate>>

SearchNext ==
  \/ RunSearch \/ ResumeSearch \/ ExtendSearch \/ CreateContext \/ LoadCheckpoint
  \/ ArchiveResults \/ ArchiveFolders \/ OpenContext \/ RecordExtension
  \/ Restore \/ RunStart \/ SkipCycle \/ BeginCycle \/ EndCycle \/ SaveCheckpoint
  \/ BuildResults \/ OpenResults \/ CloseResults
  \/ SearchDies

SearchSpec == SearchInit /\ [][SearchNext]_searchVars

Memories ==
  [unit : 0..Units(MaxCycles), active : [Replicas -> BOOLEAN], count : [Replicas -> 0..MaxCycles],
   current : [Replicas -> Nat], md : [Replicas -> Nat], mc : [Replicas -> Nat],
   quenches : Seq([replica : Replicas, md : Nat, measured : BOOLEAN]), time : Nat]

Founds == {Nothing, Torn} \cup {Whole(c) : c \in Cycles}

-----------------------------------------------------------------------------
\* Type correctness of the process, its engine and the run directory.
SearchTypeOK ==
  /\ search \in [pc : {"context", "load", "archive", "folders", "openContext", "record", "restore",
                       "unit", "cycle", "save", "openResults", "close"} \cup SearchEnded,
                 id : 0..MaxSessions, cycles : Cycles, extend : BOOLEAN]
  /\ memory \in Memories
  /\ saved \in {NoSearch} \cup [kind : {"checkpoint"}, cycles : Cycles, memory : Memories]
  /\ budget \in [kind : {"none", "torn", "whole"}, cycles : Nat, extensions : Seq(Cycles)]
  /\ rawFiles \in [Replicas -> [Cycles -> SUBSET (1..MaxSessions)]]
  /\ found \in Founds
  /\ folders \in BOOLEAN
  /\ history \in [0..MaxCycles -> [found : Founds, folders : BOOLEAN]]

\* "An interrupted-and-resumed search is bitwise identical to an uninterrupted
\* one" (docs/workflows/confsearch.md): every checkpoint holds what the search
\* without interruption would hold after as many units, also after an
\* extension.
ResumeIsUninterrupted ==
  saved # NoSearch => saved.memory = Uninterrupted[saved.memory.unit]

\* "Raw files of an interrupted attempt must survive" (engine.py): no raw
\* directory holds files of two processes, and each cycle of the checkpoint
\* has one.
RawIsOneAttempt ==
  \A r \in Replicas, c \in Cycles :
    /\ Cardinality(rawFiles[r][c]) <= 1
    /\ saved # NoSearch /\ saved.memory.count[r] >= c => rawFiles[r][c] # {}

\* Whole results in the directory are those of the budget recorded in
\* run_context.json, with a checkpoint that has reached it; those of every
\* earlier budget are kept in the history, whatever extension was cut short
\* and taken up again (by commands that come one after the other).
BudgetsAgree ==
  /\ found.kind = "whole" =>
       /\ budget.kind = "whole"
       /\ found.cycles = budget.cycles
       /\ saved # NoSearch /\ saved.memory.unit = Units(budget.cycles)
  /\ \A k \in DOMAIN budget.extensions :
       history[k] = [found |-> Whole(IF k = 1 THEN FirstCycles ELSE budget.extensions[k - 1]),
                     folders |-> TRUE]

\* "Resuming refuses to continue if anything in the identity changed ... and
\* re-runs the interrupted unit from its checkpointed random state"
\* (docs/workflows/confsearch.md): an attempt whose configuration is that of
\* the checkpoint goes on from it, unless it is killed first.
ResumeContinues ==
  [][SearchAt("restore") => search'.pc \in {"restore", "unit", "dead"}]_searchVars
=============================================================================
