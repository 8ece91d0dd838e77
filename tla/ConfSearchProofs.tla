-------------------------- MODULE ConfSearchProofs --------------------------
(***************************************************************************)
(* Theorems about a configuration search in its run directory (module      *)
(* ConfSearch), for any number of replicas, cycles and processes: types,   *)
(* the raw files of interrupted cycles, and the budgets and results that   *)
(* extensions leave behind.                                                *)
(*                                                                         *)
(* The inductive invariant says where each file stands at each step of the *)
(* present process.  Of the engine it says that its memory is what the     *)
(* checkpoint holds, or one unit further; of a checkpoint, that the number *)
(* of cycles it counts for a replica is the one its unit stands for; of    *)
(* the raw directories, that beside the counted cycles only the next one   *)
(* of a replica may have files, and only until the process that wrote them *)
(* is over and the next one sets them aside.                               *)
(*                                                                         *)
(* With it go: that interrupted and resumed searches are uninterrupted     *)
(* ones, by induction over the units (InductiveSet); that a resume can     *)
(* only fail on a quench without a measurement; that results are complete. *)
(***************************************************************************)
EXTENDS ConfSearch, FiniteSetTheorems, SequenceTheorems, WellFoundedInduction, TLAPS

Engine == {"unit", "cycle", "save", "openResults", "close"}
Extending == {"archive", "folders", "openContext", "record"}

Saved == saved # NoSearch

\* The cycles of replica r that precede unit k.
CyclesBefore(k, r) == IF r < ReplicaOf(k) THEN CycleOf(k) ELSE CycleOf(k) - 1

Counted(m) ==
  \A r \in Replicas : m.count[r] = IF m.active[r] THEN CyclesBefore(m.unit, r) ELSE 0

\* The budget before extension k.
BudgetBefore(k) == IF k = 1 THEN FirstCycles ELSE budget.extensions[k - 1]

-----------------------------------------------------------------------------
\* Where the process stands.
ProcessInv ==
  /\ search.id = 0 => search.pc = "dead" /\ budget.kind = "none"
  /\ search.pc = "context" =>
       budget.kind = "none" /\ memory = Fresh /\ search.cycles = FirstCycles
  /\ search.pc \in Engine \cup {"load", "restore", "archive", "folders", "openContext"} =>
       budget.kind = "whole"
  /\ search.pc = "record" => budget.kind = "torn"
  /\ (search.pc = "load" /\ ~search.extend) => search.cycles = budget.cycles
  /\ search.pc \in Engine \cup {"restore"} => search.cycles = budget.cycles
  /\ (search.pc = "load" /\ search.extend) \/ search.pc \in Extending =>
       search.cycles > budget.cycles

\* What the files say of the budget.
BudgetInv ==
  /\ budget.kind = "none" =>
       budget.extensions = <<>> /\ ~Saved /\ found = Nothing
  /\ budget.kind # "none" =>
       /\ budget.cycles \in Cycles
       /\ budget.cycles = BudgetBefore(Len(budget.extensions) + 1)
       /\ budget.cycles > Len(budget.extensions)
  /\ Saved => /\ saved.cycles <= budget.cycles
              /\ saved.memory.unit \in 1..Units(saved.cycles)
              /\ Counted(saved.memory)

\* What the results and the history say.
ResultsInv ==
  /\ found # Nothing =>
       /\ folders
       /\ budget.kind = "whole"
       /\ Saved /\ saved.memory.unit = Units(budget.cycles)
  /\ found.kind = "whole" => found = Whole(budget.cycles)
  /\ (search.pc = "load" /\ search.extend) \/ search.pc = "archive" =>
       found = Whole(budget.cycles)
  /\ search.pc \in {"folders", "openContext", "record"} =>
       /\ found = Nothing
       /\ history[ThisExtension].found = Whole(budget.cycles)
  /\ search.pc = "folders" => folders
  /\ search.pc \in {"openContext", "record"} => history[ThisExtension].folders
  /\ \A k \in DOMAIN budget.extensions :
       history[k] = [found |-> Whole(BudgetBefore(k)), folders |-> TRUE]

\* What the engine holds.
EngineInv ==
  /\ search.pc \in Extending \cup {"restore"} => Saved
  /\ search.pc = "unit" => IF memory.unit = 0 THEN ~Saved /\ memory = Fresh
                                              ELSE Saved /\ saved.memory = memory
  /\ search.pc = "cycle" =>
       Saved /\ saved.memory = memory /\ Due /\ memory.active[ReplicaOf(memory.unit)]
  /\ search.pc = "save" =>
       /\ memory.unit \in 1..Units(search.cycles)
       /\ Counted(memory)
       /\ Saved => saved.memory.unit < memory.unit
  /\ search.pc \in {"openResults", "close"} =>
       Saved /\ saved.memory = memory /\ memory.unit = Units(search.cycles) /\ folders

\* The raw directories.
OneFile(r, c) == \E s \in 1..MaxSessions : rawFiles[r][c] = {s}

Counts(m, r, c) == c <= m.count[r]

\* Beside the counted cycles nothing has files, except perhaps those of near.
RawBut(m, near) ==
  \A r \in Replicas, c \in Cycles :
    IF Counts(m, r, c) THEN OneFile(r, c)
    ELSE rawFiles[r][c] = {} \/ (<<r, c>> \in near /\ OneFile(r, c))

\* The cycle each replica of m would begin next.
NextCycles(m) == {<<r, m.count[r] + 1>> : r \in {q \in Replicas : m.active[q]}}

ThisCycle == <<ReplicaOf(memory.unit), CycleOf(memory.unit)>>

RawInv ==
  /\ ~Saved => \A r \in Replicas, c \in Cycles : rawFiles[r][c] = {}
  /\ Saved => RawBut(saved.memory, NextCycles(saved.memory))
  /\ (search.pc = "unit" /\ memory.unit # 0) \/ search.pc = "save" => RawBut(memory, {})
  /\ search.pc = "cycle" => /\ RawBut(memory, {ThisCycle})
                            /\ OneFile(ThisCycle[1], ThisCycle[2])

SearchInv ==
  /\ SearchTypeOK
  /\ ProcessInv
  /\ BudgetInv
  /\ ResultsInv
  /\ EngineInv
  /\ RawInv

-----------------------------------------------------------------------------
(* The plan. *)

\* One round of the replicas more.
LEMMA Shift ==
  ASSUME NEW a \in Nat, NEW b \in Nat, a < b
  PROVE  LastReplica * a + LastReplica <= LastReplica * b
<1>1. LastReplica \in Nat BY SearchNumbers
<1>2. PICK d \in Nat : b = a + 1 + d
  <2>1. b - a - 1 \in Nat /\ b = a + 1 + (b - a - 1) OBVIOUS
  <2> QED BY <2>1
<1>3. LastReplica * b = LastReplica * a + LastReplica + LastReplica * d
  BY <1>1, <1>2
<1>4. LastReplica * d \in Nat /\ LastReplica * a \in Nat BY <1>1
<1> QED BY <1>1, <1>3, <1>4

\* Quotient and remainder by the number of replicas.
LEMMA Division ==
  ASSUME NEW n \in Nat
  PROVE  /\ n \div LastReplica \in Nat
         /\ n % LastReplica \in 0..(LastReplica - 1)
         /\ n = LastReplica * (n \div LastReplica) + (n % LastReplica)
BY SearchNumbers

\* They are the only ones.
LEMMA DivisionUnique ==
  ASSUME NEW q \in Nat, NEW p \in Nat,
         NEW m \in 0..(LastReplica - 1), NEW k \in 0..(LastReplica - 1),
         LastReplica * q + m = LastReplica * p + k
  PROVE  q = p /\ m = k
<1>1. LastReplica \in Nat /\ LastReplica * q \in Nat /\ LastReplica * p \in Nat BY SearchNumbers
<1>2. ~ (q < p) BY <1>1, Shift
<1>3. ~ (p < q) BY <1>1, Shift
<1> QED BY <1>1, <1>2, <1>3

\* Unit k + 1 is the turn of a replica in a cycle.
LEMMA PlanOf ==
  ASSUME NEW k \in Nat \ {0}
  PROVE  /\ ReplicaOf(k) \in Replicas
         /\ CycleOf(k) \in Nat \ {0}
         /\ k - 1 = LastReplica * (CycleOf(k) - 1) + (ReplicaOf(k) - 1)
<1>1. k - 1 \in Nat OBVIOUS
<1>2. LastReplica \in Nat \ {0} BY SearchNumbers
<1>3. /\ (k - 1) \div LastReplica \in Nat
      /\ (k - 1) % LastReplica \in 0..(LastReplica - 1)
      /\ k - 1 = LastReplica * ((k - 1) \div LastReplica) + ((k - 1) % LastReplica)
  BY <1>1, Division
<1>4. /\ CycleOf(k) - 1 = (k - 1) \div LastReplica
      /\ ReplicaOf(k) - 1 = (k - 1) % LastReplica
  BY <1>2, <1>3 DEF CycleOf, ReplicaOf
<1> QED BY <1>2, <1>3, <1>4 DEF CycleOf, ReplicaOf, Replicas

\* The next unit is the turn of the next replica, or of the first one in the
\* next cycle.
LEMMA PlanNext ==
  ASSUME NEW k \in Nat \ {0}
  PROVE  IF ReplicaOf(k) < LastReplica
         THEN ReplicaOf(k + 1) = ReplicaOf(k) + 1 /\ CycleOf(k + 1) = CycleOf(k)
         ELSE ReplicaOf(k + 1) = 1 /\ CycleOf(k + 1) = CycleOf(k) + 1
<1> DEFINE r == ReplicaOf(k)
           c == CycleOf(k)
           s == ReplicaOf(k + 1)
           d == CycleOf(k + 1)
<1>1. r \in Replicas /\ c \in Nat \ {0} /\ k - 1 = LastReplica * (c - 1) + (r - 1) BY PlanOf
<1>2. s \in Replicas /\ d \in Nat \ {0} /\ (k + 1) - 1 = LastReplica * (d - 1) + (s - 1)
  BY PlanOf, k + 1 \in Nat \ {0}
<1>3. LastReplica \in Nat \ {0} BY SearchNumbers
<1>4. /\ c - 1 \in Nat /\ d - 1 \in Nat
      /\ r - 1 \in 0..(LastReplica - 1) /\ s - 1 \in 0..(LastReplica - 1)
  BY <1>1, <1>2, <1>3 DEF Replicas
<1> HIDE DEF r, c, s, d
<1>5. CASE r < LastReplica
  <2>1. r \in 0..(LastReplica - 1) BY <1>1, <1>3, <1>5 DEF Replicas
  <2>2. LastReplica * (d - 1) + (s - 1) = LastReplica * (c - 1) + r
    <3>1. LastReplica * (c - 1) \in Int /\ LastReplica * (d - 1) \in Int BY <1>3, <1>4
    <3> QED BY <3>1, <1>1, <1>2, <2>1
  <2>3. d - 1 = c - 1 /\ s - 1 = r BY <2>1, <2>2, <1>4, DivisionUnique
  <2>4. s = r + 1 /\ d = c BY <2>3, <1>1, <1>2 DEF Replicas
  <2> QED BY <2>4, <1>5 DEF r, c, s, d
<1>6. CASE ~(r < LastReplica)
  <2>1. r = LastReplica BY <1>1, <1>3, <1>6 DEF Replicas
  <2>2. LastReplica * (c - 1) + LastReplica = LastReplica * c BY <1>1, <1>3
  <2>3. LastReplica * (d - 1) + (s - 1) = LastReplica * c + 0
    <3>1. LastReplica * (c - 1) \in Int /\ LastReplica * (d - 1) \in Int /\ LastReplica * c \in Int
      BY <1>1, <1>3, <1>4
    <3> QED BY <3>1, <1>1, <1>2, <1>3, <2>1, <2>2
  <2>4. 0 \in 0..(LastReplica - 1) /\ c \in Nat BY <1>1, <1>3
  <2>5. d - 1 = c /\ s - 1 = 0
    <3>1. PICK zero \in 0..(LastReplica - 1) : zero = 0 BY <2>4
    <3>2. LastReplica * (d - 1) + (s - 1) = LastReplica * c + zero BY <2>3, <3>1
    <3>3. d - 1 = c /\ s - 1 = zero BY <3>2, <2>4, <1>4, DivisionUnique
    <3> QED BY <3>1, <3>3
  <2>6. s = 1 /\ d = c + 1 BY <2>5, <1>1, <1>2 DEF Replicas
  <2> QED BY <2>6, <1>6 DEF r, c, s, d
<1> QED BY <1>5, <1>6

\* How a unit moves the number of cycles behind each replica.
LEMMA BeforeNext ==
  ASSUME NEW k \in Nat \ {0}, NEW r \in Replicas
  PROVE  /\ CyclesBefore(k + 1, r) = IF r = ReplicaOf(k) THEN CycleOf(k) ELSE CyclesBefore(k, r)
         /\ CyclesBefore(k, ReplicaOf(k)) = CycleOf(k) - 1
         /\ CyclesBefore(k, r) \in Nat
<1>1. LastReplica \in Nat \ {0} BY SearchNumbers
<1>2. ReplicaOf(k) \in Replicas /\ CycleOf(k) \in Nat \ {0} BY PlanOf
<1> QED BY <1>1, <1>2, PlanNext DEF CyclesBefore, Replicas

\* Nothing precedes the first cycle.
LEMMA BeforeFirst ==
  ASSUME NEW r \in Replicas
  PROVE  CyclesBefore(1, r) = 0
<1>1. LastReplica \in Nat \ {0} BY SearchNumbers
<1>2. /\ ReplicaOf(1) \in Replicas /\ CycleOf(1) \in Nat \ {0}
      /\ 1 - 1 = LastReplica * (CycleOf(1) - 1) + (ReplicaOf(1) - 1)
  BY PlanOf
<1>3. CycleOf(1) - 1 = 0 /\ ReplicaOf(1) - 1 = 0
  <2>1. LastReplica * (CycleOf(1) - 1) + (ReplicaOf(1) - 1) = LastReplica * 0 + 0 BY <1>1, <1>2
  <2>2. /\ CycleOf(1) - 1 \in Nat /\ 0 \in Nat
        /\ ReplicaOf(1) - 1 \in 0..(LastReplica - 1) /\ 0 \in 0..(LastReplica - 1)
    BY <1>1, <1>2 DEF Replicas
  <2>3. PICK none \in Nat, zero \in 0..(LastReplica - 1) : none = 0 /\ zero = 0 BY <2>2
  <2>4. LastReplica * (CycleOf(1) - 1) + (ReplicaOf(1) - 1) = LastReplica * none + zero
    BY <2>1, <2>3
  <2>5. CycleOf(1) - 1 = none /\ ReplicaOf(1) - 1 = zero BY <2>2, <2>4, DivisionUnique
  <2> QED BY <2>3, <2>5
<1> QED BY <1>2, <1>3 DEF CyclesBefore, Replicas

\* A larger budget has no fewer units.
LEMMA UnitsGrow ==
  ASSUME NEW c \in Nat, NEW d \in Nat
  PROVE  /\ Units(c) \in Nat \ {0}
         /\ c <= d => Units(c) <= Units(d)
<1>1. LastReplica \in Nat BY SearchNumbers
<1>2. LastReplica * c \in Nat /\ LastReplica * d \in Nat BY <1>1
<1>3. ASSUME c < d PROVE LastReplica * c <= LastReplica * d BY <1>1, <1>2, <1>3, Shift
<1> QED BY <1>2, <1>3 DEF Units

\* A unit of the plan belongs to a cycle of its budget.
LEMMA CycleWithin ==
  ASSUME NEW c \in Nat, NEW k \in 1..(Units(c) - 1)
  PROVE  ReplicaOf(k) \in Replicas /\ CycleOf(k) \in 1..c
<1>1. LastReplica \in Nat \ {0} BY SearchNumbers
<1>2. LastReplica * c \in Nat BY <1>1
<1>3. k \in Nat \ {0} /\ k <= LastReplica * c BY <1>2 DEF Units
<1>4. /\ ReplicaOf(k) \in Replicas /\ CycleOf(k) \in Nat \ {0}
      /\ k - 1 = LastReplica * (CycleOf(k) - 1) + (ReplicaOf(k) - 1)
  BY <1>3, PlanOf
<1> DEFINE q == CycleOf(k) - 1
<1>5. q \in Nat /\ LastReplica * q \in Nat BY <1>1, <1>4
<1>6. LastReplica * q <= k - 1 BY <1>1, <1>4, <1>5 DEF Replicas
<1>7. ASSUME c < q PROVE FALSE
  <2>1. LastReplica * c + LastReplica <= LastReplica * q BY <1>5, <1>7, Shift
  <2> QED BY <2>1, <1>1, <1>2, <1>3, <1>5, <1>6
<1>8. c # q BY <1>2, <1>3, <1>5, <1>6
<1> QED BY <1>4, <1>5, <1>7, <1>8

-----------------------------------------------------------------------------
(* The invariant. *)

\* The memory of a new engine.
LEMMA FreshMemory == Fresh \in Memories
<1>1. \A c \in Nat : Units(c) \in Nat \ {0} BY UnitsGrow
<1>2. 0 \in 0..Units(MaxCycles) /\ 0 \in 0..MaxCycles BY <1>1, SearchNumbers
<1>3. <<>> \in Seq([replica : Replicas, md : Nat, measured : BOOLEAN]) OBVIOUS
<1> QED BY <1>2, <1>3 DEF Fresh, Memories

\* The memories of an engine, whatever its fields may be.
Memory(U, A, C, N, D, M, Q, T) ==
  [unit : U, active : A, count : C, current : N, md : D, mc : M, quenches : Q, time : T]

Quenches == Seq([replica : Replicas, md : Nat, measured : BOOLEAN])

\* The engine has such a memory.
LEMMA MemoriesAre ==
  Memories = Memory(0..Units(MaxCycles), [Replicas -> BOOLEAN], [Replicas -> 0..MaxCycles],
                    [Replicas -> Nat], [Replicas -> Nat], [Replicas -> Nat], Quenches, Nat)
BY DEF Memories, Memory, Quenches

\* A start, with whatever outcome, leaves the engine before the first cycle.
LEMMA StartMemory ==
  ASSUME NEW o \in [Replicas -> StartOutcomes]
  PROVE  /\ AfterStart(Fresh, o) \in Memories
         /\ AfterStart(Fresh, o).unit = 1
         /\ \A r \in Replicas : AfterStart(Fresh, o).count[r] = 0
         /\ Counted(AfterStart(Fresh, o))
<1> DEFINE U == 0..Units(MaxCycles)
           A == [Replicas -> BOOLEAN]
           C == [Replicas -> 0..MaxCycles]
           N == [Replicas -> Nat]
           Q == Quenches
<1> DEFINE active == [r \in Replicas |-> o[r] = "valid"]
           current == [r \in Replicas |-> IF o[r] = "valid" THEN 1 ELSE 0]
           quenches == [r \in Replicas |-> Quenched(Fresh, r, o[r])]
           m == AfterStart(Fresh, o)
<1>1. quenches \in Quenches
  <2> DEFINE Record == [replica : Replicas, md : Nat, measured : BOOLEAN]
  <2>1. \A r \in Replicas : Quenched(Fresh, r, o[r]) \in Record BY DEF Quenched, Fresh
  <2>2. Replicas = 1..LastReplica /\ LastReplica \in Nat BY SearchNumbers DEF Replicas
  <2>3. quenches \in [1..LastReplica -> Record] BY <2>1, <2>2
  <2> QED BY <2>2, <2>3, SeqDef DEF Quenches
<1>2. /\ 1 \in 0..Units(MaxCycles) /\ active \in [Replicas -> BOOLEAN]
      /\ current \in [Replicas -> Nat]
  BY UnitsGrow, SearchNumbers
<1>3. m = [Fresh EXCEPT !.unit = 1, !.active = active, !.current = current, !.quenches = quenches]
  BY Zenon DEF AfterStart
<1> HIDE DEF active, current, quenches, m
<1>4. m \in Memories /\ m.unit = 1 /\ m.count = Fresh.count
  <2>1. Memories = Memory(U, A, C, N, N, N, Q, Nat) /\ Fresh \in Memories
    BY FreshMemory, MemoriesAre
  <2>2. 1 \in U /\ active \in A /\ current \in N /\ quenches \in Q BY <1>1, <1>2
  <2> HIDE DEF U, A, C, N, Q
  <2> QED BY <2>1, <2>2, <1>3 DEF Memory
<1>5. \A r \in Replicas : m.count[r] = 0 BY <1>4 DEF Fresh
<1>6. Counted(m) BY <1>4, <1>5, BeforeFirst DEF Counted
<1> QED BY <1>4, <1>5, <1>6 DEF m

\* A cycle of replica r counts for r alone.
LEMMA CycleMemory ==
  ASSUME NEW m \in Memories, NEW r \in Replicas, NEW o \in CycleOutcomes,
         CycleOf(m.unit) \in 0..MaxCycles, m.unit + 1 <= Units(MaxCycles)
  PROVE  /\ AfterCycle(m, r, o) \in Memories
         /\ AfterCycle(m, r, o).unit = m.unit + 1
         /\ AfterCycle(m, r, o).active = m.active
         /\ AfterCycle(m, r, o).count = [m.count EXCEPT ![r] = CycleOf(m.unit)]
<1> DEFINE U == 0..Units(MaxCycles)
           A == [Replicas -> BOOLEAN]
           C == [Replicas -> 0..MaxCycles]
           N == [Replicas -> Nat]
           Q == Quenches
<1> DEFINE mc == IF o \in Eligible THEN m.mc[r] + 1 ELSE m.mc[r]
           current == IF o = "accepted" THEN m.md[r] + 2 ELSE m.current[r]
           quenches == IF o = "aborted" THEN m.quenches ELSE Append(m.quenches, Quenched(m, r, o))
           n == AfterCycle(m, r, o)
<1>1. n = [m EXCEPT !.unit = m.unit + 1, !.count[r] = CycleOf(m.unit), !.md[r] = m.md[r] + 1,
                    !.time = m.time + 1, !.mc[r] = mc, !.current[r] = current,
                    !.quenches = quenches]
  BY Zenon DEF AfterCycle
<1>2. Units(MaxCycles) \in Nat BY UnitsGrow, SearchNumbers
<1>3. /\ m.unit \in Nat /\ m.time \in Nat /\ m.count \in [Replicas -> 0..MaxCycles]
      /\ m.current \in [Replicas -> Nat] /\ m.md \in [Replicas -> Nat] /\ m.mc \in [Replicas -> Nat]
  BY <1>2 DEF Memories
<1>4. /\ m.unit + 1 \in 0..Units(MaxCycles) /\ m.time + 1 \in Nat
      /\ [m.count EXCEPT ![r] = CycleOf(m.unit)] \in [Replicas -> 0..MaxCycles]
  BY <1>2, <1>3
<1>5. mc \in Nat /\ current \in Nat /\ m.md[r] + 1 \in Nat /\ m.md[r] \in Nat BY <1>3
<1>6. quenches \in Quenches
  <2>1. m.quenches \in Quenches BY DEF Memories, Quenches
  <2>2. Quenched(m, r, o) \in [replica : Replicas, md : Nat, measured : BOOLEAN]
    BY <1>5 DEF Quenched
  <2> QED BY <2>1, <2>2, AppendProperties DEF Quenches
<1> HIDE DEF mc, current, quenches, n
<1>7. /\ [m.current EXCEPT ![r] = current] \in [Replicas -> Nat]
      /\ [m.md EXCEPT ![r] = m.md[r] + 1] \in [Replicas -> Nat]
      /\ [m.mc EXCEPT ![r] = mc] \in [Replicas -> Nat]
  BY <1>3, <1>5
<1>8. /\ n \in Memories /\ n.unit = m.unit + 1 /\ n.active = m.active
      /\ n.count = [m.count EXCEPT ![r] = CycleOf(m.unit)]
  <2>1. Memories = Memory(U, A, C, N, N, N, Q, Nat) BY MemoriesAre
  <2>2. /\ m.unit + 1 \in U /\ quenches \in Q /\ m.time + 1 \in Nat
        /\ [m.count EXCEPT ![r] = CycleOf(m.unit)] \in C
        /\ [m.current EXCEPT ![r] = current] \in N
        /\ [m.md EXCEPT ![r] = m.md[r] + 1] \in N /\ [m.mc EXCEPT ![r] = mc] \in N
    BY <1>4, <1>6, <1>7
  <2> DEFINE unit == m.unit + 1
             time == m.time + 1
             count == CycleOf(m.unit)
             md == m.md[r] + 1
             T == Nat
  <2>3. /\ m \in Memory(U, A, C, N, N, N, Q, T) /\ unit \in U /\ quenches \in Q /\ time \in T
        /\ [m.count EXCEPT ![r] = count] \in C /\ [m.current EXCEPT ![r] = current] \in N
        /\ [m.md EXCEPT ![r] = md] \in N /\ [m.mc EXCEPT ![r] = mc] \in N
    BY <2>1, <2>2
  <2>4. n = [m EXCEPT !.unit = unit, !.count[r] = count, !.md[r] = md, !.time = time,
                      !.mc[r] = mc, !.current[r] = current, !.quenches = quenches]
    BY <1>1
  <2> HIDE DEF U, A, C, N, Q, T, unit, time, count, md
  <2>5. /\ n \in Memory(U, A, C, N, N, N, Q, T)
        /\ n.unit = unit /\ n.active = m.active /\ n.count = [m.count EXCEPT ![r] = count]
    BY <2>3, <2>4 DEF Memory
  <2> QED BY <2>1, <2>5 DEF unit, count, T
<1> QED BY <1>8 DEF n

\* A unit of an active replica counts its cycle, that of another nothing.
LEMMA CountedNext ==
  ASSUME NEW m \in Memories, Counted(m), m.unit \in Nat \ {0},
         NEW n, n.unit = m.unit + 1, n.active = m.active,
         n.count = IF m.active[ReplicaOf(m.unit)]
                   THEN [m.count EXCEPT ![ReplicaOf(m.unit)] = CycleOf(m.unit)] ELSE m.count
  PROVE  Counted(n)
<1>1. m.count \in [Replicas -> 0..MaxCycles] BY DEF Memories
<1>2. ReplicaOf(m.unit) \in Replicas BY PlanOf
<1> SUFFICES ASSUME NEW r \in Replicas
             PROVE  n.count[r] = IF n.active[r] THEN CyclesBefore(n.unit, r) ELSE 0
  BY DEF Counted
<1>3. CyclesBefore(n.unit, r) =
        IF r = ReplicaOf(m.unit) THEN CycleOf(m.unit) ELSE CyclesBefore(m.unit, r)
  BY BeforeNext
<1>4. m.count[r] = IF m.active[r] THEN CyclesBefore(m.unit, r) ELSE 0 BY DEF Counted
<1> QED BY <1>1, <1>2, <1>3, <1>4

\* The next cycle of an active replica.
LEMMA InNext ==
  ASSUME NEW m, NEW r \in Replicas, NEW c
  PROVE  <<r, c>> \in NextCycles(m) <=> m.active[r] /\ c = m.count[r] + 1
BY DEF NextCycles

\* What holds of every process at work on the plan.
LEMMA Running ==
  ASSUME SearchInv, search.pc \in Engine
  PROVE  /\ memory \in Memories /\ memory.unit \in Nat
         /\ search.cycles \in Cycles /\ search.cycles \in Nat /\ search.cycles <= MaxCycles
         /\ budget.kind = "whole" /\ search.cycles = budget.cycles
         /\ search.id \in 1..MaxSessions
         /\ Units(search.cycles) \in Nat \ {0} /\ Units(search.cycles) <= Units(MaxCycles)
         /\ Units(MaxCycles) \in Nat
<1>1. /\ memory \in Memories /\ search.cycles \in Cycles /\ search.id \in 0..MaxSessions
  BY DEF SearchInv, SearchTypeOK
<1>2. search.cycles \in Nat /\ search.cycles <= MaxCycles /\ MaxCycles \in Nat
  BY <1>1, SearchNumbers DEF Cycles
<1>3. Units(MaxCycles) \in Nat /\ Units(search.cycles) <= Units(MaxCycles)
      /\ Units(search.cycles) \in Nat \ {0}
  BY <1>2, UnitsGrow
<1>4. memory.unit \in Nat BY <1>1, <1>3 DEF Memories
<1>5. budget.kind = "whole" /\ search.cycles = budget.cycles /\ search.id # 0
  BY DEF SearchInv, ProcessInv, Engine
<1> QED BY <1>1, <1>2, <1>3, <1>4, <1>5

\* A unit that is due is the turn of a replica in a cycle of the budget.
LEMMA DueUnit ==
  ASSUME SearchInv, search.pc \in {"unit", "cycle"}, Due
  PROVE  /\ memory.unit \in Nat \ {0} /\ memory.unit + 1 \in 1..Units(search.cycles)
         /\ ReplicaOf(memory.unit) \in Replicas
         /\ CycleOf(memory.unit) \in 1..search.cycles
         /\ CycleOf(memory.unit) \in Cycles /\ CycleOf(memory.unit) \in Nat \ {0}
         /\ Saved /\ saved.memory = memory /\ Counted(memory)
         /\ memory.active[ReplicaOf(memory.unit)] =>
              memory.count[ReplicaOf(memory.unit)] = CycleOf(memory.unit) - 1
<1>1. search.pc \in Engine BY DEF Engine
<1>2. /\ Units(search.cycles) \in Nat \ {0} /\ search.cycles \in Nat /\ search.cycles <= MaxCycles
  BY <1>1, Running
<1>3. memory.unit \in 1..(Units(search.cycles) - 1) BY DEF Due
<1>4. memory.unit \in Nat \ {0} /\ memory.unit + 1 \in 1..Units(search.cycles) BY <1>2, <1>3
<1>5. ReplicaOf(memory.unit) \in Replicas /\ CycleOf(memory.unit) \in 1..search.cycles
  BY <1>2, <1>3, CycleWithin
<1>6. CycleOf(memory.unit) \in Cycles /\ CycleOf(memory.unit) \in Nat \ {0}
  BY <1>2, <1>5, SearchNumbers DEF Cycles
<1>7. Saved /\ saved.memory = memory BY <1>4 DEF SearchInv, EngineInv
<1>8. Counted(memory) BY <1>7 DEF SearchInv, BudgetInv
<1>9. CyclesBefore(memory.unit, ReplicaOf(memory.unit)) = CycleOf(memory.unit) - 1
  BY <1>4, <1>5, BeforeNext
<1> QED BY <1>4, <1>5, <1>6, <1>7, <1>8, <1>9 DEF Counted

\* It holds of an empty directory.
LEMMA SearchInitInv == SearchInit => SearchInv
<1> SUFFICES ASSUME SearchInit PROVE SearchInv OBVIOUS
<1>1. FirstCycles \in Cycles /\ 0 \in 0..MaxSessions /\ 0 \in 0..MaxCycles
  BY SearchNumbers DEF Cycles
<1>2. SearchTypeOK
  <2>1. search \in [pc : SearchEnded, id : 0..MaxSessions, cycles : Cycles, extend : BOOLEAN]
    BY <1>1 DEF SearchInit, SearchEnded
  <2>2. budget \in [kind : {"none", "torn", "whole"}, cycles : Nat, extensions : Seq(Cycles)]
    BY <<>> \in Seq(Cycles) DEF SearchInit
  <2>3. rawFiles \in [Replicas -> [Cycles -> SUBSET (1..MaxSessions)]] BY DEF SearchInit
  <2>4. Nothing \in Founds /\ found \in Founds /\ folders \in BOOLEAN
    BY DEF SearchInit, Founds
  <2>5. history \in [0..MaxCycles -> [found : Founds, folders : BOOLEAN]]
    BY <2>4 DEF SearchInit
  <2>6. memory \in Memories /\ saved = NoSearch BY FreshMemory DEF SearchInit
  <2> QED BY <2>1, <2>2, <2>3, <2>4, <2>5, <2>6 DEF SearchTypeOK
<1>3. ProcessInv BY DEF SearchInit, ProcessInv, Engine, Extending
<1>4. BudgetInv BY DEF SearchInit, BudgetInv, Saved, NoSearch
<1>5. ResultsInv BY DEF SearchInit, ResultsInv, Nothing
<1>6. EngineInv BY DEF SearchInit, EngineInv, Extending, Saved, NoSearch
<1>7. RawInv BY DEF SearchInit, RawInv, Saved, NoSearch
<1> QED BY <1>2, <1>3, <1>4, <1>5, <1>6, <1>7 DEF SearchInv

\* The first process finds an empty directory.
LEMMA RunSearchKeeps ==
  ASSUME SearchInv, RunSearch
  PROVE  SearchInv'
<1> USE DEF SearchInv
<1>t. SearchTypeOK'
  BY FreshMemory, SearchNumbers DEF RunSearch, SearchTypeOK, directory, StartSearch, Cycles
<1>p. ProcessInv'
  BY DEF RunSearch, ProcessInv, Engine, Extending, directory, SearchTypeOK, StartSearch, Cycles,
         Whole, Nothing
<1>b. BudgetInv'
  BY DEF RunSearch, BudgetInv, Saved, BudgetBefore, Counted, directory, StartSearch
<1>r. ResultsInv'
  BY DEF RunSearch, ResultsInv, ProcessInv, BudgetInv, Engine, Extending, Founds, directory,
         StartSearch
<1>e. EngineInv'
  BY DEF RunSearch, EngineInv, Extending, StartSearch
<1>x. RawInv'
  BY DEF RunSearch, RawInv, RawBut, OneFile, Saved, NextCycles, directory, StartSearch
<1> QED BY <1>t, <1>p, <1>b, <1>r, <1>e, <1>x

\* A resume takes the budget of a whole run_context.json.
LEMMA ResumeSearchKeeps ==
  ASSUME SearchInv, ResumeSearch
  PROVE  SearchInv'
<1> USE DEF SearchInv
<1>t. SearchTypeOK'
  BY FreshMemory, SearchNumbers DEF ResumeSearch, SearchTypeOK, directory, StartSearch, BudgetInv
<1>p. ProcessInv'
  BY DEF ResumeSearch, ProcessInv, Extending, SearchGoto, SearchAt, directory, SearchTypeOK,
         SearchEnded, StartSearch, Cycles, Whole
<1>b. BudgetInv'
  BY DEF ResumeSearch, BudgetInv, Saved, BudgetBefore, Counted, directory, SearchTypeOK,
         StartSearch
<1>r. ResultsInv'
  BY DEF ResumeSearch, ResultsInv, Saved, BudgetBefore, ProcessInv, BudgetInv, Engine, Extending,
         Founds, directory, StartSearch
<1>e. EngineInv'
  BY DEF ResumeSearch, EngineInv, Extending, StartSearch
<1>x. RawInv'
  BY DEF ResumeSearch, RawInv, RawBut, OneFile, Saved, NextCycles, directory, StartSearch
<1> QED BY <1>t, <1>p, <1>b, <1>r, <1>e, <1>x

\* An extension asks for more cycles than the whole results have.
LEMMA ExtendSearchKeeps ==
  ASSUME SearchInv, ExtendSearch
  PROVE  SearchInv'
<1> USE DEF SearchInv
<1>t. SearchTypeOK'
  BY FreshMemory, SearchNumbers DEF ExtendSearch, SearchTypeOK, directory, StartSearch, Cycles
<1>p. ProcessInv'
  BY DEF ExtendSearch, ProcessInv, Engine, SearchGoto, SearchAt, directory, SearchTypeOK,
         SearchEnded, StartSearch, Cycles, Torn
<1>b. BudgetInv'
  BY DEF ExtendSearch, BudgetInv, Saved, BudgetBefore, directory, SearchTypeOK, StartSearch
<1>r. ResultsInv'
  BY DEF ExtendSearch, ResultsInv, Saved, BudgetBefore, ProcessInv, BudgetInv, Engine, Extending,
         Nothing, Torn, Whole, Founds, directory, SearchTypeOK, StartSearch
<1>e. EngineInv'
  BY DEF ExtendSearch, EngineInv, Due, ProcessInv, Engine, Extending, SearchGoto, SearchAt,
         StartSearch
<1>x. RawInv'
  BY DEF ExtendSearch, RawInv, RawBut, OneFile, Saved, NextCycles, directory, StartSearch
<1> QED BY <1>t, <1>p, <1>b, <1>r, <1>e, <1>x

\* The budget of the first run is recorded before anything else.
LEMMA CreateContextKeeps ==
  ASSUME SearchInv, CreateContext
  PROVE  SearchInv'
<1> USE DEF SearchInv
<1>0. /\ search.cycles \in Nat /\ search.cycles = FirstCycles /\ search.cycles \in Cycles
      /\ budget.kind = "none" /\ memory = Fresh /\ search.id # 0
      /\ ~Saved /\ found = Nothing /\ memory.unit = 0
  BY SearchNumbers DEF CreateContext, SearchTypeOK, ProcessInv, BudgetInv, SearchAt, Fresh
<1>t. SearchTypeOK'
  <2>1. budget' \in [kind : {"none", "torn", "whole"}, cycles : Nat, extensions : Seq(Cycles)]
    BY <1>0, <<>> \in Seq(Cycles) DEF CreateContext
  <2> QED BY <2>1 DEF CreateContext, SearchTypeOK, SearchGoto, SearchAt
<1>p. ProcessInv'
  BY DEF CreateContext, ProcessInv, Extending, SearchGoto, SearchAt
<1>b. BudgetInv'
  <2>1. budget'.kind = "whole" /\ budget'.extensions = <<>> /\ budget'.cycles = search.cycles
    BY DEF CreateContext
  <2>2. Len(budget'.extensions) = 0 BY <2>1
  <2>3. search.cycles > 0 BY <1>0, SearchNumbers
  <2> QED BY <2>1, <2>2, <2>3, <1>0 DEF CreateContext, BudgetInv, BudgetBefore, Saved
<1>r. ResultsInv'
  BY <1>0 DEF CreateContext, ResultsInv, SearchGoto, Nothing
<1>e. EngineInv'
  BY <1>0 DEF CreateContext, EngineInv, Extending, SearchGoto, SearchTypeOK, Saved
<1>x. RawInv'
  BY <1>0 DEF CreateContext, RawInv, SearchGoto, Saved
<1> QED BY <1>t, <1>p, <1>b, <1>r, <1>e, <1>x

\* What does not fit the checkpoint leaves the directory as it is.
LEMMA LoadCheckpointKeeps ==
  ASSUME SearchInv, LoadCheckpoint
  PROVE  SearchInv'
<1> USE DEF SearchInv
<1>t. SearchTypeOK'
  BY DEF LoadCheckpoint, SearchTypeOK, SearchGoto, directory, SearchEnded
<1>p. ProcessInv'
  <2>1. search' = [search EXCEPT !.pc = search'.pc] /\ search'.pc \in {"left", "archive", "restore"}
    BY DEF LoadCheckpoint, SearchGoto, SearchTypeOK
  <2>2. budget.kind = "whole" /\ UNCHANGED budget /\ search.id # 0
    BY DEF LoadCheckpoint, ProcessInv, SearchAt, directory
  <2>3. search'.pc = "archive" => search.extend
    BY DEF LoadCheckpoint, SearchGoto, SearchTypeOK
  <2>4. search'.pc = "restore" => ~search.extend
    <3>1. SUFFICES ASSUME search'.pc = "restore", search.extend PROVE FALSE
      BY DEF SearchTypeOK
    <3>2. Saved /\ ~(search.cycles > saved.cycles)
      BY <3>1 DEF LoadCheckpoint, SearchGoto, SearchTypeOK, Saved
    <3>3. search.cycles > budget.cycles /\ saved.cycles <= budget.cycles
      BY <3>1, <3>2 DEF LoadCheckpoint, SearchAt, ProcessInv, BudgetInv
    <3>4. saved.cycles \in Int /\ search.cycles \in Int /\ budget.cycles \in Int
      BY <3>2 DEF SearchTypeOK, Saved, Cycles
    <3> QED BY <3>2, <3>3, <3>4
  <2> QED BY <2>1, <2>2, <2>3, <2>4 DEF LoadCheckpoint, ProcessInv, SearchAt, Engine, Extending,
                                        SearchTypeOK
<1>b. BudgetInv'
  BY DEF LoadCheckpoint, BudgetInv, Saved, BudgetBefore, Counted, SearchGoto, SearchAt,
         directory, SearchTypeOK
<1>r. ResultsInv'
  BY DEF LoadCheckpoint, ResultsInv, Saved, BudgetBefore, Engine, Extending, Nothing, Torn,
         Whole, SearchGoto, SearchAt, directory
<1>e. EngineInv'
  BY DEF LoadCheckpoint, EngineInv, Saved, Engine, Extending, SearchGoto, SearchAt, directory
<1>x. RawInv'
  BY DEF LoadCheckpoint, RawInv, RawBut, OneFile, Saved, NextCycles, SearchGoto, directory
<1> QED BY <1>t, <1>p, <1>b, <1>r, <1>e, <1>x

\* The results of the old budget move into the history of this extension.
LEMMA ArchiveResultsKeeps ==
  ASSUME SearchInv, ArchiveResults
  PROVE  SearchInv'
<1> USE DEF SearchInv
<1>0. /\ budget.extensions \in Seq(Cycles) /\ Len(budget.extensions) \in Nat
      /\ budget.cycles \in Cycles /\ budget.kind # "none" /\ budget.cycles \in Nat
      /\ ThisExtension \in 0..MaxCycles /\ ThisExtension \notin DOMAIN budget.extensions
      /\ ThisExtension = Len(budget.extensions) + 1
      /\ \A k \in DOMAIN budget.extensions : k \in 0..MaxCycles
      /\ search.cycles > budget.cycles /\ search.id # 0
  <2>1. budget.extensions \in Seq(Cycles) /\ Len(budget.extensions) \in Nat /\ budget.cycles \in Nat
    BY DEF SearchTypeOK
  <2>2. budget.kind # "none" /\ search.cycles > budget.cycles /\ search.id # 0
    BY DEF ArchiveResults, ProcessInv, SearchAt, Extending
  <2>3. budget.cycles \in Cycles /\ budget.cycles > Len(budget.extensions)
    BY <2>2 DEF BudgetInv
  <2> QED BY <2>1, <2>2, <2>3, SearchNumbers DEF ThisExtension, Cycles
<1>t. SearchTypeOK'
  <2>1. history' \in [0..MaxCycles -> [found : Founds, folders : BOOLEAN]]
    <3>1. history[ThisExtension] \in [found : Founds, folders : BOOLEAN] /\ found \in Founds
      BY <1>0 DEF SearchTypeOK
    <3>2. [history[ThisExtension] EXCEPT !.found = found] \in [found : Founds, folders : BOOLEAN]
      BY <3>1
    <3>3. \/ UNCHANGED history
          \/ history' = [history EXCEPT ![ThisExtension] = [history[ThisExtension] EXCEPT !.found = found]]
      BY DEF ArchiveResults
    <3> QED BY <3>2, <3>3 DEF SearchTypeOK
  <2>2. found' \in Founds BY DEF ArchiveResults, SearchTypeOK, Founds
  <2> QED BY <2>1, <2>2 DEF ArchiveResults, SearchTypeOK, SearchGoto, SearchAt
<1>p. ProcessInv'
  BY DEF ArchiveResults, ProcessInv, Engine, Extending, SearchGoto, SearchAt
<1>b. BudgetInv'
  BY DEF ArchiveResults, BudgetInv, Saved, BudgetBefore, Counted, SearchGoto, SearchAt
<1>r. ResultsInv'
  <2>1. found = Whole(budget.cycles) /\ folders /\ found # Nothing
    BY DEF ArchiveResults, SearchAt, ResultsInv, Whole, Nothing
  <2>2. found' = Nothing /\ folders' /\ search'.pc = "folders" /\ UNCHANGED <<budget, saved>>
    BY <2>1 DEF ArchiveResults, SearchTypeOK, SearchGoto
  <2>3. /\ history'[ThisExtension].found = Whole(budget.cycles)
        /\ \A k \in DOMAIN budget.extensions : history'[k] = history[k]
    <3>1. /\ history[ThisExtension] \in [found : Founds, folders : BOOLEAN]
          /\ DOMAIN history = 0..MaxCycles
      BY <1>0 DEF SearchTypeOK
    <3>2. history' = [history EXCEPT ![ThisExtension] = [history[ThisExtension] EXCEPT !.found = found]]
      BY <2>1 DEF ArchiveResults
    <3>3. history'[ThisExtension] = [history[ThisExtension] EXCEPT !.found = found]
      BY <3>1, <3>2, <1>0
    <3>4. history'[ThisExtension].found = found BY <3>1, <3>3
    <3>5. \A k \in DOMAIN budget.extensions : history'[k] = history[k]
      BY <3>1, <3>2, <1>0
    <3> QED BY <2>1, <3>4, <3>5
  <2>4. UNCHANGED ThisExtension /\ \A k : UNCHANGED BudgetBefore(k)
    BY <2>2 DEF ThisExtension, BudgetBefore
  <2>5. found'.kind # "whole" BY <2>2 DEF Nothing
  <2> QED BY <2>2, <2>3, <2>4, <2>5, <1>0 DEF ResultsInv
<1>e. EngineInv'
  BY DEF ArchiveResults, EngineInv, Saved, Extending, SearchGoto, SearchAt
<1>x. RawInv'
  BY DEF ArchiveResults, RawInv, RawBut, OneFile, Saved, NextCycles, SearchGoto, SearchAt
<1> QED BY <1>t, <1>p, <1>b, <1>r, <1>e, <1>x

\* So do its folders, unless an earlier attempt has left some there.
LEMMA ArchiveFoldersKeeps ==
  ASSUME SearchInv, ArchiveFolders
  PROVE  SearchInv'
<1> USE DEF SearchInv
<1>0. /\ budget.extensions \in Seq(Cycles) /\ Len(budget.extensions) \in Nat
      /\ budget.cycles \in Cycles /\ budget.kind # "none" /\ budget.cycles \in Nat
      /\ ThisExtension \in 0..MaxCycles /\ ThisExtension \notin DOMAIN budget.extensions
      /\ ThisExtension = Len(budget.extensions) + 1
      /\ \A k \in DOMAIN budget.extensions : k \in 0..MaxCycles
      /\ search.cycles > budget.cycles /\ search.id # 0
  <2>1. budget.extensions \in Seq(Cycles) /\ Len(budget.extensions) \in Nat /\ budget.cycles \in Nat
    BY DEF SearchTypeOK
  <2>2. budget.kind # "none" /\ search.cycles > budget.cycles /\ search.id # 0
    BY DEF ArchiveFolders, ProcessInv, SearchAt, Extending
  <2>3. budget.cycles \in Cycles /\ budget.cycles > Len(budget.extensions)
    BY <2>2 DEF BudgetInv
  <2> QED BY <2>1, <2>2, <2>3, SearchNumbers DEF ThisExtension, Cycles
<1>t. SearchTypeOK'
  <2>1. history' \in [0..MaxCycles -> [found : Founds, folders : BOOLEAN]]
    <3>1. history[ThisExtension] \in [found : Founds, folders : BOOLEAN] /\ folders \in BOOLEAN
      BY <1>0 DEF SearchTypeOK
    <3>2. [history[ThisExtension] EXCEPT !.folders = @ \/ folders] \in [found : Founds, folders : BOOLEAN]
      BY <3>1
    <3>3. \/ UNCHANGED history
          \/ history' = [history EXCEPT ![ThisExtension] =
                           [history[ThisExtension] EXCEPT !.folders = @ \/ folders]]
      BY DEF ArchiveFolders
    <3> QED BY <3>2, <3>3 DEF SearchTypeOK
  <2>2. /\ search' \in {[search EXCEPT !.pc = "left"], [search EXCEPT !.pc = "openContext"]}
        /\ UNCHANGED <<memory, saved, budget, rawFiles, found>>
    BY DEF ArchiveFolders, SearchGoto
  <2>3. folders' \in BOOLEAN BY DEF ArchiveFolders, SearchTypeOK
  <2> QED BY <2>1, <2>2, <2>3 DEF SearchTypeOK, SearchEnded
<1>p. ProcessInv'
  BY DEF ArchiveFolders, ProcessInv, Engine, Extending, SearchGoto, SearchAt, SearchTypeOK
<1>b. BudgetInv'
  BY DEF ArchiveFolders, BudgetInv, Saved, BudgetBefore, Counted, SearchGoto, SearchAt,
         SearchTypeOK
<1>r. ResultsInv'
  <2>1. found = Nothing /\ folders /\ history[ThisExtension].found = Whole(budget.cycles)
    BY DEF ArchiveFolders, SearchAt, ResultsInv
  <2>2. found' = Nothing /\ search'.pc \in {"left", "openContext"} /\ UNCHANGED <<budget, saved>>
    BY <2>1 DEF ArchiveFolders, SearchTypeOK, SearchGoto
  <2>3. \A k \in DOMAIN budget.extensions : history'[k] = history[k]
    BY <1>0 DEF ArchiveFolders, SearchTypeOK
  <2>4. search'.pc = "openContext" =>
          history'[ThisExtension].found = Whole(budget.cycles) /\ history'[ThisExtension].folders
    <3> SUFFICES ASSUME search'.pc = "openContext"
                 PROVE  /\ history'[ThisExtension].found = Whole(budget.cycles)
                        /\ history'[ThisExtension].folders
      OBVIOUS
    <3>1. /\ history[ThisExtension] \in [found : Founds, folders : BOOLEAN]
          /\ DOMAIN history = 0..MaxCycles
      BY <1>0 DEF SearchTypeOK
    <3>2. history' = [history EXCEPT ![ThisExtension] =
                        [history[ThisExtension] EXCEPT !.folders = @ \/ folders]]
      BY DEF ArchiveFolders, SearchGoto, SearchTypeOK
    <3>3. history'[ThisExtension] = [history[ThisExtension] EXCEPT !.folders = @ \/ folders]
      BY <3>1, <3>2, <1>0
    <3> QED BY <2>1, <3>1, <3>3
  <2>5. UNCHANGED ThisExtension /\ \A k : UNCHANGED BudgetBefore(k)
    BY <2>2 DEF ThisExtension, BudgetBefore
  <2>6. found'.kind # "whole" BY <2>2 DEF Nothing
  <2> QED BY <2>2, <2>3, <2>4, <2>5, <2>6, <1>0 DEF ResultsInv
<1>e. EngineInv'
  BY DEF ArchiveFolders, EngineInv, Saved, Extending, SearchGoto, SearchAt, SearchTypeOK
<1>x. RawInv'
  <2>1. search'.pc \in {"left", "openContext"} /\ UNCHANGED <<saved, rawFiles>>
    BY DEF ArchiveFolders, SearchTypeOK, SearchGoto
  <2> QED BY <2>1 DEF RawInv, RawBut, OneFile, Saved
<1> QED BY <1>t, <1>p, <1>b, <1>r, <1>e, <1>x

\* From here on the budget is torn, until it is recorded.
LEMMA OpenContextKeeps ==
  ASSUME SearchInv, OpenContext
  PROVE  SearchInv'
<1> USE DEF SearchInv
<1>0. /\ budget.extensions \in Seq(Cycles) /\ Len(budget.extensions) \in Nat
      /\ budget.cycles \in Cycles /\ budget.kind # "none" /\ budget.cycles \in Nat
      /\ ThisExtension \in 0..MaxCycles /\ ThisExtension \notin DOMAIN budget.extensions
      /\ ThisExtension = Len(budget.extensions) + 1
      /\ \A k \in DOMAIN budget.extensions : k \in 0..MaxCycles
      /\ search.cycles > budget.cycles /\ search.id # 0
  <2>1. budget.extensions \in Seq(Cycles) /\ Len(budget.extensions) \in Nat /\ budget.cycles \in Nat
    BY DEF SearchTypeOK
  <2>2. budget.kind # "none" /\ search.cycles > budget.cycles /\ search.id # 0
    BY DEF OpenContext, ProcessInv, SearchAt, Extending
  <2>3. budget.cycles \in Cycles /\ budget.cycles > Len(budget.extensions)
    BY <2>2 DEF BudgetInv
  <2> QED BY <2>1, <2>2, <2>3, SearchNumbers DEF ThisExtension, Cycles
<1>t. SearchTypeOK'
  BY DEF OpenContext, SearchTypeOK, SearchGoto
<1>p. ProcessInv'
  BY DEF OpenContext, ProcessInv, Engine, Extending, SearchGoto, SearchAt
<1>b. BudgetInv'
  <2>1. /\ budget'.cycles = budget.cycles /\ budget'.extensions = budget.extensions
        /\ budget'.kind = "torn" /\ UNCHANGED saved
    BY DEF OpenContext, SearchTypeOK
  <2>2. \A k : UNCHANGED BudgetBefore(k) BY <2>1 DEF BudgetBefore
  <2> QED BY <2>1, <2>2, <1>0 DEF BudgetInv, Saved, Counted
<1>r. ResultsInv'
  <2>1. found = Nothing /\ history[ThisExtension].found = Whole(budget.cycles)
        /\ history[ThisExtension].folders
    BY DEF OpenContext, SearchAt, ResultsInv
  <2>2. /\ found' = Nothing /\ search'.pc = "record" /\ UNCHANGED history
        /\ budget'.cycles = budget.cycles /\ budget'.extensions = budget.extensions
    BY <2>1 DEF OpenContext, SearchTypeOK, SearchGoto
  <2>3. UNCHANGED ThisExtension /\ \A k : UNCHANGED BudgetBefore(k)
    BY <2>2 DEF ThisExtension, BudgetBefore
  <2>4. found'.kind # "whole" BY <2>2 DEF Nothing
  <2> QED BY <2>1, <2>2, <2>3, <2>4 DEF ResultsInv
<1>e. EngineInv'
  BY DEF OpenContext, EngineInv, Saved, Extending, SearchGoto, SearchAt
<1>x. RawInv'
  BY DEF OpenContext, RawInv, RawBut, OneFile, Saved, NextCycles, SearchGoto, SearchAt
<1> QED BY <1>t, <1>p, <1>b, <1>r, <1>e, <1>x

\* The extension is recorded when its history is complete.
LEMMA RecordExtensionKeeps ==
  ASSUME SearchInv, RecordExtension
  PROVE  SearchInv'
<1> USE DEF SearchInv
<1>0. /\ budget.extensions \in Seq(Cycles) /\ Len(budget.extensions) \in Nat
      /\ budget.cycles \in Cycles /\ budget.kind # "none" /\ budget.cycles \in Nat
      /\ ThisExtension \in 0..MaxCycles /\ ThisExtension \notin DOMAIN budget.extensions
      /\ ThisExtension = Len(budget.extensions) + 1
      /\ \A k \in DOMAIN budget.extensions : k \in 0..MaxCycles
      /\ search.cycles > budget.cycles /\ search.id # 0
  <2>1. budget.extensions \in Seq(Cycles) /\ Len(budget.extensions) \in Nat /\ budget.cycles \in Nat
    BY DEF SearchTypeOK
  <2>2. budget.kind # "none" /\ search.cycles > budget.cycles /\ search.id # 0
    BY DEF RecordExtension, ProcessInv, SearchAt, Extending
  <2>3. budget.cycles \in Cycles /\ budget.cycles > Len(budget.extensions)
    BY <2>2 DEF BudgetInv
  <2> QED BY <2>1, <2>2, <2>3, SearchNumbers DEF ThisExtension, Cycles
<1>1. /\ budget'.kind = "whole" /\ budget'.cycles = search.cycles
      /\ budget'.extensions = Append(budget.extensions, search.cycles)
      /\ search' = [search EXCEPT !.pc = "restore"] /\ search'.pc = "restore"
      /\ UNCHANGED <<memory, saved, rawFiles, found, folders, history>>
  BY DEF RecordExtension, SearchGoto, SearchTypeOK
<1>n. PICK n \in Nat : n = Len(budget.extensions) /\ n + 1 = ThisExtension BY <1>0
<1>2. /\ search.cycles \in Cycles /\ budget'.extensions \in Seq(Cycles)
      /\ Len(budget'.extensions) = n + 1
      /\ DOMAIN budget.extensions = 1..n
      /\ DOMAIN budget'.extensions = 1..(n + 1)
      /\ budget'.extensions[n + 1] = search.cycles
      /\ \A k \in 1..n : budget'.extensions[k] = budget.extensions[k]
  <2>1. search.cycles \in Cycles BY DEF SearchTypeOK
  <2> QED BY <2>1, <1>0, <1>1, <1>n, AppendProperties
<1>3. /\ \A k \in 1..(n + 1) : BudgetBefore(k)' = BudgetBefore(k)
      /\ BudgetBefore(n + 2)' = search.cycles
  <2>1. \A k \in 1..(n + 1) : k # 1 => k - 1 \in 1..n BY <1>n
  <2>2. n + 2 # 1 /\ (n + 2) - 1 = n + 1 BY <1>n
  <2> QED BY <2>1, <2>2, <1>n, <1>2 DEF BudgetBefore
<1>4. found = Nothing /\ Saved
  BY DEF RecordExtension, SearchAt, ResultsInv, EngineInv, Extending
<1>t. SearchTypeOK'
  <2>1. budget' \in [kind : {"none", "torn", "whole"}, cycles : Nat, extensions : Seq(Cycles)]
    BY <1>1, <1>2 DEF RecordExtension, Cycles
  <2> QED BY <2>1, <1>1 DEF SearchTypeOK
<1>p. ProcessInv'
  BY DEF RecordExtension, ProcessInv, Extending, SearchGoto, SearchAt
<1>b. BudgetInv'
  <2>1. BudgetBefore(Len(budget.extensions) + 1)' = search.cycles
    <3>1. Len(budget'.extensions) + 1 = n + 2 BY <1>n, <1>2
    <3>2. BudgetBefore(Len(budget.extensions) + 1)' = BudgetBefore(n + 2)'
      BY <3>1 DEF BudgetBefore
    <3> QED BY <3>2, <1>3
  <2>2. search.cycles > Len(budget'.extensions)
    <3>1. budget.cycles > n BY <1>0, <1>n DEF BudgetInv
    <3> QED BY <3>1, <1>0, <1>n, <1>2 DEF Cycles
  <2>3. Saved => saved.cycles <= search.cycles
    BY <1>0, <1>2 DEF BudgetInv, Saved, SearchTypeOK, Cycles
  <2> QED BY <2>1, <2>2, <2>3, <1>1, <1>2 DEF BudgetInv, Saved, Counted
<1>r. ResultsInv'
  <2>1. history[n + 1] = [found |-> Whole(budget.cycles), folders |-> TRUE]
    BY <1>0, <1>n DEF RecordExtension, SearchAt, ResultsInv, SearchTypeOK
  <2>2. budget.cycles = BudgetBefore(n + 1) BY <1>0, <1>n DEF BudgetInv
  <2>3. \A k \in 1..(n + 1) : k \in DOMAIN budget.extensions \/ k = n + 1
    BY <1>n, <1>2
  <2>4. \A k \in DOMAIN budget'.extensions :
          history'[k] = [found |-> Whole(BudgetBefore(k)'), folders |-> TRUE]
    <3> SUFFICES ASSUME NEW k \in 1..(n + 1)
                 PROVE  history[k] = [found |-> Whole(BudgetBefore(k)), folders |-> TRUE]
      BY <1>1, <1>2, <1>3
    <3>1. CASE k \in DOMAIN budget.extensions BY <3>1 DEF ResultsInv
    <3>2. CASE k = n + 1 BY <3>2, <2>1, <2>2
    <3> QED BY <3>1, <3>2, <2>3
  <2> QED BY <2>4, <1>1, <1>4 DEF ResultsInv, Nothing, Whole
<1>e. EngineInv'
  BY <1>1, <1>4 DEF EngineInv, Saved
<1>x. RawInv' BY <1>1 DEF RawInv, RawBut, OneFile, Saved
<1> QED BY <1>t, <1>p, <1>b, <1>r, <1>e, <1>x

\* The engine takes the checkpoint and sets the raw files of an interrupted
\* cycle aside.
LEMMA RestoreKeeps ==
  ASSUME SearchInv, Restore
  PROVE  SearchInv'
<1> USE DEF SearchInv
<1>0. /\ Saved /\ saved.memory \in Memories /\ saved.cycles \in Nat /\ search.cycles \in Nat
      /\ budget.kind = "whole" /\ search.cycles = budget.cycles /\ saved.cycles <= search.cycles
      /\ saved.memory.unit \in 1..Units(saved.cycles) /\ search.id # 0
      /\ Units(saved.cycles) <= Units(search.cycles)
  <2>1. Saved /\ budget.kind = "whole" /\ search.cycles = budget.cycles /\ search.id # 0
    BY DEF Restore, SearchAt, EngineInv, ProcessInv
  <2>2. saved.memory \in Memories /\ saved.cycles \in Nat /\ search.cycles \in Nat
    BY <2>1 DEF SearchTypeOK, Saved, Cycles
  <2>3. saved.cycles <= search.cycles /\ saved.memory.unit \in 1..Units(saved.cycles)
    BY <2>1 DEF BudgetInv
  <2> QED BY <2>1, <2>2, <2>3, UnitsGrow
<1>1. /\ search' = [search EXCEPT !.pc = search'.pc] /\ search'.pc \in {"unit", "left"}
      /\ UNCHANGED <<saved, budget, found, folders, history>>
      /\ search'.pc = "unit" => memory' = saved.memory /\ SetAside(saved.memory)
      /\ search'.pc = "left" => UNCHANGED <<memory, rawFiles>>
  BY DEF Restore, SearchGoto, SearchTypeOK
<1>2. \A r \in Replicas, c \in Cycles : rawFiles'[r][c] \in {{}, rawFiles[r][c]}
  BY <1>1 DEF SetAside
<1>t. SearchTypeOK'
  <2>1. memory' \in Memories BY <1>0, <1>1 DEF SearchTypeOK
  <2>2. rawFiles' \in [Replicas -> [Cycles -> SUBSET (1..MaxSessions)]]
    BY <1>1 DEF SetAside, SearchTypeOK
  <2> QED BY <2>1, <2>2, <1>1 DEF SearchTypeOK, SearchEnded
<1>p. ProcessInv'
  BY DEF Restore, ProcessInv, Extending, SearchGoto, SearchAt, SearchTypeOK
<1>b. BudgetInv'
  BY DEF Restore, BudgetInv, Saved, BudgetBefore, Counted, SearchGoto, SearchAt, SearchTypeOK
<1>r. ResultsInv'
  BY DEF Restore, ResultsInv, Saved, BudgetBefore, Extending, Nothing, Torn, Whole, SearchGoto,
         SearchTypeOK
<1>e. EngineInv'
  <2>1. saved.memory.unit # 0 BY <1>0 DEF Memories
  <2> QED BY <2>1, <1>0, <1>1 DEF EngineInv, Saved, Extending
<1>x. RawInv'
  <2>1. CASE search'.pc = "left" BY <2>1, <1>0, <1>1 DEF RawInv, RawBut, OneFile, Saved
  <2>2. CASE search'.pc = "unit"
    <3>1. RawBut(saved.memory, NextCycles(saved.memory)) BY <1>0 DEF RawInv
    <3>2. ASSUME NEW r \in Replicas, NEW c \in Cycles
          PROVE  IF Counts(saved.memory, r, c) THEN OneFile(r, c)' ELSE rawFiles'[r][c] = {}
      <4>1. rawFiles'[r][c] = IF saved.memory.active[r] /\ c = saved.memory.count[r] + 1
                              THEN {} ELSE rawFiles[r][c]
        <5>1. SetAside(saved.memory) BY <2>2, <1>1
        <5> QED BY <5>1 DEF SetAside
      <4>2. saved.memory.count[r] \in Nat /\ c \in Nat BY <1>0 DEF Memories, Cycles
      <4>3. CASE Counts(saved.memory, r, c)
        <5>1. rawFiles'[r][c] = rawFiles[r][c] BY <4>1, <4>2, <4>3 DEF Counts
        <5>2. OneFile(r, c) BY <4>3, <3>1 DEF RawBut
        <5> QED BY <4>3, <5>1, <5>2 DEF OneFile
      <4>4. CASE ~Counts(saved.memory, r, c)
        BY <4>1, <4>2, <4>4, <3>1, InNext DEF RawBut
      <4> QED BY <4>3, <4>4
    <3>3. /\ RawBut(saved.memory, NextCycles(saved.memory))'
          /\ RawBut(memory, {})'
      BY <3>2, <2>2, <1>1 DEF RawBut, Counts
    <3> QED BY <3>3, <2>2, <1>0, <1>1 DEF RawInv, Saved
  <2> QED BY <2>1, <2>2, <1>1
<1> QED BY <1>t, <1>p, <1>b, <1>r, <1>e, <1>x

\* The start writes no raw directory of a cycle.
LEMMA RunStartKeeps ==
  ASSUME SearchInv, RunStart
  PROVE  SearchInv'
<1> USE DEF SearchInv
<1>0. /\ memory = Fresh /\ ~Saved /\ found = Nothing /\ search.id # 0
      /\ budget.kind = "whole" /\ search.cycles = budget.cycles
      /\ Units(search.cycles) \in Nat \ {0}
  BY Running DEF RunStart, SearchAt, EngineInv, Engine, ResultsInv
<1>1. PICK o \in [Replicas -> StartOutcomes] :
        /\ memory' = AfterStart(memory, o)
        /\ SearchGoto(IF \E r \in Replicas : o[r] = "valid" THEN "save" ELSE "left")
  BY Zenon DEF RunStart
<1>2. /\ memory' \in Memories /\ memory'.unit = 1 /\ Counted(memory)'
      /\ \A r \in Replicas : memory'.count[r] = 0
  BY <1>0, <1>1, StartMemory DEF Counted
<1>3. /\ search' = [search EXCEPT !.pc = search'.pc] /\ search'.pc \in {"save", "left"}
      /\ UNCHANGED <<saved, budget, rawFiles, found, folders, history>>
  BY <1>1 DEF RunStart, SearchGoto, SearchTypeOK, directory
<1>t. SearchTypeOK' BY <1>2, <1>3 DEF SearchTypeOK, SearchEnded
<1>p. ProcessInv' BY <1>0, <1>3 DEF ProcessInv, Engine, Extending, SearchTypeOK
<1>b. BudgetInv' BY <1>3 DEF BudgetInv, Saved, BudgetBefore, Counted
<1>r. ResultsInv'
  BY <1>0, <1>3 DEF ResultsInv, Saved, BudgetBefore, ThisExtension, Nothing
<1>e. EngineInv' BY <1>0, <1>2, <1>3 DEF EngineInv, Saved, Extending, SearchTypeOK
<1>x. RawInv'
  <2>1. \A r \in Replicas, c \in Cycles : rawFiles'[r][c] = {} /\ ~(c <= memory'.count[r])
    BY <1>0, <1>2, <1>3 DEF RawInv, Cycles
  <2>2. RawBut(memory, {})' BY <2>1 DEF RawBut, Counts
  <2> QED BY <2>1, <2>2, <1>0, <1>3 DEF RawInv, Saved
<1> QED BY <1>t, <1>p, <1>b, <1>r, <1>e, <1>x

\* The turn of a replica without a minimum counts nothing.
LEMMA SkipCycleKeeps ==
  ASSUME SearchInv, SkipCycle
  PROVE  SearchInv'
<1> USE DEF SearchInv
<1> USE DEF SkipCycle
<1>0. /\ search.pc = "unit" /\ Due /\ search.pc \in Engine BY DEF SearchAt, Engine
<1>1. /\ memory.unit \in Nat \ {0} /\ memory.unit + 1 \in 1..Units(search.cycles)
      /\ Saved /\ saved.memory = memory /\ Counted(memory)
      /\ memory \in Memories /\ ReplicaOf(memory.unit) \in Replicas
      /\ Units(search.cycles) \in Nat /\ Units(search.cycles) <= Units(MaxCycles)
      /\ Units(MaxCycles) \in Nat
  BY <1>0, DueUnit, Running
<1>2. /\ memory' = [memory EXCEPT !.unit = memory.unit + 1]
      /\ search' = [search EXCEPT !.pc = "save"] /\ search'.pc = "save"
      /\ UNCHANGED <<saved, budget, rawFiles, found, folders, history>>
  BY DEF AfterNothing, SearchGoto, SearchTypeOK, directory
<1>3. /\ memory' \in Memories /\ memory'.unit = memory.unit + 1
      /\ memory'.active = memory.active /\ memory'.count = memory.count
  <2>1. memory.unit + 1 \in 0..Units(MaxCycles) BY <1>1
  <2> QED BY <2>1, <1>1, <1>2 DEF Memories
<1>4. Counted(memory)'
  <2>1. ~memory.active[ReplicaOf(memory.unit)] OBVIOUS
  <2>2. Counted(memory') BY <2>1, <1>1, <1>3, CountedNext
  <2> QED BY <2>2 DEF Counted
<1>t. SearchTypeOK' BY <1>2, <1>3 DEF SearchTypeOK
<1>p. ProcessInv' BY <1>0, <1>2 DEF ProcessInv, Engine, Extending, SearchTypeOK
<1>b. BudgetInv' BY <1>2 DEF BudgetInv, Saved, BudgetBefore, Counted
<1>r. ResultsInv' BY <1>0, <1>2 DEF ResultsInv, Saved, BudgetBefore, ThisExtension
<1>e. EngineInv'
  <2>1. search'.cycles = search.cycles /\ memory'.unit \in 1..Units(search.cycles)
    BY <1>1, <1>2, <1>3 DEF SearchTypeOK
  <2> QED BY <2>1, <1>1, <1>2, <1>3, <1>4 DEF EngineInv, Saved, Extending
<1>x. RawInv'
  <2>1. RawBut(memory, {}) BY <1>0, <1>1 DEF RawInv
  <2>2. RawBut(memory, {})' BY <2>1, <1>2, <1>3 DEF RawBut, Counts, OneFile
  <2>3. RawBut(saved.memory, NextCycles(saved.memory))'
    BY <1>1, <1>2 DEF RawInv, RawBut, OneFile
  <2> QED BY <2>2, <2>3, <1>1, <1>2 DEF RawInv, Saved
<1> QED BY <1>t, <1>p, <1>b, <1>r, <1>e, <1>x

\* A cycle begins in an empty raw directory.
LEMMA BeginCycleKeeps ==
  ASSUME SearchInv, BeginCycle
  PROVE  SearchInv'
<1> USE DEF SearchInv
<1> DEFINE r == ReplicaOf(memory.unit)
           c == CycleOf(memory.unit)
<1>0. search.pc = "unit" /\ Due /\ search.pc \in Engine
  BY DEF BeginCycle, SearchAt, Engine
<1>1. /\ r \in Replicas /\ c \in Cycles /\ c \in Nat \ {0} /\ memory.unit \in Nat \ {0}
      /\ Saved /\ saved.memory = memory /\ memory \in Memories
      /\ memory.count[r] = c - 1 /\ memory.active[r]
      /\ search.id \in 1..MaxSessions
  BY <1>0, DueUnit, Running DEF BeginCycle
<1>2. /\ rawFiles' = [rawFiles EXCEPT ![r][c] = rawFiles[r][c] \cup {search.id}]
      /\ search' = [search EXCEPT !.pc = "cycle"] /\ search'.pc = "cycle"
      /\ UNCHANGED <<memory, saved, budget, found, folders, history>>
  BY DEF BeginCycle, SearchGoto, SearchTypeOK
<1>3. /\ rawFiles \in [Replicas -> [Cycles -> SUBSET (1..MaxSessions)]]
      /\ rawFiles'[r][c] = rawFiles[r][c] \cup {search.id}
      /\ \A q \in Replicas, d \in Cycles : <<q, d>> # <<r, c>> => rawFiles'[q][d] = rawFiles[q][d]
  BY <1>1, <1>2 DEF SearchTypeOK
<1>t. SearchTypeOK'
  <2>1. rawFiles[r][c] \cup {search.id} \in SUBSET (1..MaxSessions)
    BY <1>1, <1>3
  <2>2. rawFiles' \in [Replicas -> [Cycles -> SUBSET (1..MaxSessions)]]
    BY <2>1, <1>1, <1>2, <1>3
  <2> QED BY <2>2, <1>2 DEF SearchTypeOK
<1>p. ProcessInv' BY <1>0, <1>2 DEF ProcessInv, Engine, Extending, SearchTypeOK
<1>b. BudgetInv' BY <1>2 DEF BudgetInv, Saved, BudgetBefore, Counted
<1>r. ResultsInv' BY <1>0, <1>2 DEF ResultsInv, Saved, BudgetBefore, ThisExtension
<1>e. EngineInv'
  <2>1. search'.cycles = search.cycles BY <1>2 DEF SearchTypeOK
  <2> QED BY <2>1, <1>0, <1>1, <1>2 DEF EngineInv, Saved, Extending, Due
<1>x. RawInv'
  <2>1. RawBut(memory, {}) BY <1>0, <1>1 DEF RawInv
  <2>2. memory.count[r] \in Nat /\ ~Counts(memory, r, c)
    BY <1>1 DEF Counts, Memories
  <2>3. rawFiles[r][c] = {} BY <2>1, <2>2, <1>1 DEF RawBut
  <2>4. \E s \in 1..MaxSessions : rawFiles'[r][c] = {s} BY <2>3, <1>1, <1>3
  <2>5. ASSUME NEW near, <<r, c>> \in near
        PROVE  \A q \in Replicas, d \in Cycles :
                 IF Counts(memory, q, d) THEN OneFile(q, d)'
                 ELSE rawFiles'[q][d] = {} \/ (<<q, d>> \in near /\ OneFile(q, d)')
    <3> SUFFICES ASSUME NEW q \in Replicas, NEW d \in Cycles
                 PROVE  IF Counts(memory, q, d) THEN OneFile(q, d)'
                        ELSE rawFiles'[q][d] = {} \/ (<<q, d>> \in near /\ OneFile(q, d)')
      OBVIOUS
    <3>1. CASE <<q, d>> = <<r, c>>
      <4>1. q = r /\ d = c BY <3>1
      <4>2. \E s \in 1..MaxSessions : rawFiles'[q][d] = {s} BY <4>1, <2>4
      <4> QED BY <4>1, <4>2, <2>2, <2>5 DEF OneFile
    <3>2. CASE <<q, d>> # <<r, c>>
      <4>1. rawFiles'[q][d] = rawFiles[q][d] BY <3>2, <1>3
      <4> QED BY <4>1, <2>1 DEF RawBut, OneFile
    <3> QED BY <3>1, <3>2
  <2>6. <<r, c>> \in NextCycles(saved.memory)
    <3>1. c = saved.memory.count[r] + 1 BY <1>1
    <3> QED BY <3>1, <1>1, InNext
  <2>7. RawBut(saved.memory, NextCycles(saved.memory))'
    BY <2>5, <2>6, <1>1, <1>2 DEF RawBut, Counts
  <2>8. ThisCycle = <<r, c>> /\ ThisCycle' = <<r, c>> BY <1>2 DEF ThisCycle
  <2>9. RawBut(memory, {ThisCycle})' BY <2>5, <2>8, <1>2 DEF RawBut, Counts
  <2>10. OneFile(ThisCycle[1], ThisCycle[2])' BY <2>4, <2>8 DEF OneFile
  <2> QED BY <2>7, <2>9, <2>10, <1>1, <1>2 DEF RawInv, Saved
<1> QED BY <1>t, <1>p, <1>b, <1>r, <1>e, <1>x

\* The cycle that ends is the one whose directory has been written.
LEMMA EndCycleKeeps ==
  ASSUME SearchInv, EndCycle
  PROVE  SearchInv'
<1> USE DEF SearchInv
<1> DEFINE r == ReplicaOf(memory.unit)
           c == CycleOf(memory.unit)
<1>0. /\ search.pc = "cycle" /\ search.pc \in Engine /\ Due /\ memory.active[r]
  BY DEF EndCycle, SearchAt, Engine, EngineInv
<1>1. /\ memory.unit \in Nat \ {0} /\ memory.unit + 1 \in 1..Units(search.cycles)
      /\ r \in Replicas /\ c \in Cycles /\ c \in Nat \ {0}
      /\ Saved /\ saved.memory = memory /\ Counted(memory) /\ memory \in Memories
      /\ memory.count[r] = c - 1
      /\ Units(search.cycles) \in Nat /\ Units(search.cycles) <= Units(MaxCycles)
      /\ Units(MaxCycles) \in Nat
  BY <1>0, DueUnit, Running
<1>2. PICK o \in CycleOutcomes : memory' = AfterCycle(memory, r, o) BY DEF EndCycle
<1>3. /\ search' = [search EXCEPT !.pc = "save"] /\ search'.pc = "save"
      /\ UNCHANGED <<saved, budget, rawFiles, found, folders, history>>
  BY DEF EndCycle, SearchGoto, SearchTypeOK, directory
<1>4. /\ memory' \in Memories /\ memory'.unit = memory.unit + 1
      /\ memory'.active = memory.active /\ memory'.count = [memory.count EXCEPT ![r] = c]
  <2>1. c \in 0..MaxCycles /\ memory.unit + 1 <= Units(MaxCycles) BY <1>1 DEF Cycles
  <2> QED BY <2>1, <1>1, <1>2, CycleMemory
<1>5. Counted(memory)'
  <2>1. Counted(memory') BY <1>0, <1>1, <1>4, CountedNext
  <2> QED BY <2>1 DEF Counted
<1>t. SearchTypeOK' BY <1>3, <1>4 DEF SearchTypeOK
<1>p. ProcessInv' BY <1>0, <1>3 DEF ProcessInv, Engine, Extending, SearchTypeOK
<1>b. BudgetInv' BY <1>3 DEF BudgetInv, Saved, BudgetBefore, Counted
<1>r. ResultsInv' BY <1>0, <1>3 DEF ResultsInv, Saved, BudgetBefore, ThisExtension
<1>e. EngineInv'
  <2>1. search'.cycles = search.cycles /\ memory'.unit \in 1..Units(search.cycles)
    BY <1>1, <1>3, <1>4 DEF SearchTypeOK
  <2> QED BY <2>1, <1>1, <1>3, <1>4, <1>5 DEF EngineInv, Saved, Extending
<1>x. RawInv'
  <2>1. RawBut(memory, {ThisCycle}) /\ OneFile(r, c) BY <1>0 DEF RawInv, ThisCycle
  <2>2. memory.count \in [Replicas -> 0..MaxCycles] BY <1>1 DEF Memories
  <2>3. ASSUME NEW q \in Replicas, NEW d \in Cycles
        PROVE  IF d <= memory'.count[q] THEN OneFile(q, d) ELSE rawFiles[q][d] = {}
    <3>1. CASE q = r /\ d = c BY <3>1, <2>1, <2>2, <1>1, <1>4
    <3>2. CASE ~(q = r /\ d = c)
      <4>1. d <= memory'.count[q] <=> d <= memory.count[q]
        BY <3>2, <2>2, <1>1, <1>4 DEF Cycles
      <4>2. <<q, d>> \notin {ThisCycle} BY <3>2 DEF ThisCycle
      <4> QED BY <4>1, <4>2, <2>1 DEF RawBut, Counts
    <3> QED BY <3>1, <3>2
  <2>4. RawBut(memory, {})' BY <2>3, <1>3 DEF RawBut, Counts, OneFile
  <2>5. RawBut(saved.memory, NextCycles(saved.memory))'
    BY <1>1, <1>3 DEF RawInv, RawBut, OneFile
  <2> QED BY <2>4, <2>5, <1>1, <1>3 DEF RawInv, Saved
<1> QED BY <1>t, <1>p, <1>b, <1>r, <1>e, <1>x

\* A checkpoint is written for a unit beyond the one it replaces, so no
\* results are there.
LEMMA SaveCheckpointKeeps ==
  ASSUME SearchInv, SaveCheckpoint
  PROVE  SearchInv'
<1> USE DEF SearchInv
<1>0. /\ search.pc = "save" /\ search.pc \in Engine
      /\ memory.unit \in 1..Units(search.cycles) /\ Counted(memory)
      /\ Saved => saved.memory.unit < memory.unit
  BY DEF SaveCheckpoint, SearchAt, Engine, EngineInv
<1>1. /\ memory \in Memories /\ search.cycles \in Cycles /\ search.cycles \in Nat
      /\ budget.kind = "whole" /\ search.cycles = budget.cycles /\ search.id # 0
      /\ Units(search.cycles) \in Nat
  BY <1>0, Running
<1>2. /\ saved' = [kind |-> "checkpoint", cycles |-> search.cycles, memory |-> memory]
      /\ saved'.memory = memory /\ saved'.cycles = search.cycles /\ saved' # NoSearch
      /\ search' = [search EXCEPT !.pc = "unit"] /\ search'.pc = "unit"
      /\ UNCHANGED <<memory, budget, rawFiles, found, folders, history>>
  BY DEF SaveCheckpoint, SearchGoto, SearchTypeOK, NoSearch
<1>3. found = Nothing
  <2>1. SUFFICES ASSUME Saved, saved.memory.unit = Units(search.cycles) PROVE FALSE
    BY <1>1 DEF ResultsInv
  <2> QED BY <2>1, <1>0, <1>1
<1>t. SearchTypeOK' BY <1>1, <1>2 DEF SearchTypeOK
<1>p. ProcessInv' BY <1>0, <1>1, <1>2 DEF ProcessInv, Engine, Extending, SearchTypeOK
<1>b. BudgetInv'
  <2>1. saved'.cycles <= budget'.cycles /\ saved'.memory.unit \in 1..Units(saved'.cycles)
    BY <1>0, <1>1, <1>2
  <2>2. Counted(saved.memory)' BY <1>0, <1>2 DEF Counted
  <2> QED BY <2>1, <2>2, <1>1, <1>2 DEF BudgetInv, BudgetBefore
<1>r. ResultsInv' BY <1>2, <1>3 DEF ResultsInv, BudgetBefore, Nothing
<1>e. EngineInv'
  <2>1. memory.unit # 0 BY <1>0, <1>1
  <2> QED BY <2>1, <1>2 DEF EngineInv, Saved, Extending
<1>x. RawInv'
  <2>1. RawBut(memory, {}) BY <1>0 DEF RawInv
  <2>2. RawBut(memory, {})' /\ RawBut(saved.memory, NextCycles(saved.memory))'
    BY <2>1, <1>2 DEF RawBut, Counts, OneFile
  <2> QED BY <2>2, <1>2 DEF RawInv, Saved
<1> QED BY <1>t, <1>p, <1>b, <1>r, <1>e, <1>x

\* Results are built when the checkpoint has reached the budget.
LEMMA BuildResultsKeeps ==
  ASSUME SearchInv, BuildResults
  PROVE  SearchInv'
<1> USE DEF SearchInv
<1>0. /\ search.pc = "unit" /\ search.pc \in Engine /\ memory.unit >= Units(search.cycles)
  BY DEF BuildResults, SearchAt, Engine
<1>1. /\ search.cycles \in Nat /\ budget.kind = "whole" /\ search.cycles = budget.cycles
      /\ Units(search.cycles) \in Nat \ {0} /\ memory.unit \in Nat /\ search.id # 0
  BY <1>0, Running
<1>2. Saved /\ saved.memory = memory
  <2>1. memory.unit # 0 BY <1>0, <1>1
  <2> QED BY <2>1, <1>0 DEF EngineInv
<1>3. memory.unit = Units(search.cycles)
  <2>1. /\ saved.cycles <= search.cycles /\ memory.unit \in 1..Units(saved.cycles)
        /\ saved.cycles \in Nat
    BY <1>1, <1>2 DEF BudgetInv, SearchTypeOK, Saved, Cycles
  <2>2. Units(saved.cycles) <= Units(search.cycles) /\ Units(saved.cycles) \in Nat
    BY <2>1, <1>1, UnitsGrow
  <2> QED BY <2>1, <2>2, <1>0, <1>1
<1>4. /\ folders' = TRUE /\ search' = [search EXCEPT !.pc = "openResults"]
      /\ search'.pc = "openResults"
      /\ search'.cycles = search.cycles
      /\ UNCHANGED <<memory, saved, budget, rawFiles, found, history>>
  BY DEF BuildResults, SearchGoto, SearchTypeOK
<1>t. SearchTypeOK' BY <1>4 DEF SearchTypeOK
<1>p. ProcessInv' BY <1>0, <1>1, <1>4 DEF ProcessInv, Engine, Extending, SearchTypeOK
<1>b. BudgetInv' BY <1>4 DEF BudgetInv, Saved, BudgetBefore, Counted
<1>r. ResultsInv' BY <1>4 DEF ResultsInv, Saved, BudgetBefore
<1>e. EngineInv' BY <1>2, <1>3, <1>4 DEF EngineInv, Saved, Extending
<1>x. RawInv' BY <1>4 DEF RawInv, Saved, RawBut, OneFile
<1> QED BY <1>t, <1>p, <1>b, <1>r, <1>e, <1>x

\* Torn results.
LEMMA OpenResultsKeeps ==
  ASSUME SearchInv, OpenResults
  PROVE  SearchInv'
<1> USE DEF SearchInv
<1>0. /\ search.pc = "openResults" /\ search.pc \in Engine
      /\ Saved /\ saved.memory = memory /\ memory.unit = Units(search.cycles) /\ folders
  BY DEF OpenResults, SearchAt, Engine, EngineInv
<1>1. /\ budget.kind = "whole" /\ search.cycles = budget.cycles /\ search.cycles \in Cycles
      /\ search.id # 0
  BY <1>0, Running
<1>2. /\ found' = Torn /\ found' # Nothing /\ found' \in Founds
      /\ search' = [search EXCEPT !.pc = "close"] /\ search'.pc = "close"
      /\ search'.cycles = search.cycles
      /\ UNCHANGED <<memory, saved, budget, rawFiles, folders, history>>
  BY <1>1 DEF OpenResults, SearchGoto, Founds, Torn, Nothing
<1>t. SearchTypeOK' BY <1>2 DEF SearchTypeOK, SearchEnded
<1>p. ProcessInv' BY <1>0, <1>1, <1>2 DEF ProcessInv, Engine, Extending, SearchTypeOK
<1>b. BudgetInv' BY <1>1, <1>2 DEF BudgetInv, Saved, BudgetBefore, Counted
<1>r. ResultsInv' BY <1>0, <1>1, <1>2 DEF ResultsInv, Saved, BudgetBefore, Torn, Whole
<1>e. EngineInv' BY <1>0, <1>2 DEF EngineInv, Saved, Extending
<1>x. RawInv' BY <1>2 DEF RawInv, Saved, RawBut, OneFile
<1> QED BY <1>t, <1>p, <1>b, <1>r, <1>e, <1>x

\* Whole results.
LEMMA CloseResultsKeeps ==
  ASSUME SearchInv, CloseResults
  PROVE  SearchInv'
<1> USE DEF SearchInv
<1>0. /\ search.pc = "close" /\ search.pc \in Engine
      /\ Saved /\ saved.memory = memory /\ memory.unit = Units(search.cycles) /\ folders
  BY DEF CloseResults, SearchAt, Engine, EngineInv
<1>1. /\ budget.kind = "whole" /\ search.cycles = budget.cycles /\ search.cycles \in Cycles
      /\ search.id # 0
  BY <1>0, Running
<1>2. /\ found' = Whole(search.cycles) /\ found' # Nothing /\ found' \in Founds
      /\ search' = [search EXCEPT !.pc = "left"] /\ search'.pc = "left"
      /\ search'.cycles = search.cycles
      /\ UNCHANGED <<memory, saved, budget, rawFiles, folders, history>>
  BY <1>1 DEF CloseResults, SearchGoto, Founds, Nothing, Whole
<1>t. SearchTypeOK' BY <1>2 DEF SearchTypeOK, SearchEnded
<1>p. ProcessInv' BY <1>0, <1>1, <1>2 DEF ProcessInv, Engine, Extending, SearchTypeOK
<1>b. BudgetInv' BY <1>1, <1>2 DEF BudgetInv, Saved, BudgetBefore, Counted
<1>r. ResultsInv' BY <1>0, <1>1, <1>2 DEF ResultsInv, Saved, BudgetBefore, Torn, Whole
<1>e. EngineInv' BY <1>0, <1>2 DEF EngineInv, Saved, Extending
<1>x. RawInv' BY <1>2 DEF RawInv, Saved, RawBut, OneFile
<1> QED BY <1>t, <1>p, <1>b, <1>r, <1>e, <1>x

\* A process may stop anywhere.
LEMMA SearchDiesKeeps ==
  ASSUME SearchInv, SearchDies
  PROVE  SearchInv'
<1> USE DEF SearchInv
<1>t. SearchTypeOK'
  BY DEF SearchDies, SearchTypeOK, SearchGoto, directory, SearchEnded
<1>p. ProcessInv'
  BY DEF SearchDies, ProcessInv, Engine, Extending, SearchGoto, SearchAt, SearchTypeOK,
         SearchEnded
<1>b. BudgetInv'
  BY DEF SearchDies, BudgetInv, Saved, BudgetBefore, Counted, SearchGoto, directory
<1>r. ResultsInv'
  BY DEF SearchDies, ResultsInv, Saved, BudgetBefore, Extending, Nothing, Torn, Whole,
         SearchGoto, directory
<1>e. EngineInv'
  BY DEF SearchDies, EngineInv, Due, Engine, Extending, SearchGoto, directory
<1>x. RawInv'
  BY DEF SearchDies, RawInv, RawBut, OneFile, Saved, NextCycles, SearchGoto, directory
<1> QED BY <1>t, <1>p, <1>b, <1>r, <1>e, <1>x

\* Every step keeps it.
LEMMA SearchStepInv == SearchInv /\ [SearchNext]_searchVars => SearchInv'
<1> SUFFICES ASSUME SearchInv, [SearchNext]_searchVars PROVE SearchInv'
  OBVIOUS
<1>1. CASE RunSearch BY <1>1, RunSearchKeeps
<1>2. CASE ResumeSearch BY <1>2, ResumeSearchKeeps
<1>3. CASE ExtendSearch BY <1>3, ExtendSearchKeeps
<1>4. CASE CreateContext BY <1>4, CreateContextKeeps
<1>5. CASE LoadCheckpoint BY <1>5, LoadCheckpointKeeps
<1>6. CASE ArchiveResults BY <1>6, ArchiveResultsKeeps
<1>7. CASE ArchiveFolders BY <1>7, ArchiveFoldersKeeps
<1>8. CASE OpenContext BY <1>8, OpenContextKeeps
<1>9. CASE RecordExtension BY <1>9, RecordExtensionKeeps
<1>10. CASE Restore BY <1>10, RestoreKeeps
<1>11. CASE RunStart BY <1>11, RunStartKeeps
<1>12. CASE SkipCycle BY <1>12, SkipCycleKeeps
<1>13. CASE BeginCycle BY <1>13, BeginCycleKeeps
<1>14. CASE EndCycle BY <1>14, EndCycleKeeps
<1>15. CASE SaveCheckpoint BY <1>15, SaveCheckpointKeeps
<1>16. CASE BuildResults BY <1>16, BuildResultsKeeps
<1>17. CASE OpenResults BY <1>17, OpenResultsKeeps
<1>18. CASE CloseResults BY <1>18, CloseResultsKeeps
<1>19. CASE SearchDies BY <1>19, SearchDiesKeeps
<1>20. CASE UNCHANGED searchVars
  <2>1. UNCHANGED <<search, memory, saved, budget, rawFiles, found, folders, history>>
    BY <1>20 DEF searchVars, directory
  <2>2. SearchTypeOK' BY <2>1 DEF SearchInv, SearchTypeOK
  <2>3. ProcessInv' BY <2>1 DEF SearchInv, ProcessInv
  <2>4. BudgetInv' BY <2>1 DEF SearchInv, BudgetInv, Saved, BudgetBefore, Counted
  <2>5. ResultsInv' BY <2>1 DEF SearchInv, ResultsInv, Saved, BudgetBefore, ThisExtension
  <2>6. EngineInv' BY <2>1 DEF SearchInv, EngineInv, Saved, Due, Counted
  <2>7. RawInv' BY <2>1 DEF SearchInv, RawInv, RawBut, OneFile, Saved, ThisCycle
  <2> QED BY <2>2, <2>3, <2>4, <2>5, <2>6, <2>7 DEF SearchInv
<1> QED
  BY <1>1, <1>2, <1>3, <1>4, <1>5, <1>6, <1>7, <1>8, <1>9, <1>10, <1>11, <1>12, <1>13, <1>14, <1>15, <1>16, <1>17, <1>18, <1>19, <1>20
     DEF SearchNext

-----------------------------------------------------------------------------
\* The inductive invariant holds of every search.
THEOREM SearchInvariant == SearchSpec => []SearchInv
BY SearchInitInv, SearchStepInv, PTL DEF SearchSpec

\* Type correctness of the process, its engine and the run directory
\* (confsearch/engine.py, checkpoint.py).
THEOREM SearchTypeCorrect == SearchSpec => []SearchTypeOK
<1>1. SearchInv => SearchTypeOK BY DEF SearchInv
<1> QED BY <1>1, SearchInvariant, PTL

\* No raw directory ever holds files of two processes, and every cycle the
\* checkpoint counts has its files (archive_incomplete of engine.py).
THEOREM RawFilesOfOneAttempt == SearchSpec => []RawIsOneAttempt
<1>1. SearchInv => RawIsOneAttempt
  <2> SUFFICES ASSUME SearchInv, NEW r \in Replicas, NEW c \in Cycles
               PROVE  /\ Cardinality(rawFiles[r][c]) <= 1
                      /\ saved # NoSearch /\ saved.memory.count[r] >= c => rawFiles[r][c] # {}
    BY DEF RawIsOneAttempt
  <2>1. RawInv BY DEF SearchInv
  <2>2. rawFiles[r][c] = {} \/ OneFile(r, c)
    BY <2>1 DEF RawInv, RawBut, Saved
  <2>3. Cardinality({}) = 0 /\ \A s : Cardinality({s}) = 1 BY FS_EmptySet, FS_Singleton
  <2>4. Cardinality(rawFiles[r][c]) <= 1
    <3>1. CASE rawFiles[r][c] = {} BY <3>1, <2>3
    <3>2. CASE OneFile(r, c)
      <4>1. PICK s \in 1..MaxSessions : rawFiles[r][c] = {s} BY <3>2 DEF OneFile
      <4>2. Cardinality({s}) = 1 BY <2>3
      <4> QED BY <4>1, <4>2
    <3> QED BY <2>2, <3>1, <3>2
  <2>5. ASSUME Saved, saved.memory.count[r] >= c PROVE rawFiles[r][c] # {}
    <3>1. saved.memory.count[r] \in 0..MaxCycles /\ c \in Nat
      BY <2>5 DEF SearchInv, SearchTypeOK, Saved, Memories, Cycles
    <3>2. Counts(saved.memory, r, c) BY <3>1, <2>5, SearchNumbers DEF Counts
    <3>3. OneFile(r, c) BY <3>2, <2>1, <2>5 DEF RawInv, RawBut
    <3> QED BY <3>3 DEF OneFile
  <2> QED BY <2>4, <2>5 DEF Saved
<1> QED BY <1>1, SearchInvariant, PTL

\* Whole results, the recorded budget and the checkpoint belong together, and
\* the history keeps the results of every earlier budget, however many
\* extensions were cut short (archive_for_extension and record_extension of
\* workflow.py).
THEOREM BudgetsTellOneStory == SearchSpec => []BudgetsAgree
<1>1. SearchInv => BudgetsAgree
  <2> SUFFICES ASSUME SearchInv PROVE BudgetsAgree OBVIOUS
  <2>1. ResultsInv BY DEF SearchInv
  <2>2. ASSUME found.kind = "whole"
        PROVE  /\ budget.kind = "whole" /\ found.cycles = budget.cycles
               /\ saved # NoSearch /\ saved.memory.unit = Units(budget.cycles)
    BY <2>1, <2>2 DEF ResultsInv, Nothing, Whole, Saved
  <2> QED BY <2>1, <2>2 DEF ResultsInv, BudgetsAgree, BudgetBefore
<1> QED BY <1>1, SearchInvariant, PTL

\* No process, of whatever command, takes back a unit a checkpoint has
\* reached, or loses the checkpoint (write_checkpoint of checkpoint.py).
CheckpointOnlyGrows ==
  [][saved # NoSearch =>
       saved' # NoSearch /\ (saved' = saved \/ saved'.memory.unit > saved.memory.unit)]_searchVars

\* Every step of every process keeps that.
THEOREM CheckpointGrows == SearchSpec => CheckpointOnlyGrows
<1> DEFINE Grows == saved # NoSearch =>
               saved' # NoSearch /\ (saved' = saved \/ saved'.memory.unit > saved.memory.unit)
<1>1. SearchInv /\ [SearchNext]_searchVars => [Grows]_searchVars
  <2> SUFFICES ASSUME SearchInv, [SearchNext]_searchVars, saved # NoSearch
               PROVE  saved' # NoSearch
                      /\ (saved' = saved \/ saved'.memory.unit > saved.memory.unit)
    OBVIOUS
  <2>1. CASE SaveCheckpoint
    <3>1. /\ saved' # NoSearch /\ saved'.memory = memory /\ search.pc \in Engine
      BY <2>1 DEF SaveCheckpoint, SearchAt, NoSearch, Engine
    <3>2. saved.memory.unit < memory.unit
      BY <2>1 DEF SaveCheckpoint, SearchAt, SearchInv, EngineInv, Saved
    <3>3. memory.unit \in Nat /\ saved.memory.unit \in Int
      <4>1. memory.unit \in Nat /\ Units(MaxCycles) \in Nat BY <3>1, Running
      <4>2. saved.memory \in Memories BY DEF SearchInv, SearchTypeOK
      <4> QED BY <4>1, <4>2 DEF Memories
    <3> QED BY <3>1, <3>2, <3>3
  <2>2. CASE ~SaveCheckpoint
    <3>1. UNCHANGED saved
      BY <2>2 DEF SearchNext, searchVars, directory, RunSearch, ResumeSearch, ExtendSearch,
                  StartSearch, CreateContext, LoadCheckpoint, ArchiveResults, ArchiveFolders,
                  OpenContext, RecordExtension, Restore, RunStart, SkipCycle, BeginCycle,
                  EndCycle, BuildResults, OpenResults, CloseResults, SearchDies
    <3> QED BY <3>1
  <2> QED BY <2>1, <2>2
<1> QED BY <1>1, SearchInvariant, PTL DEF SearchSpec, CheckpointOnlyGrows

-----------------------------------------------------------------------------
(* Resumed and uninterrupted searches.                                     *)
(*                                                                         *)
(* Uninterrupted is a function of fate, which grows while the search runs. *)
(* The units a checkpoint stands for have met all the physics they need,   *)
(* so what is seen later does not change them any more.                    *)

\* Induction over the numbers, for a set.
LEMMA InductiveSet ==
  ASSUME NEW S, 0 \in S, \A n \in Nat : n \in S => n + 1 \in S
  PROVE  Nat \subseteq S
<1> DEFINE T == {n \in Nat : n \notin S}
           R == OpToRel(<, Nat)
<1> SUFFICES ASSUME T # {} PROVE FALSE
  OBVIOUS
<1>1. PICK x \in T : \A y \in T : ~(<<y, x>> \in R)
  <2>1. IsWellFoundedOn(R, Nat) BY NatLessThanWellFounded
  <2>2. T \subseteq Nat OBVIOUS
  <2> HIDE DEF T, R
  <2> QED BY <2>1, <2>2, WFMin
<1>2. x \in Nat \ {0} OBVIOUS
<1>3. x - 1 \in T BY <1>2
<1>4. <<x - 1, x>> \in R BY <1>2 DEF OpToRel
<1> QED BY <1>1, <1>3, <1>4

Last == Units(MaxCycles)

\* Fated, and one unit of the uninterrupted search, where f is fate.
FatedIn(f, key) == IF key \in DOMAIN f THEN f[key] ELSE "aborted"

NextMemory(f, m, k) ==
  IF k = 1 THEN AfterStart(m, [q \in Replicas |-> FatedIn(f, Key(m, q))])
  ELSE IF m.active[ReplicaOf(m.unit)]
       THEN AfterCycle(m, ReplicaOf(m.unit), FatedIn(f, Key(m, ReplicaOf(m.unit))))
       ELSE AfterNothing(m)

\* The first n units of it.
IsRun(g, f, n) ==
  g = [k \in 0..n |-> IF k = 0 THEN Fresh ELSE NextMemory(f, g[k - 1], k)]

Run(f) == CHOOSE g : IsRun(g, f, Last)

\* Uninterrupted is the run of fate, now and after a step.
LEMMA UninterruptedIsRun == Uninterrupted = Run(fate) /\ Uninterrupted' = Run(fate')
<1>1. Uninterrupted = Run(fate)
  BY DEF Uninterrupted, Run, IsRun, NextMemory, Fated, FatedIn, Last
<1>2. Uninterrupted' = Run(fate')
  BY DEF Uninterrupted, Run, IsRun, NextMemory, Fated, FatedIn, Last
<1> QED BY <1>1, <1>2

\* There is one, so its recursion means something.
LEMMA RunExists ==
  ASSUME NEW f, NEW n \in Nat
  PROVE  \E g : IsRun(g, f, n)
<1> DEFINE S == {i \in Nat : \E g : IsRun(g, f, i)}
<1>1. 0 \in S
  <2> DEFINE g == [k \in 0..0 |-> Fresh]
  <2>1. IsRun(g, f, 0) BY DEF IsRun
  <2> QED BY <2>1
<1>2. ASSUME NEW i \in Nat, i \in S PROVE i + 1 \in S
  <2>1. PICK g : IsRun(g, f, i) BY <1>2
  <2> DEFINE h == [k \in 0..(i + 1) |-> IF k = i + 1 THEN NextMemory(f, g[i], k) ELSE g[k]]
             body == [k \in 0..(i + 1) |-> IF k = 0 THEN Fresh ELSE NextMemory(f, h[k - 1], k)]
  <2>2. ASSUME NEW k \in 0..(i + 1) PROVE h[k] = body[k]
    <3>1. CASE k = i + 1
      <4>1. h[k] = NextMemory(f, g[i], k) BY <3>1
      <4>2. i \in 0..(i + 1) /\ i # i + 1 /\ k - 1 = i /\ k # 0 BY <3>1
      <4>3. h[i] = g[i] BY <4>2
      <4> QED BY <4>1, <4>2, <4>3
    <3>2. CASE k # i + 1 /\ k # 0
      <4>1. k \in 0..i /\ k - 1 \in 0..(i + 1) /\ k - 1 # i + 1 BY <3>2
      <4>2. h[k] = g[k] /\ h[k - 1] = g[k - 1] BY <3>2, <4>1
      <4>3. g[k] = NextMemory(f, g[k - 1], k) BY <2>1, <3>2, <4>1 DEF IsRun
      <4> QED BY <3>2, <4>2, <4>3
    <3>3. CASE k # i + 1 /\ k = 0
      <4>1. k \in 0..i BY <3>3
      <4>2. h[k] = g[k] BY <3>3
      <4>3. g[k] = Fresh BY <2>1, <3>3, <4>1 DEF IsRun
      <4> QED BY <3>3, <4>2, <4>3
    <3> QED BY <3>1, <3>2, <3>3
  <2>3. h = body
    <3>1. h = [k \in 0..(i + 1) |-> h[k]] OBVIOUS
    <3>2. body = [k \in 0..(i + 1) |-> body[k]] OBVIOUS
    <3> HIDE DEF h, body
    <3> QED BY <2>2, <3>1, <3>2
  <2>4. IsRun(h, f, i + 1) BY <2>3 DEF IsRun
  <2> QED BY <2>4
<1> HIDE DEF S
<1>3. n \in S BY <1>1, <1>2, InductiveSet
<1> QED BY <1>3 DEF S

\* Its recursion, unit by unit.
LEMMA RunSteps ==
  ASSUME NEW f
  PROVE  /\ Run(f)[0] = Fresh
         /\ \A k \in 0..(Last - 1) : Run(f)[k + 1] = NextMemory(f, Run(f)[k], k + 1)
<1>1. Last \in Nat BY UnitsGrow, SearchNumbers DEF Last
<1>2. IsRun(Run(f), f, Last) BY <1>1, RunExists DEF Run
<1>3. Run(f) = [k \in 0..Last |-> IF k = 0 THEN Fresh ELSE NextMemory(f, Run(f)[k - 1], k)]
  BY <1>2 DEF IsRun
<1>4. Run(f)[0] = Fresh BY <1>1, <1>3
<1>5. ASSUME NEW k \in 0..(Last - 1) PROVE Run(f)[k + 1] = NextMemory(f, Run(f)[k], k + 1)
  <2>1. k + 1 \in 0..Last /\ k + 1 # 0 /\ (k + 1) - 1 = k BY <1>1
  <2> QED BY <1>3, <2>1
<1> QED BY <1>4, <1>5

\* The physics unit k + 1 needs from memory m has been seen.
Seen(f, m, k) ==
  IF k = 0 THEN \A q \in Replicas : Key(m, q) \in DOMAIN f
  ELSE m.active[ReplicaOf(m.unit)] => Key(m, ReplicaOf(m.unit)) \in DOMAIN f

\* So has that of the first n units.
AllSeen(f, n) == \A k \in 0..(n - 1) : Seen(f, Run(f)[k], k)

Extends(g, f) == \A key \in DOMAIN f : key \in DOMAIN g /\ g[key] = f[key]

\* What is seen later changes nothing that has been lived through.
LEMMA SeenStays ==
  ASSUME NEW f, NEW g, NEW n \in 0..Last, Extends(g, f), AllSeen(f, n)
  PROVE  Run(g)[n] = Run(f)[n] /\ AllSeen(g, n)
<1>1. Last \in Nat BY UnitsGrow, SearchNumbers DEF Last
<1> DEFINE S == {k \in Nat : k <= n => Run(g)[k] = Run(f)[k]}
<1>2. 0 \in S BY RunSteps
<1>3. ASSUME NEW k \in Nat, k \in S PROVE k + 1 \in S
  <2> SUFFICES ASSUME k + 1 <= n PROVE Run(g)[k + 1] = Run(f)[k + 1]
    OBVIOUS
  <2>1. k \in 0..(n - 1) /\ k \in 0..(Last - 1) BY <1>1
  <2>2. Run(g)[k] = Run(f)[k] BY <1>1, <1>3, <2>1
  <2> DEFINE m == Run(f)[k]
  <2>3. Seen(f, m, k) BY <2>1 DEF AllSeen
  <2>4. Run(f)[k + 1] = NextMemory(f, m, k + 1) /\ Run(g)[k + 1] = NextMemory(g, m, k + 1)
    BY <2>1, <2>2, RunSteps
  <2> HIDE DEF m
  <2>5. NextMemory(f, m, k + 1) = NextMemory(g, m, k + 1)
    <3>1. CASE k = 0
      <4>1. \A q \in Replicas : FatedIn(f, Key(m, q)) = FatedIn(g, Key(m, q))
        BY <2>3, <3>1 DEF Seen, Extends, FatedIn
      <4>2. [q \in Replicas |-> FatedIn(f, Key(m, q))] = [q \in Replicas |-> FatedIn(g, Key(m, q))]
        BY <4>1
      <4> QED BY <3>1, <4>2 DEF NextMemory
    <3>2. CASE k # 0
      <4>1. k + 1 # 1 BY <3>2
      <4>2. m.active[ReplicaOf(m.unit)] =>
              FatedIn(f, Key(m, ReplicaOf(m.unit))) = FatedIn(g, Key(m, ReplicaOf(m.unit)))
        BY <2>3, <3>2 DEF Seen, Extends, FatedIn
      <4> QED BY <4>1, <4>2 DEF NextMemory
    <3> QED BY <3>1, <3>2
  <2> QED BY <2>4, <2>5
<1> HIDE DEF S
<1>4. Nat \subseteq S BY <1>2, <1>3, InductiveSet
<1>5. \A k \in 0..n : Run(g)[k] = Run(f)[k] BY <1>1, <1>4 DEF S
<1>6. ASSUME NEW k \in 0..(n - 1) PROVE Seen(g, Run(g)[k], k)
  <2>1. k \in 0..n BY <1>1
  <2>2. Seen(f, Run(f)[k], k) /\ Run(g)[k] = Run(f)[k] BY <1>5, <2>1 DEF AllSeen
  <2> QED BY <2>2 DEF Seen, Extends
<1> QED BY <1>1, <1>5, <1>6 DEF AllSeen

\* Memory m is what the search without interruption holds, given what f says.
Follows(m, f) == m.unit \in 0..Last /\ m = Run(f)[m.unit] /\ AllSeen(f, m.unit)

FollowsInv ==
  /\ Saved => Follows(saved.memory, fate)
  /\ search.pc = "save" => Follows(memory, fate)

\* A memory that follows goes on doing so.
LEMMA FollowsStays ==
  ASSUME NEW m, NEW f, NEW g, Follows(m, f), Extends(g, f)
  PROVE  Follows(m, g)
BY SeenStays DEF Follows

\* The next unit of a memory that follows, when its physics has been seen.
LEMMA FollowsNext ==
  ASSUME NEW m, NEW f, Follows(m, f), m.unit + 1 <= Last, Seen(f, m, m.unit),
         NEW n, n.unit = m.unit + 1, n = NextMemory(f, m, m.unit + 1)
  PROVE  Follows(n, f)
<1>1. Last \in Nat BY UnitsGrow, SearchNumbers DEF Last
<1>2. m.unit \in 0..(Last - 1) /\ n.unit \in 0..Last BY <1>1 DEF Follows
<1>3. Run(f)[n.unit] = NextMemory(f, Run(f)[m.unit], m.unit + 1) BY <1>2, RunSteps
<1>4. n = Run(f)[n.unit] BY <1>3 DEF Follows
<1>5. ASSUME NEW k \in 0..(n.unit - 1) PROVE Seen(f, Run(f)[k], k)
  <2>1. CASE k = m.unit BY <2>1 DEF Follows
  <2>2. CASE k # m.unit
    <3>1. k \in 0..(m.unit - 1) BY <1>2, <2>2
    <3> QED BY <3>1 DEF Follows, AllSeen
  <2> QED BY <2>1, <2>2
<1> QED BY <1>2, <1>4, <1>5 DEF Follows, AllSeen

\* What a quench yields is known from then on, and nothing is forgotten.
LEMMA MeetsKnows ==
  ASSUME NEW o, NEW keys, Meets(o, keys)
  PROVE  /\ Extends(fate', fate)
         /\ \A key \in keys : key \in DOMAIN fate' /\ fate'[key] = o[key]
BY DEF Meets, Extends

\* The start is the first unit of the uninterrupted search.
LEMMA RunStartFollows ==
  ASSUME SearchInv, FollowsInv, RunStart
  PROVE  Follows(memory', fate')
<1> DEFINE Start(r) == Key(memory, r)
           keys == {Start(r) : r \in Replicas}
<1>1. search.pc = "unit" /\ memory.unit = 0 /\ memory = Fresh /\ search.pc \in Engine
  BY DEF RunStart, SearchAt, SearchInv, EngineInv, Engine
<1>2. PICK o \in [Replicas -> StartOutcomes] :
        /\ Meets([key \in keys |-> o[key.replica]], keys)
        /\ memory' = AfterStart(memory, o)
  BY Zenon DEF RunStart
<1>3. ASSUME NEW q \in Replicas
      PROVE  Key(Fresh, q) \in DOMAIN fate' /\ FatedIn(fate', Key(Fresh, q)) = o[q]
  <2> DEFINE value == [key \in keys |-> o[key.replica]]
  <2>1. Start(q) \in keys /\ Start(q) = Key(Fresh, q) BY <1>1
  <2>2. Start(q).replica = q BY DEF Key
  <2>3. value[Start(q)] = o[q] BY <2>1, <2>2
  <2>4. \A key \in keys : key \in DOMAIN fate' /\ fate'[key] = value[key]
    <3> HIDE DEF value, keys
    <3> QED BY <1>2, MeetsKnows DEF value
  <2> HIDE DEF value, keys, Start
  <2> QED BY <2>1, <2>3, <2>4 DEF FatedIn
<1>4. o = [q \in Replicas |-> FatedIn(fate', Key(Fresh, q))]
  <2>1. o = [q \in Replicas |-> o[q]] OBVIOUS
  <2> QED BY <1>3, <2>1
<1>5. memory' = NextMemory(fate', Fresh, 1) BY <1>1, <1>2, <1>4 DEF NextMemory
<1>6. memory'.unit = 1 /\ Fresh.unit = 0
  <2>1. AfterStart(Fresh, o).unit = 1 BY StartMemory
  <2> QED BY <1>1, <1>2, <2>1 DEF Fresh
<1>7. Last \in Nat \ {0} BY UnitsGrow, SearchNumbers DEF Last
<1>8. Follows(Fresh, fate') BY <1>6, <1>7, RunSteps DEF Follows, AllSeen
<1>9. Seen(fate', Fresh, 0) BY <1>3 DEF Seen
<1> QED BY <1>5, <1>6, <1>7, <1>8, <1>9, FollowsNext

\* A replica without a minimum has no physics to wait for.
LEMMA SkipCycleFollows ==
  ASSUME SearchInv, FollowsInv, SkipCycle
  PROVE  Follows(memory', fate')
<1>1. search.pc = "unit" /\ search.pc \in Engine /\ Due
      /\ ~memory.active[ReplicaOf(memory.unit)]
      /\ memory' = AfterNothing(memory) /\ UNCHANGED fate
  BY DEF SkipCycle, SearchAt, Engine
<1>2. /\ memory.unit \in Nat \ {0} /\ memory.unit + 1 <= Units(search.cycles)
      /\ Saved /\ saved.memory = memory
  BY <1>1, DueUnit
<1>3. memory.unit + 1 <= Last BY <1>1, <1>2, Running DEF Last
<1>4. Follows(memory, fate) BY <1>2 DEF FollowsInv
<1>5. memory \in Memories BY <1>1, Running
<1>6. memory'.unit = memory.unit + 1 BY <1>1, <1>5 DEF AfterNothing, Memories
<1>7. memory.unit # 0 /\ memory.unit + 1 # 1 BY <1>2
<1>8. Seen(fate, memory, memory.unit) BY <1>1, <1>7 DEF Seen
<1>9. memory' = NextMemory(fate, memory, memory.unit + 1) BY <1>1, <1>7 DEF NextMemory
<1>10. Follows(memory', fate) BY <1>3, <1>4, <1>6, <1>8, <1>9, FollowsNext
<1> QED BY <1>1, <1>10

\* A cycle ends as the uninterrupted search has it end, whether it has been
\* tried before or not.
LEMMA EndCycleFollows ==
  ASSUME SearchInv, FollowsInv, EndCycle
  PROVE  Follows(memory', fate')
<1> DEFINE r == ReplicaOf(memory.unit)
           key == Key(memory, r)
<1>1. search.pc = "cycle" /\ search.pc \in Engine /\ Due /\ memory.active[r]
  BY DEF EndCycle, SearchAt, Engine, SearchInv, EngineInv
<1>2. /\ memory.unit \in Nat \ {0} /\ memory.unit + 1 <= Units(search.cycles)
      /\ CycleOf(memory.unit) \in Cycles /\ r \in Replicas
      /\ Saved /\ saved.memory = memory
  BY <1>1, DueUnit
<1>3. memory.unit + 1 <= Last BY <1>1, <1>2, Running DEF Last
<1>4. PICK o \in CycleOutcomes :
        /\ Meets([k \in {key} |-> o], {key})
        /\ memory' = AfterCycle(memory, r, o)
  BY DEF EndCycle
<1>5. Extends(fate', fate) /\ key \in DOMAIN fate' /\ fate'[key] = o
  <2> DEFINE value == [k \in {key} |-> o]
  <2>1. value[key] = o OBVIOUS
  <2> HIDE DEF value, key
  <2>2. /\ Extends(fate', fate)
        /\ \A k \in {key} : k \in DOMAIN fate' /\ fate'[k] = value[k]
    BY <1>4, MeetsKnows DEF value
  <2> QED BY <2>1, <2>2
<1>6. memory'.unit = memory.unit + 1
  <2>1. memory \in Memories /\ CycleOf(memory.unit) \in 0..MaxCycles
    BY <1>1, <1>2, Running DEF Cycles
  <2> QED BY <1>2, <1>3, <1>4, <2>1, CycleMemory DEF Last
<1>7. Follows(memory, fate') BY <1>2, <1>5, FollowsStays DEF FollowsInv
<1>8. memory.unit # 0 /\ memory.unit + 1 # 1 BY <1>2
<1>9. Seen(fate', memory, memory.unit) BY <1>5, <1>8 DEF Seen
<1>10. memory' = NextMemory(fate', memory, memory.unit + 1)
  BY <1>1, <1>4, <1>5, <1>8 DEF NextMemory, FatedIn
<1> QED BY <1>3, <1>6, <1>7, <1>9, <1>10, FollowsNext

\* Only these three steps move the engine on, and only a save moves the
\* checkpoint.
LEMMA FollowsStep == SearchInv /\ FollowsInv /\ [SearchNext]_searchVars => FollowsInv'
<1> SUFFICES ASSUME SearchInv, FollowsInv, [SearchNext]_searchVars PROVE FollowsInv'
  OBVIOUS
<1>1. Extends(fate, fate) BY DEF Extends
<1>2. CASE RunStart
  <2>1. ~Saved /\ UNCHANGED saved
    BY <1>2 DEF RunStart, SearchAt, SearchInv, EngineInv, directory
  <2> QED BY <1>2, <2>1, RunStartFollows DEF FollowsInv, Saved
<1>3. CASE SkipCycle
  <2>1. UNCHANGED <<saved, fate>> BY <1>3 DEF SkipCycle, directory
  <2> QED BY <1>3, <2>1, SkipCycleFollows DEF FollowsInv, Saved
<1>4. CASE EndCycle
  <2>1. UNCHANGED saved /\ Extends(fate', fate)
    BY <1>4, MeetsKnows DEF EndCycle, directory
  <2> QED BY <1>4, <2>1, EndCycleFollows, FollowsStays DEF FollowsInv, Saved
<1>5. CASE SaveCheckpoint
  <2>1. /\ search.pc = "save" /\ search'.pc = "unit" /\ saved'.memory = memory /\ UNCHANGED fate
    BY <1>5 DEF SaveCheckpoint, SearchAt, SearchGoto, SearchInv, SearchTypeOK
  <2> QED BY <2>1 DEF FollowsInv
<1>6. CASE ~(RunStart \/ SkipCycle \/ EndCycle \/ SaveCheckpoint)
  <2>1. UNCHANGED <<saved, fate>> /\ (search'.pc = "save" => UNCHANGED <<search, memory>>)
    BY <1>6 DEF SearchInv, SearchTypeOK, SearchNext, searchVars, directory, RunSearch,
                ResumeSearch, ExtendSearch, StartSearch, CreateContext, LoadCheckpoint,
                ArchiveResults, ArchiveFolders, OpenContext, RecordExtension, Restore,
                BeginCycle, BuildResults, OpenResults, CloseResults, SearchDies, SearchGoto
  <2> QED BY <2>1 DEF FollowsInv, Saved
<1> QED BY <1>2, <1>3, <1>4, <1>5, <1>6

\* Every checkpoint holds what the search without interruption would hold after
\* as many units: however often it is killed and resumed or extended, and
\* whatever its cycles and quenches yield, an interrupted search is that search
\* (docs/workflows/confsearch.md).
THEOREM ResumedAsUninterrupted == SearchSpec => []ResumeIsUninterrupted
<1>1. SearchInit => FollowsInv
  BY DEF SearchInit, FollowsInv, Saved
<1>2. SearchSpec => []FollowsInv
  BY <1>1, FollowsStep, SearchInvariant, PTL DEF SearchSpec
<1>3. FollowsInv => ResumeIsUninterrupted
  BY UninterruptedIsRun DEF FollowsInv, Follows, Saved, ResumeIsUninterrupted
<1> QED BY <1>2, <1>3, PTL

-----------------------------------------------------------------------------
(* Where a resumed search goes on.                                         *)

\* No quench seen so far has been left without a distance.
AllMeasured(f) == \A key \in DOMAIN f : f[key] # "unmeasured"

AllRestorable(m) == \A i \in DOMAIN m.quenches : m.quenches[i].measured

MeasuredInv ==
  AllMeasured(fate) =>
    /\ Saved => AllRestorable(saved.memory)
    /\ search.pc = "save" => AllRestorable(memory)

\* "Resuming refuses to continue if anything in the identity changed ... and
\* re-runs the interrupted unit" (docs/workflows/confsearch.md), as far as it
\* is true: the engine of every attempt that gets to its checkpoint goes on
\* from it, unless some quench has failed or not converged.
ContinuesIfMeasured ==
  [][SearchAt("restore") /\ AllMeasured(fate) => search'.pc \in {"restore", "unit", "dead"}]_searchVars

\* A start adds the quenches of all replicas.
LEMMA RunStartMeasured ==
  ASSUME SearchInv, RunStart, AllMeasured(fate')
  PROVE  AllRestorable(memory')
<1> DEFINE Start(r) == Key(memory, r)
           keys == {Start(r) : r \in Replicas}
<1>1. PICK o \in [Replicas -> StartOutcomes] :
        /\ Meets([key \in keys |-> o[key.replica]], keys)
        /\ memory' = AfterStart(memory, o)
  BY Zenon DEF RunStart
<1>2. ASSUME NEW q \in Replicas PROVE o[q] # "unmeasured"
  <2> DEFINE value == [key \in keys |-> o[key.replica]]
  <2>1. Start(q) \in keys BY <1>1
  <2>2. Start(q).replica = q BY DEF Key
  <2>3. value[Start(q)] = o[q] BY <2>1, <2>2
  <2>4. \A key \in keys : key \in DOMAIN fate' /\ fate'[key] = value[key]
    <3> HIDE DEF value, keys
    <3> QED BY <1>1, MeetsKnows DEF value
  <2> HIDE DEF value, keys, Start
  <2> QED BY <2>1, <2>3, <2>4 DEF AllMeasured
<1>3. memory = Fresh BY DEF RunStart, SearchAt, SearchInv, EngineInv
<1>4. memory'.quenches = [r \in Replicas |-> Quenched(Fresh, r, o[r])]
  BY <1>1, <1>3 DEF AfterStart, Fresh
<1>5. \A r \in Replicas : Quenched(Fresh, r, o[r]).measured
  BY <1>2, Zenon DEF Quenched
<1>6. DOMAIN memory'.quenches = Replicas
      /\ \A i \in Replicas : memory'.quenches[i] = Quenched(Fresh, i, o[i])
  BY <1>4
<1> QED BY <1>5, <1>6 DEF AllRestorable

\* A cycle adds at most one.
LEMMA EndCycleMeasured ==
  ASSUME SearchInv, EndCycle, AllMeasured(fate'), AllRestorable(memory)
  PROVE  AllRestorable(memory')
<1> DEFINE r == ReplicaOf(memory.unit)
           key == Key(memory, r)
<1>1. search.pc = "cycle" /\ search.pc \in Engine
  BY DEF EndCycle, SearchAt, Engine
<1>2. PICK o \in CycleOutcomes :
        /\ Meets([k \in {key} |-> o], {key})
        /\ memory' = AfterCycle(memory, r, o)
  BY DEF EndCycle
<1>3. o # "unmeasured"
  <2> DEFINE value == [k \in {key} |-> o]
  <2>1. value[key] = o OBVIOUS
  <2> HIDE DEF value, key
  <2>2. \A k \in {key} : k \in DOMAIN fate' /\ fate'[k] = value[k]
    BY <1>2, MeetsKnows DEF value
  <2> QED BY <2>1, <2>2 DEF AllMeasured
<1>4. memory \in Memories BY <1>1, Running
<1>5. memory.quenches \in Quenches BY <1>4 DEF Memories, Quenches
<1>6. memory'.quenches = IF o = "aborted" THEN memory.quenches
                         ELSE Append(memory.quenches, Quenched(memory, r, o))
  BY <1>2, <1>4 DEF AfterCycle, Memories
<1>7. Quenched(memory, r, o).measured BY <1>3 DEF Quenched
<1>8. CASE o = "aborted" BY <1>6, <1>8 DEF AllRestorable
<1>9. CASE o # "aborted"
  <2> DEFINE q == Quenched(memory, r, o)
             old == memory.quenches
  <2>1. memory'.quenches = Append(old, q) /\ q.measured BY <1>6, <1>7, <1>9
  <2>2. Len(old) \in Nat /\ DOMAIN old = 1..Len(old) BY <1>5 DEF Quenches
  <2>3. ASSUME NEW i \in DOMAIN Append(old, q) PROVE Append(old, q)[i].measured
    <3> HIDE DEF q
    <3>1. i \in 1..(Len(old) + 1) BY <1>5, <2>2 DEF Quenches
    <3>2. CASE i = Len(old) + 1
      <4>1. Append(old, q)[i] = q BY <1>5, <3>2 DEF Quenches
      <4> QED BY <2>1, <4>1
    <3>3. CASE i # Len(old) + 1
      <4>1. i \in 1..Len(old) /\ Append(old, q)[i] = old[i] BY <1>5, <2>2, <3>1, <3>3 DEF Quenches
      <4> QED BY <2>2, <4>1 DEF AllRestorable
    <3> QED BY <3>2, <3>3
  <2> QED BY <2>1, <2>3 DEF AllRestorable
<1> QED BY <1>8, <1>9

\* Measured quenches stay what they are.
LEMMA MeasuredStep == SearchInv /\ MeasuredInv /\ [SearchNext]_searchVars => MeasuredInv'
<1> SUFFICES ASSUME SearchInv, MeasuredInv, [SearchNext]_searchVars, AllMeasured(fate')
             PROVE  /\ Saved' => AllRestorable(saved'.memory)
                    /\ search'.pc = "save" => AllRestorable(memory')
  BY DEF MeasuredInv, AllMeasured, AllRestorable
<1>1. ASSUME Extends(fate', fate) PROVE AllMeasured(fate)
  BY <1>1 DEF AllMeasured, Extends
<1>2. CASE RunStart
  <2>1. ~Saved /\ UNCHANGED saved
    BY <1>2 DEF RunStart, SearchAt, SearchInv, EngineInv, directory
  <2> QED BY <1>2, <2>1, RunStartMeasured DEF Saved
<1>3. CASE SkipCycle
  <2>1. UNCHANGED <<saved, fate>> /\ search.pc = "unit" /\ Due /\ search.pc \in Engine
        /\ memory' = AfterNothing(memory)
    BY <1>3 DEF SkipCycle, directory, SearchAt, Engine
  <2>2. Saved /\ saved.memory = memory /\ memory \in Memories BY <2>1, DueUnit, Running
  <2>3. memory'.quenches = memory.quenches BY <2>1, <2>2 DEF AfterNothing, Memories
  <2> QED BY <2>1, <2>2, <2>3 DEF MeasuredInv, Saved, AllRestorable
<1>4. CASE EndCycle
  <2>1. UNCHANGED saved /\ Extends(fate', fate)
    BY <1>4, MeetsKnows DEF EndCycle, directory
  <2>2. Saved /\ saved.memory = memory
    BY <1>4 DEF EndCycle, SearchAt, SearchInv, EngineInv
  <2>3. AllRestorable(memory) BY <1>1, <2>1, <2>2 DEF MeasuredInv
  <2> QED BY <1>4, <2>1, <2>2, <2>3, EndCycleMeasured DEF Saved
<1>5. CASE SaveCheckpoint
  <2>1. /\ search.pc = "save" /\ search'.pc = "unit" /\ saved'.memory = memory /\ UNCHANGED fate
    BY <1>5 DEF SaveCheckpoint, SearchAt, SearchGoto, SearchInv, SearchTypeOK
  <2> QED BY <2>1 DEF MeasuredInv
<1>6. CASE ~(RunStart \/ SkipCycle \/ EndCycle \/ SaveCheckpoint)
  <2>1. UNCHANGED <<saved, fate>> /\ (search'.pc = "save" => UNCHANGED <<search, memory>>)
    BY <1>6 DEF SearchInv, SearchTypeOK, SearchNext, searchVars, directory, RunSearch,
                ResumeSearch, ExtendSearch, StartSearch, CreateContext, LoadCheckpoint,
                ArchiveResults, ArchiveFolders, OpenContext, RecordExtension, Restore,
                BeginCycle, BuildResults, OpenResults, CloseResults, SearchDies, SearchGoto
  <2> QED BY <2>1 DEF MeasuredInv, Saved
<1> QED BY <1>2, <1>3, <1>4, <1>5, <1>6

\* The violation of ResumeContinues needs a quench without distances: without
\* one every attempt that reaches its checkpoint goes on from it.
THEOREM ContinuesUnlessUnmeasured == SearchSpec => ContinuesIfMeasured
<1> DEFINE Continues == SearchAt("restore") /\ AllMeasured(fate) =>
                          search'.pc \in {"restore", "unit", "dead"}
<1>1. SearchInit => MeasuredInv
  BY DEF SearchInit, MeasuredInv, Saved
<1>2. SearchSpec => []MeasuredInv
  BY <1>1, MeasuredStep, SearchInvariant, PTL DEF SearchSpec
<1>3. SearchInv /\ MeasuredInv /\ [SearchNext]_searchVars => [Continues]_searchVars
  <2> SUFFICES ASSUME SearchInv, MeasuredInv, SearchNext, search.pc = "restore", AllMeasured(fate)
               PROVE  search'.pc \in {"restore", "unit", "dead"}
    BY DEF SearchAt
  <2>1. Restorable
    BY DEF SearchInv, EngineInv, MeasuredInv, AllRestorable, Restorable
  <2>2. Restore \/ SearchDies
    BY DEF SearchNext, SearchAt, RunSearch, ResumeSearch, ExtendSearch, StartSearch, SearchEnded,
           CreateContext, LoadCheckpoint, ArchiveResults, ArchiveFolders, OpenContext,
           RecordExtension, RunStart, SkipCycle, BeginCycle, EndCycle, SaveCheckpoint,
           BuildResults, OpenResults, CloseResults
  <2> QED BY <2>1, <2>2 DEF Restore, SearchDies, SearchGoto, SearchInv, SearchTypeOK
<1> QED BY <1>2, <1>3, SearchInvariant, PTL DEF SearchSpec, ContinuesIfMeasured

-----------------------------------------------------------------------------
(* Complete plans and complete results.                                    *)

\* The plan of a budget of c cycles gives every replica its turn in each of
\* them, and once only (the unit loop of engine.py).
THEOREM EveryCycleOnce ==
  ASSUME NEW c \in Nat, NEW r \in Replicas, NEW q \in 1..c
  PROVE  \E k \in 1..(Units(c) - 1) :
           /\ ReplicaOf(k) = r /\ CycleOf(k) = q
           /\ \A i \in 1..(Units(c) - 1) : ReplicaOf(i) = r /\ CycleOf(i) = q => i = k
<1> DEFINE turns == LastReplica * (q - 1)
           k == turns + r
<1>1. LastReplica \in Nat \ {0} /\ q - 1 \in Nat /\ r \in 1..LastReplica
  BY SearchNumbers DEF Replicas
<1>2. turns \in Nat BY <1>1
<1>3. LastReplica * c \in Nat /\ turns + LastReplica <= LastReplica * c
  BY <1>1, Shift
<1> HIDE DEF turns
<1>4. k \in 1..(Units(c) - 1) /\ k \in Nat \ {0} BY <1>1, <1>2, <1>3 DEF Units
<1>5. ASSUME NEW i \in Nat \ {0} PROVE ReplicaOf(i) = r /\ CycleOf(i) = q <=> i = k
  <2>1. /\ ReplicaOf(i) \in Replicas /\ CycleOf(i) \in Nat \ {0}
        /\ i - 1 = LastReplica * (CycleOf(i) - 1) + (ReplicaOf(i) - 1)
    BY PlanOf
  <2>2. ASSUME ReplicaOf(i) = r, CycleOf(i) = q PROVE i = k
    <3>1. i - 1 = turns + (r - 1) BY <2>1, <2>2 DEF turns
    <3> QED BY <1>1, <1>2, <3>1
  <2>3. ASSUME i = k PROVE ReplicaOf(i) = r /\ CycleOf(i) = q
    <3> DEFINE b == ReplicaOf(i) - 1
               a == CycleOf(i) - 1
    <3>1. a \in Nat /\ b \in 0..(LastReplica - 1) /\ r - 1 \in 0..(LastReplica - 1)
      BY <1>1, <2>1 DEF Replicas
    <3>2. LastReplica * a + b = LastReplica * (q - 1) + (r - 1)
      <4>1. i - 1 = turns + (r - 1) BY <1>1, <1>2, <2>3
      <4> QED BY <2>1, <4>1 DEF turns
    <3>3. a = q - 1 /\ b = r - 1
      <4> DEFINE p == q - 1
                 z == r - 1
      <4>1. p \in Nat /\ z \in 0..(LastReplica - 1) /\ LastReplica * a + b = LastReplica * p + z
        BY <1>1, <3>1, <3>2
      <4> HIDE DEF a, b, p, z
      <4>2. a = p /\ b = z BY <3>1, <4>1, DivisionUnique
      <4> QED BY <4>2 DEF p, z
    <3> QED BY <1>1, <2>1, <3>3 DEF Replicas
  <2> QED BY <2>2, <2>3
<1>6. \A i \in 1..(Units(c) - 1) : i \in Nat \ {0} BY <1>3 DEF Units
<1> HIDE DEF k
<1> QED BY <1>4, <1>5, <1>6

\* After the last unit of a budget every cycle of it is behind every replica.
LEMMA AllBehind ==
  ASSUME NEW c \in Nat, NEW r \in Replicas
  PROVE  CyclesBefore(Units(c), r) = c
<1>1. LastReplica \in Nat \ {0} /\ r \in 1..LastReplica BY SearchNumbers DEF Replicas
<1>2. LastReplica * c \in Nat BY <1>1
<1> DEFINE k == Units(c)
           b == ReplicaOf(k) - 1
           a == CycleOf(k) - 1
<1>3. k \in Nat \ {0} /\ k - 1 = LastReplica * c BY <1>2 DEF Units
<1>4. /\ ReplicaOf(k) \in Replicas /\ CycleOf(k) \in Nat \ {0}
      /\ k - 1 = LastReplica * a + b
  BY <1>3, PlanOf
<1>5. a \in Nat /\ b \in 0..(LastReplica - 1) BY <1>1, <1>4 DEF Replicas
<1>6. a = c /\ b = 0
  <2>1. PICK zero \in 0..(LastReplica - 1) : zero = 0 BY <1>1
  <2>2. LastReplica * a + b = LastReplica * c + zero BY <1>2, <1>3, <1>4, <2>1
  <2> HIDE DEF a, b
  <2> QED BY <1>5, <2>1, <2>2, DivisionUnique
<1>7. ReplicaOf(k) = 1 /\ CycleOf(k) = c + 1 BY <1>4, <1>6 DEF Replicas
<1> QED BY <1>1, <1>7 DEF CyclesBefore

\* Whole results stand beside a checkpoint in which every replica that
\* survived its start has had all cycles of the recorded budget, and beside the
\* raw files of each of them.
ResultsAreComplete ==
  found.kind = "whole" =>
    \A r \in Replicas : saved.memory.active[r] =>
      /\ saved.memory.count[r] = budget.cycles
      /\ \A c \in 1..budget.cycles : rawFiles[r][c] # {}

\* That holds however the search got there: by one run, by resumes after kills
\* at any point, or by extensions (build_results of engine.py).
THEOREM ResultsComplete == SearchSpec => []ResultsAreComplete
<1>1. SearchInv => ResultsAreComplete
  <2> SUFFICES ASSUME SearchInv, found.kind = "whole", NEW r \in Replicas, saved.memory.active[r]
               PROVE  /\ saved.memory.count[r] = budget.cycles
                      /\ \A c \in 1..budget.cycles : rawFiles[r][c] # {}
    BY DEF ResultsAreComplete
  <2>1. Saved /\ saved.memory.unit = Units(budget.cycles) /\ budget.kind = "whole"
    BY DEF SearchInv, ResultsInv, Nothing
  <2>2. budget.cycles \in Cycles /\ budget.cycles \in Nat
    BY <2>1, SearchNumbers DEF SearchInv, BudgetInv, Cycles
  <2>3. saved.memory.count[r] = CyclesBefore(saved.memory.unit, r)
    BY <2>1 DEF SearchInv, BudgetInv, Counted
  <2>4. saved.memory.count[r] = budget.cycles BY <2>1, <2>2, <2>3, AllBehind
  <2>5. ASSUME NEW c \in 1..budget.cycles PROVE rawFiles[r][c] # {}
    <3>1. c \in Cycles /\ Counts(saved.memory, r, c)
      BY <2>2, <2>4, SearchNumbers DEF Cycles, Counts
    <3>2. OneFile(r, c) BY <2>1, <3>1 DEF SearchInv, RawInv, RawBut
    <3> QED BY <3>2 DEF OneFile
  <2> QED BY <2>4, <2>5
<1> QED BY <1>1, SearchInvariant, PTL
=============================================================================
