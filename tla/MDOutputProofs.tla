--------------------------- MODULE MDOutputProofs ---------------------------
(***************************************************************************)
(* Theorems about the output of an MD run: for any number of steps, any    *)
(* save interval, any bound of the queue and any number of faults and      *)
(* interrupts, wherever these arrive.  They are about what the files and   *)
(* the reports say, and about the writer thread: that it is only waited    *)
(* for once it has been told to end, and which interrupts leave it behind. *)
(***************************************************************************)
EXTENDS MDOutput, SequenceTheorems, TLAPS

Over == {"closing", "ended"}

\* What publish_terminal may be asked to report: the backstop alone has two.
Plans == {<<>>, <<"failed">>, <<"cancelled">>, <<"aborted">>, <<"failed", "cancelled">>}

MDTypeInv ==
  /\ MDTypeOK
  /\ md.reports \in Plans
  /\ At("manifest") => md.reports # <<>>
  /\ md.pc \in Running \cup {"handler", "backstop"} => md.reports = <<>>
  /\ md.pc \in Closing => md.reports \in {<<>>, <<"cancelled">>}

-----------------------------------------------------------------------------
(* The reports: what OUTCAR and the manifest say of each other. *)

BeforeReport == Running \cup Closing \cup {"contcar", "post", "lastTrailer", "lastManifest"}

ReportsInv ==
  /\ md.pc \in BeforeReport => manifest.status = "none"
  /\ At("manifest") /\ ~lost => outcar = Head(md.reports)
  /\ At("trailer") /\ ~lost /\ md.reports = <<>> /\ manifest.status \in Verdicts
       => outcar = manifest.status
  /\ At("lastManifest") => outcar = "completed"
  /\ At("leave") => outcar = "completed" /\ manifest.status = "completed"
  /\ TrailerAgrees

-----------------------------------------------------------------------------
(* The frames: where each of those asked for is. *)

Held == IF writer.pc = "raw" THEN 1 ELSE 0
Stopped == Len(queue) > 0 /\ queue[Len(queue)] = Stop
Waiting == IF Stopped THEN Len(queue) - 1 ELSE Len(queue)

\* The sentinel is sent last, and only once.
SendsFrames == {"observe", "check", "put", "handler", "backstop", "sentinel", "stop"}
StopInv ==
  /\ \A i \in 1..Len(queue) : queue[i] = Stop => i = Len(queue)
  /\ Stopped => md.pc \notin SendsFrames
  /\ writer.pc \in Over /\ ~error => queue = <<>> /\ md.pc \notin SendsFrames
  /\ error => writer.pc \in Over

\* As long as the writer has not failed, a frame asked for is written, held by
\* the writer or waits, in that order.
FlowInv ==
  ~error => /\ Len(asked) = Len(raw) + Held + Waiting
            /\ \A i \in 1..Len(raw) : asked[i] = raw[i]
            /\ Held = 1 => asked[Len(raw) + 1] = writer.frame
            /\ \A i \in 1..Waiting : queue[i] = asked[Len(raw) + Held + i]

\* The exports and the statistics follow the raw data within the frame in hand.
FilesInv ==
  ~error => /\ writer.pc \in {"open", "get", "raw"} \cup Over => raw = exports /\ count = Len(raw)
            /\ writer.pc = "record" => raw = Append(exports, writer.frame) /\ count = Len(exports)
            /\ writer.pc = "export" => raw = Append(exports, writer.frame) /\ count = Len(raw)

FramesInv == StopInv /\ FlowInv /\ FilesInv

-----------------------------------------------------------------------------
(* The verdict: what is known of the files when it is given. *)

VerdictInv ==
  /\ manifest.status # "none" \/ md.pc \in {"trailer", "manifest", "contcar"} \cup PostRun
       => error \/ writer.pc = "ended"
  /\ \/ md.pc \in {"contcar"} \cup PostRun
     \/ md.pc \in {"trailer", "manifest"} /\ md.reports = <<"aborted">>
     \/ manifest.status \in {"completed", "aborted"}
     => ~error /\ writer.pc = "ended"
  /\ ~error /\ manifest.status \in {"completed", "aborted", "cancelled"}
       => manifest.frames = count
  /\ \/ At("contcar")
     \/ md.reports = <<"aborted">>
     \/ manifest.status = "aborted"
     => md.cause = "abort" /\ md.pc \notin Running
  /\ md.cause = "abort" /\ md.pc \notin {"check", "put"}
       => asked # <<>> /\ asked[Len(asked)] = md.step
  /\ At("observe") => md.cause = "none"

-----------------------------------------------------------------------------
(* The order of the frames and of the verdicts, for FrameLog. *)

OrderInv ==
  /\ md.pc \in Running =>
       /\ \A i \in 1..Len(asked) : asked[i] = (i - 1) * SaveInterval
       /\ (Len(asked) - 1) * SaveInterval < md.step
       /\ md.step <= Len(asked) * SaveInterval
  /\ md.pc \in {"check", "put"} => md.cause \in {"none", "abort"}
  /\ md.pc \in {"check", "put"} /\ md.cause = "none" => md.step % SaveInterval = 0
  /\ md.pc \in {"sentinel", "stop", "join"} \cup PostRun /\ md.cause = "none" => asked = Regular
  /\ md.pc \in PostRun => md.cause = "none"
  /\ md.pc \in {"handler", "backstop"} => md.cause # "none"
  /\ manifest.status \in {"aborted", "cancelled"} =>
       md.pc \in {"trailer", "gone"} /\ md.reports = <<>>
  /\ md.pc \in {"trailer", "manifest"} /\ md.reports = <<"aborted">> => manifest.status = "none"

MDInv == MDTypeInv /\ ReportsInv /\ FramesInv /\ VerdictInv /\ OrderInv
-----------------------------------------------------------------------------
(* What the steps of the MD thread do to its record. *)

MDRecords == [pc : MDPc, step : Taken, cause : Causes, reports : Seq(Verdicts)]

Turn(pc, step, cause, reports) ==
  /\ md' \in MDRecords
  /\ md'.pc = pc /\ md'.step = step /\ md'.cause = cause /\ md'.reports = reports

\* A step that only moves on.
LEMMA GotoTurn ==
  ASSUME md \in MDRecords, NEW pc \in MDPc, Goto(pc)
  PROVE  Turn(pc, md.step, md.cause, md.reports)
BY DEF Goto, MDRecords, Turn

\* An exception leads to its handler, with its cause.
LEMMA RaiseTurn ==
  ASSUME md \in MDRecords, NEW cause \in Causes, Raise(cause)
  PROVE  Turn("handler", md.step, cause, md.reports)
BY DEF Raise, MDRecords, Turn, MDPc, Closing

\* Reports begin with the trailer.
LEMMA PublishTurn ==
  ASSUME md \in MDRecords, NEW reports \in Seq(Verdicts), Publish(reports)
  PROVE  Turn("trailer", md.step, md.cause, reports)
BY DEF Publish, MDRecords, Turn, MDPc

\* The four ends of a step.
AfterTurn ==
  \/ md.cause = "abort" /\ Turn("handler", md.step, md.cause, md.reports)
  \/ md.cause # "abort" /\ md.step = Steps /\ Turn("sentinel", md.step, md.cause, md.reports)
  \/ /\ md.cause # "abort" /\ md.step # Steps
     /\ Turn("observe", md.step + 1, md.cause, md.reports)

\* Where the MD thread stands after a step.
LEMMA AfterStepTurn ==
  ASSUME md \in MDRecords, md' = AfterStep
  PROVE  AfterTurn
<1>1. md.step # Steps => md.step + 1 \in Taken
  BY StepsNat DEF MDRecords, Taken
<1>2. {"handler", "sentinel", "observe"} \subseteq MDPc
  BY DEF MDPc, Closing, Running
<1>3. CASE md.cause = "abort"
  BY <1>2, <1>3 DEF AfterStep, AfterTurn, Turn, MDRecords
<1>4. CASE md.cause # "abort" /\ md.step = Steps
  BY <1>2, <1>4 DEF AfterStep, AfterTurn, Turn, MDRecords
<1>5. CASE md.cause # "abort" /\ md.step # Steps
  BY <1>1, <1>2, <1>5 DEF AfterStep, AfterTurn, Turn, MDRecords
<1> QED BY <1>3, <1>4, <1>5

\* What a plan of reports is made of.
LEMMA PlansAre ==
  /\ Plans \subseteq Seq(Verdicts)
  /\ \A p \in Plans \ {<<>>} : Tail(p) \in Plans /\ Head(p) \in Verdicts
  /\ \A p \in Plans \ {<<>>} : Tail(p) # <<>> => p = <<"failed", "cancelled">>
  /\ Tail(<<"failed", "cancelled">>) = <<"cancelled">>
<1>1. Plans \subseteq Seq(Verdicts)
  BY DEF Plans, Verdicts
<1>2. /\ Tail(<<"failed">>) = <<>> /\ Tail(<<"cancelled">>) = <<>> /\ Tail(<<"aborted">>) = <<>>
      /\ Tail(<<"failed", "cancelled">>) = <<"cancelled">>
  OBVIOUS
<1>3. /\ Head(<<"failed">>) = "failed" /\ Head(<<"cancelled">>) = "cancelled"
      /\ Head(<<"aborted">>) = "aborted" /\ Head(<<"failed", "cancelled">>) = "failed"
  OBVIOUS
<1>4. \A p \in Plans \ {<<>>} : Tail(p) \in Plans
  BY <1>2 DEF Plans
<1>5. \A p \in Plans \ {<<>>} : Head(p) \in Verdicts
  BY <1>3 DEF Plans, Verdicts
<1>6. \A p \in Plans \ {<<>>} : Tail(p) # <<>> => p = <<"failed", "cancelled">>
  BY <1>2 DEF Plans
<1> QED BY <1>1, <1>2, <1>4, <1>5, <1>6

\* A report of a writer that failed comes before those of the backstop.
LEMMA CloseFailsTurn ==
  ASSUME md \in MDRecords, md.reports \in {<<>>, <<"cancelled">>}, CloseFails
  PROVE  \E reports \in {<<"failed">>, <<"failed", "cancelled">>} :
            Turn("trailer", md.step, md.cause, reports)
<1>a. <<"failed">> \in Seq(Verdicts) /\ <<"cancelled">> \in Seq(Verdicts)
  BY DEF Verdicts
<1>b. <<"failed">> \o <<>> = <<"failed">>
  BY <1>a, ConcatEmptySeq
<1>c. <<"failed">> \o <<"cancelled">> = <<"failed", "cancelled">>
  <2> DEFINE both == <<"failed">> \o <<"cancelled">>
  <2>1. /\ both \in Seq(Verdicts) /\ Len(both) = 2
        /\ \A i \in 1..2 : both[i] = IF i <= 1 THEN <<"failed">>[i] ELSE <<"cancelled">>[i - 1]
    BY <1>a, ConcatProperties
  <2>2. both[1] = "failed" /\ both[2] = "cancelled"
    BY <2>1
  <2> HIDE DEF both
  <2>3. both = <<"failed", "cancelled">>
    BY <2>1, <2>2
  <2> QED BY <2>3 DEF both
<1>1. <<"failed">> \o <<>> = <<"failed">> /\ <<"failed">> \o <<"cancelled">> = <<"failed", "cancelled">>
  BY <1>b, <1>c
<1>2. PICK reports \in {<<"failed">>, <<"failed", "cancelled">>} : Publish(reports)
  BY <1>1 DEF CloseFails
<1>3. reports \in Seq(Verdicts)
  BY <1>2, PlansAre DEF Plans
<1> QED BY <1>2, <1>3, PublishTurn

\* The same, as a step of the thread.
FailsTurn == \E reports \in {<<"failed">>, <<"failed", "cancelled">>} :
               Turn("trailer", md.step, md.cause, reports)

BreaksManifest == \/ UNCHANGED manifest
                  \/ manifest' = [status |-> "broken", frames |-> manifest.frames]

\* A manifest that cannot be written ends the reports.
LEMMA ManifestFailsIs ==
  ASSUME MDTypeInv, ManifestFails
  PROVE  BreaksManifest
BY DEF MDTypeInv, MDTypeOK, ManifestFails, BreaksManifest

\* The types, as the lemmas of the steps use them.
LEMMA TypesAre ==
  ASSUME MDTypeInv
  PROVE  /\ md \in MDRecords /\ md.reports \in Seq(Verdicts)
         /\ faults \in Nat /\ interrupts \in Nat
         /\ "none" \in Causes /\ "abort" \in Causes /\ "cancel" \in Causes
         /\ "interrupt" \in Causes /\ "error" \in Causes
BY DEF MDTypeInv, MDTypeOK, MDRecords, Causes

-----------------------------------------------------------------------------
(* The steps of the MD thread. *)

\* What a progress call does to the record of its thread.
LEMMA ObserveTurns ==
  ASSUME MDTypeInv, Observe
  PROVE  /\ At("observe")
         /\ \/ Turn("handler", md.step, "error", md.reports)
            \/ ~error /\ Turn("handler", md.step, "cancel", md.reports)
            \/ ~error /\ Turn("check", md.step, "abort", md.reports)
            \/ ~error /\ md.step % SaveInterval = 0 /\ Turn("check", md.step, md.cause, md.reports)
            \/ ~error /\ md.step % SaveInterval # 0 /\ AfterTurn
         /\ UNCHANGED <<writer, error, raw, exports, count, queue, asked, outcar, manifest, lost>>
         /\ faults' \in Nat /\ interrupts' \in Nat /\ UNCHANGED cancelled
<1>1. md \in MDRecords /\ At("observe")
  BY TypesAre DEF Observe
<1>2. UNCHANGED <<writer, error, raw, exports, count, queue, asked, outcar, manifest, lost>>
  BY DEF Observe, writerVars
<1>3. faults' \in Nat /\ interrupts' \in Nat /\ UNCHANGED cancelled
  BY TypesAre DEF Observe, Fault
<1>4. CASE Raise("error")
  BY <1>1, <1>2, <1>3, <1>4, TypesAre, RaiseTurn
<1>5. CASE ~error /\ Raise("cancel")
  BY <1>1, <1>2, <1>3, <1>5, TypesAre, RaiseTurn
<1>6. CASE ~error /\ md' = [md EXCEPT !.pc = "check", !.cause = "abort"]
  <2>1. Turn("check", md.step, "abort", md.reports)
    BY <1>1, <1>6 DEF MDRecords, Turn, MDPc, Running, Causes
  <2> QED BY <1>1, <1>2, <1>3, <1>6, <2>1
<1>7. CASE ~error /\ md.step % SaveInterval = 0 /\ md' = [md EXCEPT !.pc = "check"]
  <2>1. Turn("check", md.step, md.cause, md.reports)
    BY <1>1, <1>7 DEF MDRecords, Turn, MDPc, Running
  <2> QED BY <1>1, <1>2, <1>3, <1>7, <2>1
<1>8. CASE ~error /\ md.step % SaveInterval # 0 /\ md' = AfterStep
  BY <1>1, <1>2, <1>3, <1>8, AfterStepTurn
<1> QED BY <1>4, <1>5, <1>6, <1>7, <1>8 DEF Observe

\* What the first look of submit does to the record of its thread.
LEMMA SubmitCheckTurns ==
  ASSUME MDTypeInv, SubmitCheck
  PROVE  /\ At("check")
         /\ \/ Turn("handler", md.step, "error", md.reports)
            \/ Turn("put", md.step, md.cause, md.reports)
         /\ UNCHANGED <<writer, error, raw, exports, count, queue, asked, outcar, manifest, lost>>
         /\ faults' \in Nat /\ interrupts' \in Nat /\ UNCHANGED cancelled
BY TypesAre, GotoTurn, RaiseTurn, PublishTurn DEF mdVars, writerVars, At, Fault, MDPc, Running, Closing, PostRun, SubmitCheck

\* What the wait for room in the queue does to the record of its thread.
LEMMA SubmitPutTurns ==
  ASSUME MDTypeInv, SubmitPut
  PROVE  /\ At("put")
         /\ \/ /\ Len(queue) < QueueMax /\ AfterTurn
               /\ queue' = Append(queue, md.step) /\ asked' = Append(asked, md.step)
            \/ Turn("check", md.step, md.cause, md.reports) /\ UNCHANGED <<queue, asked>>
         /\ UNCHANGED <<writer, error, raw, exports, count, outcar, manifest, lost>>
         /\ faults' \in Nat /\ interrupts' \in Nat /\ UNCHANGED cancelled
BY TypesAre, GotoTurn, AfterStepTurn DEF mdVars, writerVars, At, Fault, MDPc, Running, Closing, PostRun, SubmitPut

\* What an except clause, or the finally block does to the record of its thread.
LEMMA HandlerTurns ==
  ASSUME MDTypeInv, Handler
  PROVE  /\ md.pc \in {"handler", "backstop"}
         /\ \/ At("handler") /\ Turn("sentinel", md.step, md.cause, <<>>)
            \/ At("backstop") /\ Turn("sentinel", md.step, md.cause, <<"cancelled">>)
         /\ UNCHANGED <<writer, error, raw, exports, count, queue, asked, outcar, manifest, lost>>
         /\ faults' \in Nat /\ interrupts' \in Nat /\ UNCHANGED cancelled
<1>1. CASE At("handler") /\ md' = [md EXCEPT !.pc = "sentinel", !.reports = <<>>]
  <2>1. Turn("sentinel", md.step, md.cause, <<>>)
    BY <1>1, TypesAre, PlansAre DEF Plans, MDRecords, Turn, MDPc, Closing
  <2> QED BY <1>1, <2>1, TypesAre DEF Handler, writerVars
<1>2. CASE At("backstop") /\ md' = [md EXCEPT !.pc = "sentinel", !.reports = <<"cancelled">>]
  <2>1. <<"cancelled">> \in Seq(Verdicts)
    BY PlansAre DEF Plans
  <2>2. Turn("sentinel", md.step, md.cause, <<"cancelled">>)
    BY <1>2, <2>1, TypesAre DEF MDRecords, Turn, MDPc, Closing
  <2> QED BY <1>2, <2>2, TypesAre DEF Handler, writerVars
<1> QED BY <1>1, <1>2 DEF Handler, At

\* What the first look of close does to the record of its thread.
LEMMA CloseCheckTurns ==
  ASSUME MDTypeInv, CloseCheck
  PROVE  /\ At("sentinel")
         /\ \/ error /\ Turn("join", md.step, md.cause, md.reports)
            \/ ~error /\ Turn("stop", md.step, md.cause, md.reports)
         /\ UNCHANGED <<writer, error, raw, exports, count, queue, asked, outcar, manifest, lost>>
         /\ faults' \in Nat /\ interrupts' \in Nat /\ UNCHANGED cancelled
BY TypesAre, GotoTurn, RaiseTurn, PublishTurn DEF mdVars, writerVars, At, Fault, MDPc, Running, Closing, PostRun, CloseCheck

\* What the loop around the sentinel does to the record of its thread.
LEMMA CloseSentinelTurns ==
  ASSUME MDTypeInv, CloseSentinel
  PROVE  /\ At("stop")
         /\ \/ error /\ FailsTurn /\ UNCHANGED queue
            \/ /\ ~error /\ Turn("join", md.step, md.cause, md.reports)
               /\ Len(queue) < QueueMax /\ queue' = Append(queue, Stop)
            \/ ~error /\ UNCHANGED <<md, queue>>
         /\ UNCHANGED <<writer, error, raw, exports, count, asked, outcar, manifest, lost>>
         /\ faults' \in Nat /\ interrupts' \in Nat /\ UNCHANGED cancelled
<1>1. md.reports \in {<<>>, <<"cancelled">>}
  BY DEF CloseSentinel, MDTypeInv, At, Closing
<1>2. CloseFails => FailsTurn
  BY <1>1, TypesAre, CloseFailsTurn DEF FailsTurn
<1>3. Goto("join") => Turn("join", md.step, md.cause, md.reports)
  BY TypesAre, GotoTurn DEF MDPc, Closing
<1> QED BY <1>2, <1>3, TypesAre DEF CloseSentinel, writerVars

\* What the join does to the record of its thread.
LEMMA CloseJoinTurns ==
  ASSUME MDTypeInv, CloseJoin
  PROVE  /\ At("join") /\ writer.pc = "ended"
         /\ \/ error /\ FailsTurn
            \/ ~error /\ md.reports = <<"cancelled">> /\ Turn("trailer", md.step, md.cause, md.reports)
            \/ ~error /\ md.cause = "abort" /\ Turn("contcar", md.step, md.cause, md.reports)
            \/ /\ ~error /\ md.cause \in {"cancel", "interrupt"}
               /\ Turn("trailer", md.step, md.cause, <<"cancelled">>)
            \/ ~error /\ md.cause = "error" /\ Turn("trailer", md.step, md.cause, <<"failed">>)
            \/ ~error /\ md.cause = "none" /\ Turn("post", md.step, md.cause, md.reports)
         /\ UNCHANGED <<writer, error, raw, exports, count, queue, asked, outcar, manifest, lost>>
         /\ faults' \in Nat /\ interrupts' \in Nat /\ UNCHANGED cancelled
<1>1. md.reports \in {<<>>, <<"cancelled">>}
  BY DEF CloseJoin, MDTypeInv, At, Closing
<1>2. CloseFails => FailsTurn
  BY <1>1, TypesAre, CloseFailsTurn DEF FailsTurn
<1>3. \A r \in Plans : Publish(r) => Turn("trailer", md.step, md.cause, r)
  BY TypesAre, PublishTurn, PlansAre
<1>4. md.cause \in Causes
  BY DEF MDTypeInv, MDTypeOK
<1>5. ASSUME ~error, Drained
      PROVE  \/ md.reports = <<"cancelled">> /\ Turn("trailer", md.step, md.cause, md.reports)
             \/ md.cause = "abort" /\ Turn("contcar", md.step, md.cause, md.reports)
             \/ /\ md.cause \in {"cancel", "interrupt"}
                /\ Turn("trailer", md.step, md.cause, <<"cancelled">>)
             \/ md.cause = "error" /\ Turn("trailer", md.step, md.cause, <<"failed">>)
             \/ md.cause = "none" /\ Turn("post", md.step, md.cause, md.reports)
  <2>1. \A pc \in {"contcar", "post"} : Goto(pc) => Turn(pc, md.step, md.cause, md.reports)
    BY TypesAre, GotoTurn DEF MDPc, PostRun
  <2>2. CASE md.reports # <<>>
    BY <1>1, <1>3, <1>5, <2>2 DEF Drained, Plans
  <2>3. CASE md.reports = <<>> /\ md.cause = "abort"
    BY <1>5, <2>1, <2>3 DEF Drained
  <2>4. CASE md.reports = <<>> /\ md.cause \in {"cancel", "interrupt"}
    BY <1>3, <1>5, <2>4 DEF Drained, Plans
  <2>5. CASE md.reports = <<>> /\ md.cause = "error"
    BY <1>3, <1>5, <2>5 DEF Drained, Plans
  <2>6. CASE md.reports = <<>> /\ md.cause = "none"
    BY <1>5, <2>1, <2>6 DEF Drained
  <2> QED BY <1>4, <2>2, <2>3, <2>4, <2>5, <2>6 DEF Causes
<1> QED BY <1>2, <1>5, TypesAre DEF CloseJoin, writerVars

\* What the abort's CONTCAR does to the record of its thread.
LEMMA ContcarTurns ==
  ASSUME MDTypeInv, Contcar
  PROVE  /\ At("contcar")
         /\ \/ Turn("trailer", md.step, md.cause, <<"aborted">>)
            \/ Turn("gone", md.step, md.cause, md.reports)
         /\ UNCHANGED <<writer, error, raw, exports, count, queue, asked, outcar, manifest, lost>>
         /\ faults' \in Nat /\ interrupts' \in Nat /\ UNCHANGED cancelled
<1>1. \A r \in Plans : Publish(r) => Turn("trailer", md.step, md.cause, r)
  BY TypesAre, PublishTurn, PlansAre
<1>2. \A pc \in MDPc : Goto(pc) => Turn(pc, md.step, md.cause, md.reports)
  BY TypesAre, GotoTurn
<1> QED BY <1>1, <1>2, TypesAre DEF mdVars, writerVars, At, Fault, MDPc, Running, Closing, PostRun, Plans, Contcar

\* What the OUTCAR trailer does to the record of its thread.
LEMMA PublishTrailerTurns ==
  ASSUME MDTypeInv, PublishTrailer
  PROVE  /\ At("trailer")
         /\ \/ /\ md.reports = <<>> /\ Turn("gone", md.step, md.cause, md.reports)
               /\ UNCHANGED <<outcar, lost>>
            \/ /\ md.reports # <<>> /\ Turn("manifest", md.step, md.cause, md.reports)
               /\ outcar' = Head(md.reports) /\ UNCHANGED lost
            \/ /\ md.reports # <<>> /\ Turn("manifest", md.step, md.cause, md.reports)
               /\ lost' = TRUE /\ UNCHANGED outcar
         /\ UNCHANGED <<writer, error, raw, exports, count, queue, asked, manifest>>
         /\ faults' \in Nat /\ interrupts' \in Nat /\ UNCHANGED cancelled
<1>1. \A r \in Plans : Publish(r) => Turn("trailer", md.step, md.cause, r)
  BY TypesAre, PublishTurn, PlansAre
<1>2. \A pc \in MDPc : Goto(pc) => Turn(pc, md.step, md.cause, md.reports)
  BY TypesAre, GotoTurn
<1> QED BY <1>1, <1>2, TypesAre DEF mdVars, writerVars, At, Fault, MDPc, Running, Closing, PostRun, Plans, PublishTrailer, Trailer

\* What the terminal manifest does to the record of its thread.
LEMMA PublishManifestTurns ==
  ASSUME MDTypeInv, PublishManifest
  PROVE  /\ At("manifest")
         /\ Turn("trailer", md.step, md.cause, Tail(md.reports))
         /\ \/ manifest' = [status |-> Head(md.reports), frames |-> count] /\ UNCHANGED lost
            \/ lost' = TRUE /\ BreaksManifest
         /\ UNCHANGED <<writer, error, raw, exports, count, queue, asked, outcar>>
         /\ faults' \in Nat /\ interrupts' \in Nat /\ UNCHANGED cancelled
<1>1. md.reports # <<>> /\ Tail(md.reports) \in Seq(Verdicts)
  BY PlansAre DEF MDTypeInv, PublishManifest
<1>2. Turn("trailer", md.step, md.cause, Tail(md.reports))
  BY <1>1, TypesAre, PublishTurn DEF PublishManifest
<1> QED BY <1>2, TypesAre, ManifestFailsIs DEF PublishManifest, writerVars, Fault

\* What the end of the run does to the record of its thread.
LEMMA PostTurns ==
  ASSUME MDTypeInv, Post
  PROVE  /\ At("post")
         /\ \/ Turn("lastTrailer", md.step, md.cause, md.reports)
            \/ Turn("trailer", md.step, md.cause, <<"failed">>)
         /\ UNCHANGED <<writer, error, raw, exports, count, queue, asked, outcar, manifest, lost>>
         /\ faults' \in Nat /\ interrupts' \in Nat /\ UNCHANGED cancelled
<1>1. \A r \in Plans : Publish(r) => Turn("trailer", md.step, md.cause, r)
  BY TypesAre, PublishTurn, PlansAre
<1>2. \A pc \in MDPc : Goto(pc) => Turn(pc, md.step, md.cause, md.reports)
  BY TypesAre, GotoTurn
<1> QED BY <1>1, <1>2, TypesAre DEF mdVars, writerVars, At, Fault, MDPc, Running, Closing, PostRun, Plans, Post, PostStep

\* What the trailer of a late failure does to the record of its thread.
LEMMA PostTrailerTurns ==
  ASSUME MDTypeInv, PostTrailer
  PROVE  /\ At("lastTrailer")
         /\ \/ Turn("lastManifest", md.step, md.cause, md.reports) /\ outcar' = "completed"
            \/ Turn("trailer", md.step, md.cause, <<"failed">>) /\ UNCHANGED outcar
         /\ UNCHANGED <<writer, error, raw, exports, count, queue, asked, manifest, lost>>
         /\ faults' \in Nat /\ interrupts' \in Nat /\ UNCHANGED cancelled
<1>1. \A r \in Plans : Publish(r) => Turn("trailer", md.step, md.cause, r)
  BY TypesAre, PublishTurn, PlansAre
<1>2. \A pc \in MDPc : Goto(pc) => Turn(pc, md.step, md.cause, md.reports)
  BY TypesAre, GotoTurn
<1> QED BY <1>1, <1>2, TypesAre DEF mdVars, writerVars, At, Fault, MDPc, Running, Closing, PostRun, Plans, PostTrailer, PostStep, Trailer

\* What the manifest of a late failure does to the record of its thread.
LEMMA PostManifestTurns ==
  ASSUME MDTypeInv, PostManifest
  PROVE  /\ At("lastManifest")
         /\ \/ /\ Turn("leave", md.step, md.cause, md.reports)
               /\ manifest' = [status |-> "completed", frames |-> count]
            \/ Turn("trailer", md.step, md.cause, <<"failed">>) /\ BreaksManifest
         /\ UNCHANGED <<writer, error, raw, exports, count, queue, asked, outcar, lost>>
         /\ faults' \in Nat /\ interrupts' \in Nat /\ UNCHANGED cancelled
<1>1. \A r \in Plans : Publish(r) => Turn("trailer", md.step, md.cause, r)
  BY TypesAre, PublishTurn, PlansAre
<1>2. \A pc \in MDPc : Goto(pc) => Turn(pc, md.step, md.cause, md.reports)
  BY TypesAre, GotoTurn
<1> QED BY <1>1, <1>2, TypesAre, ManifestFailsIs DEF mdVars, writerVars, At, Fault, MDPc, Running, Closing, PostRun, Plans, PostManifest, PostStep

\* What the return does to the record of its thread.
LEMMA LeaveTurns ==
  ASSUME MDTypeInv, Leave
  PROVE  /\ At("leave")
         /\ Turn("gone", md.step, md.cause, md.reports)
         /\ UNCHANGED <<writer, error, raw, exports, count, queue, asked, outcar, manifest, lost>>
         /\ faults' \in Nat /\ interrupts' \in Nat /\ UNCHANGED cancelled
<1>1. \A r \in Plans : Publish(r) => Turn("trailer", md.step, md.cause, r)
  BY TypesAre, PublishTurn, PlansAre
<1>2. \A pc \in MDPc : Goto(pc) => Turn(pc, md.step, md.cause, md.reports)
  BY TypesAre, GotoTurn
<1> QED BY <1>1, <1>2, TypesAre DEF mdVars, writerVars, At, Fault, MDPc, Running, Closing, PostRun, Plans, Leave

\* What a KeyboardInterrupt does to the record of its thread.
LEMMA InterruptTurns ==
  ASSUME MDTypeInv, Interrupt
  PROVE  /\ md.pc # "gone"
         /\ \/ md.pc \in Running /\ Turn("handler", md.step, "interrupt", md.reports)
            \/ At("handler") /\ Turn("backstop", md.step, md.cause, md.reports)
            \/ md.pc \in PostRun /\ Turn("trailer", md.step, md.cause, <<"cancelled">>)
            \/ md.pc \notin Running \cup PostRun \cup {"handler"} /\ Turn("gone", md.step, md.cause, md.reports)
         /\ UNCHANGED <<writer, error, raw, exports, count, queue, asked, outcar, manifest>>
         /\ faults' \in Nat /\ interrupts' \in Nat /\ UNCHANGED cancelled
<1>1. \A r \in Plans : Publish(r) => Turn("trailer", md.step, md.cause, r)
  BY TypesAre, PublishTurn, PlansAre
<1>2. \A pc \in MDPc : Goto(pc) => Turn(pc, md.step, md.cause, md.reports)
  BY TypesAre, GotoTurn
<1>3. Raise("interrupt") => Turn("handler", md.step, "interrupt", md.reports)
  BY TypesAre, RaiseTurn
<1>4. md.pc \in MDPc
  BY DEF MDTypeInv, MDTypeOK
<1>5. /\ md.pc # "gone" /\ interrupts' \in Nat /\ faults' \in Nat /\ UNCHANGED cancelled
      /\ UNCHANGED <<writer, error, raw, exports, count, queue, asked, outcar, manifest>>
  BY TypesAre DEF Interrupt, writerVars
<1>6. CASE md.pc \in Running
  BY <1>3, <1>5, <1>6 DEF Interrupt, At, Running, PostRun
<1>7. CASE At("handler")
  BY <1>2, <1>5, <1>7 DEF Interrupt, At, Running, PostRun, MDPc, Closing
<1>8. CASE md.pc \in PostRun
  BY <1>1, <1>5, <1>8 DEF Interrupt, At, Running, PostRun, Plans
<1>9. CASE md.pc \notin Running \cup PostRun \cup {"handler"}
  BY <1>2, <1>5, <1>9 DEF Interrupt, At, MDPc
<1> QED BY <1>6, <1>7, <1>8, <1>9 DEF At

-----------------------------------------------------------------------------
(* The types and the reports. *)

\* The invariant holds at the start.
LEMMA MDInvInit == MDInit => MDInv
<1> SUFFICES ASSUME MDInit PROVE MDInv
  OBVIOUS
<1>1. 0 \in Taken /\ 0 \in Nat /\ QueueMax >= 0
  BY StepsNat, QueuePositive DEF Taken
<1>2. MDTypeInv
  <2>1. md \in [pc : MDPc, step : Taken, cause : Causes, reports : Seq(Verdicts)]
    BY <1>1, PlansAre DEF MDInit, Plans, MDPc, Running, Causes
  <2>2. writer \in [pc : {"open", "get", "raw", "record", "export", "closing", "ended"}, frame : Taken]
    BY <1>1 DEF MDInit
  <2>3. queue \in Seq(Taken \cup {Stop}) /\ Len(queue) <= QueueMax
    BY <1>1 DEF MDInit
  <2>4. {raw, exports, asked} \subseteq Seq(Taken) /\ {count, faults, interrupts} \subseteq Nat
    BY DEF MDInit
  <2>5. /\ outcar \in Verdicts \cup {"none"}
        /\ manifest \in [status : Verdicts \cup {"none", "broken"}, frames : Nat]
        /\ {error, cancelled, lost} \subseteq BOOLEAN
    BY DEF MDInit
  <2>6. /\ md.reports \in Plans /\ (At("manifest") => md.reports # <<>>)
        /\ md.reports = <<>>
    BY DEF MDInit, Plans, At
  <2> QED BY <2>1, <2>2, <2>3, <2>4, <2>5, <2>6 DEF MDTypeInv, MDTypeOK
<1>3. ReportsInv
  BY DEF MDInit, ReportsInv, TrailerAgrees, At, BeforeReport, Running, Closing
<1>4. FramesInv
  BY DEF MDInit, FramesInv, StopInv, FlowInv, FilesInv, Held, Stopped, Waiting, SendsFrames, Over
<1>5. VerdictInv
  BY DEF MDInit, VerdictInv, At, Running, Closing, PostRun
<1>6. OrderInv
  <2>1. (0 - 1) * SaveInterval < 0 /\ 0 <= 0 * SaveInterval
    BY IntervalPositive
  <2> QED BY <2>1 DEF MDInit, OrderInv, At, Running, Closing, PostRun
<1> QED BY <1>2, <1>3, <1>4, <1>5, <1>6 DEF MDInv

\* A step of the MD thread keeps the types of what the writer owns.
LEMMA MDTypeKept ==
  ASSUME MDTypeInv, md' \in MDRecords, UNCHANGED <<writer, error, raw, exports, count>>,
         queue' \in Seq(Taken \cup {Stop}), Len(queue') <= QueueMax, asked' \in Seq(Taken),
         faults' \in Nat, interrupts' \in Nat, UNCHANGED cancelled, lost' \in BOOLEAN,
         outcar' \in Verdicts \cup {"none"},
         manifest' \in [status : Verdicts \cup {"none", "broken"}, frames : Nat],
         md'.reports \in Plans, md'.pc = "manifest" => md'.reports # <<>>,
         md'.pc \in Running \cup {"handler", "backstop"} => md'.reports = <<>>,
         md'.pc \in Closing => md'.reports \in {<<>>, <<"cancelled">>}
  PROVE  MDTypeInv'
BY DEF MDTypeInv, MDTypeOK, MDRecords, At

\* Types: a progress call.
LEMMA ObserveTypes ==
  ASSUME MDTypeInv, Observe
  PROVE  MDTypeInv'
<1>3. queue' \in Seq(Taken \cup {Stop}) /\ Len(queue') <= QueueMax /\ asked' \in Seq(Taken)
  BY ObserveTurns DEF MDTypeInv, MDTypeOK
<1>4. /\ md' \in MDRecords /\ md'.reports \in Plans /\ (md'.pc = "manifest" => md'.reports # <<>>)
      /\ md'.pc \in Running \cup {"handler", "backstop"} => md'.reports = <<>>
      /\ md'.pc \in Closing => md'.reports \in {<<>>, <<"cancelled">>}
  BY ObserveTurns, TypesAre, PlansAre DEF MDTypeInv, At, Turn, AfterTurn, FailsTurn, BreaksManifest, Running, Closing, PostRun, Plans
<1>5. /\ UNCHANGED <<writer, error, raw, exports, count>>
      /\ faults' \in Nat /\ interrupts' \in Nat /\ UNCHANGED cancelled
  BY ObserveTurns
<1>6. /\ lost' \in BOOLEAN
      /\ outcar' \in Verdicts \cup {"none"}
      /\ manifest' \in [status : Verdicts \cup {"none", "broken"}, frames : Nat]
  BY ObserveTurns, PlansAre DEF MDTypeInv, MDTypeOK, BreaksManifest, Verdicts, Interrupt
<1> QED BY <1>3, <1>4, <1>5, <1>6, MDTypeKept

\* Types: the first look of submit.
LEMMA SubmitCheckTypes ==
  ASSUME MDTypeInv, SubmitCheck
  PROVE  MDTypeInv'
<1>3. queue' \in Seq(Taken \cup {Stop}) /\ Len(queue') <= QueueMax /\ asked' \in Seq(Taken)
  BY SubmitCheckTurns DEF MDTypeInv, MDTypeOK
<1>4. /\ md' \in MDRecords /\ md'.reports \in Plans /\ (md'.pc = "manifest" => md'.reports # <<>>)
      /\ md'.pc \in Running \cup {"handler", "backstop"} => md'.reports = <<>>
      /\ md'.pc \in Closing => md'.reports \in {<<>>, <<"cancelled">>}
  BY SubmitCheckTurns, TypesAre, PlansAre DEF MDTypeInv, At, Turn, AfterTurn, FailsTurn, BreaksManifest, Running, Closing, PostRun, Plans
<1>5. /\ UNCHANGED <<writer, error, raw, exports, count>>
      /\ faults' \in Nat /\ interrupts' \in Nat /\ UNCHANGED cancelled
  BY SubmitCheckTurns
<1>6. /\ lost' \in BOOLEAN
      /\ outcar' \in Verdicts \cup {"none"}
      /\ manifest' \in [status : Verdicts \cup {"none", "broken"}, frames : Nat]
  BY SubmitCheckTurns, PlansAre DEF MDTypeInv, MDTypeOK, BreaksManifest, Verdicts, Interrupt
<1> QED BY <1>3, <1>4, <1>5, <1>6, MDTypeKept

\* Types: the wait for room in the queue.
LEMMA SubmitPutTypes ==
  ASSUME MDTypeInv, SubmitPut
  PROVE  MDTypeInv'
<1>1. md.step \in Taken /\ Append(queue, md.step) \in Seq(Taken \cup {Stop}) /\ Append(asked, md.step) \in Seq(Taken)
      /\ Len(Append(queue, md.step)) = Len(queue) + 1 /\ Len(queue) \in Nat
  BY DEF MDTypeInv, MDTypeOK
<1>2. UNCHANGED <<queue, asked>> \/ (queue' = Append(queue, md.step) /\ asked' = Append(asked, md.step) /\ Len(queue) < QueueMax)
  BY SubmitPutTurns
<1>a. /\ queue \in Seq(Taken \cup {Stop}) /\ Len(queue) <= QueueMax /\ asked \in Seq(Taken)
      /\ QueueMax \in Nat
  BY QueuePositive DEF MDTypeInv, MDTypeOK
<1>3. queue' \in Seq(Taken \cup {Stop}) /\ Len(queue') <= QueueMax /\ asked' \in Seq(Taken)
  <2>1. CASE UNCHANGED <<queue, asked>>
    BY <1>a, <2>1
  <2>2. CASE queue' = Append(queue, md.step) /\ asked' = Append(asked, md.step) /\ Len(queue) < QueueMax
    BY <1>a, <1>1, <2>2
  <2> QED BY <1>2, <2>1, <2>2
<1>4. /\ md' \in MDRecords /\ md'.reports \in Plans /\ (md'.pc = "manifest" => md'.reports # <<>>)
      /\ md'.pc \in Running \cup {"handler", "backstop"} => md'.reports = <<>>
      /\ md'.pc \in Closing => md'.reports \in {<<>>, <<"cancelled">>}
  BY SubmitPutTurns, TypesAre, PlansAre DEF MDTypeInv, At, Turn, AfterTurn, FailsTurn, BreaksManifest, Running, Closing, PostRun, Plans
<1>5. /\ UNCHANGED <<writer, error, raw, exports, count>>
      /\ faults' \in Nat /\ interrupts' \in Nat /\ UNCHANGED cancelled
  BY SubmitPutTurns
<1>6. /\ lost' \in BOOLEAN
      /\ outcar' \in Verdicts \cup {"none"}
      /\ manifest' \in [status : Verdicts \cup {"none", "broken"}, frames : Nat]
  BY SubmitPutTurns, PlansAre DEF MDTypeInv, MDTypeOK, BreaksManifest, Verdicts, Interrupt
<1> QED BY <1>3, <1>4, <1>5, <1>6, MDTypeKept

\* Types: an except clause, or the finally block.
LEMMA HandlerTypes ==
  ASSUME MDTypeInv, Handler
  PROVE  MDTypeInv'
<1>3. queue' \in Seq(Taken \cup {Stop}) /\ Len(queue') <= QueueMax /\ asked' \in Seq(Taken)
  BY HandlerTurns DEF MDTypeInv, MDTypeOK
<1>4. /\ md' \in MDRecords /\ md'.reports \in Plans /\ (md'.pc = "manifest" => md'.reports # <<>>)
      /\ md'.pc \in Running \cup {"handler", "backstop"} => md'.reports = <<>>
      /\ md'.pc \in Closing => md'.reports \in {<<>>, <<"cancelled">>}
  BY HandlerTurns, TypesAre, PlansAre DEF MDTypeInv, At, Turn, AfterTurn, FailsTurn, BreaksManifest, Running, Closing, PostRun, Plans
<1>5. /\ UNCHANGED <<writer, error, raw, exports, count>>
      /\ faults' \in Nat /\ interrupts' \in Nat /\ UNCHANGED cancelled
  BY HandlerTurns
<1>6. /\ lost' \in BOOLEAN
      /\ outcar' \in Verdicts \cup {"none"}
      /\ manifest' \in [status : Verdicts \cup {"none", "broken"}, frames : Nat]
  BY HandlerTurns, PlansAre DEF MDTypeInv, MDTypeOK, BreaksManifest, Verdicts, Interrupt
<1> QED BY <1>3, <1>4, <1>5, <1>6, MDTypeKept

\* Types: the first look of close.
LEMMA CloseCheckTypes ==
  ASSUME MDTypeInv, CloseCheck
  PROVE  MDTypeInv'
<1>3. queue' \in Seq(Taken \cup {Stop}) /\ Len(queue') <= QueueMax /\ asked' \in Seq(Taken)
  BY CloseCheckTurns DEF MDTypeInv, MDTypeOK
<1>4. /\ md' \in MDRecords /\ md'.reports \in Plans /\ (md'.pc = "manifest" => md'.reports # <<>>)
      /\ md'.pc \in Running \cup {"handler", "backstop"} => md'.reports = <<>>
      /\ md'.pc \in Closing => md'.reports \in {<<>>, <<"cancelled">>}
  BY CloseCheckTurns, TypesAre, PlansAre DEF MDTypeInv, At, Turn, AfterTurn, FailsTurn, BreaksManifest, Running, Closing, PostRun, Plans
<1>5. /\ UNCHANGED <<writer, error, raw, exports, count>>
      /\ faults' \in Nat /\ interrupts' \in Nat /\ UNCHANGED cancelled
  BY CloseCheckTurns
<1>6. /\ lost' \in BOOLEAN
      /\ outcar' \in Verdicts \cup {"none"}
      /\ manifest' \in [status : Verdicts \cup {"none", "broken"}, frames : Nat]
  BY CloseCheckTurns, PlansAre DEF MDTypeInv, MDTypeOK, BreaksManifest, Verdicts, Interrupt
<1> QED BY <1>3, <1>4, <1>5, <1>6, MDTypeKept

\* Types: the loop around the sentinel.
LEMMA CloseSentinelTypes ==
  ASSUME MDTypeInv, CloseSentinel
  PROVE  MDTypeInv'
<1>1. Append(queue, Stop) \in Seq(Taken \cup {Stop})
      /\ Len(Append(queue, Stop)) = Len(queue) + 1 /\ Len(queue) \in Nat
  BY DEF MDTypeInv, MDTypeOK
<1>2. UNCHANGED queue \/ (queue' = Append(queue, Stop) /\ Len(queue) < QueueMax)
  BY CloseSentinelTurns
<1>a. /\ queue \in Seq(Taken \cup {Stop}) /\ Len(queue) <= QueueMax /\ asked' \in Seq(Taken)
      /\ QueueMax \in Nat
  BY QueuePositive, CloseSentinelTurns DEF MDTypeInv, MDTypeOK
<1>3. queue' \in Seq(Taken \cup {Stop}) /\ Len(queue') <= QueueMax /\ asked' \in Seq(Taken)
  BY <1>a, <1>1, <1>2
<1>4. /\ md' \in MDRecords /\ md'.reports \in Plans /\ (md'.pc = "manifest" => md'.reports # <<>>)
      /\ md'.pc \in Running \cup {"handler", "backstop"} => md'.reports = <<>>
      /\ md'.pc \in Closing => md'.reports \in {<<>>, <<"cancelled">>}
  BY CloseSentinelTurns, TypesAre, PlansAre DEF MDTypeInv, At, Turn, AfterTurn, FailsTurn, BreaksManifest, Running, Closing, PostRun, Plans
<1>5. /\ UNCHANGED <<writer, error, raw, exports, count>>
      /\ faults' \in Nat /\ interrupts' \in Nat /\ UNCHANGED cancelled
  BY CloseSentinelTurns
<1>6. /\ lost' \in BOOLEAN
      /\ outcar' \in Verdicts \cup {"none"}
      /\ manifest' \in [status : Verdicts \cup {"none", "broken"}, frames : Nat]
  BY CloseSentinelTurns, PlansAre DEF MDTypeInv, MDTypeOK, BreaksManifest, Verdicts, Interrupt
<1> QED BY <1>3, <1>4, <1>5, <1>6, MDTypeKept

\* Types: the join.
LEMMA CloseJoinTypes ==
  ASSUME MDTypeInv, CloseJoin
  PROVE  MDTypeInv'
<1>3. queue' \in Seq(Taken \cup {Stop}) /\ Len(queue') <= QueueMax /\ asked' \in Seq(Taken)
  BY CloseJoinTurns DEF MDTypeInv, MDTypeOK
<1>4. /\ md' \in MDRecords /\ md'.reports \in Plans /\ (md'.pc = "manifest" => md'.reports # <<>>)
      /\ md'.pc \in Running \cup {"handler", "backstop"} => md'.reports = <<>>
      /\ md'.pc \in Closing => md'.reports \in {<<>>, <<"cancelled">>}
  BY CloseJoinTurns, TypesAre, PlansAre DEF MDTypeInv, At, Turn, AfterTurn, FailsTurn, BreaksManifest, Running, Closing, PostRun, Plans
<1>5. /\ UNCHANGED <<writer, error, raw, exports, count>>
      /\ faults' \in Nat /\ interrupts' \in Nat /\ UNCHANGED cancelled
  BY CloseJoinTurns
<1>6. /\ lost' \in BOOLEAN
      /\ outcar' \in Verdicts \cup {"none"}
      /\ manifest' \in [status : Verdicts \cup {"none", "broken"}, frames : Nat]
  BY CloseJoinTurns, PlansAre DEF MDTypeInv, MDTypeOK, BreaksManifest, Verdicts, Interrupt
<1> QED BY <1>3, <1>4, <1>5, <1>6, MDTypeKept

\* Types: the abort's CONTCAR.
LEMMA ContcarTypes ==
  ASSUME MDTypeInv, Contcar
  PROVE  MDTypeInv'
<1>3. queue' \in Seq(Taken \cup {Stop}) /\ Len(queue') <= QueueMax /\ asked' \in Seq(Taken)
  BY ContcarTurns DEF MDTypeInv, MDTypeOK
<1>4. /\ md' \in MDRecords /\ md'.reports \in Plans /\ (md'.pc = "manifest" => md'.reports # <<>>)
      /\ md'.pc \in Running \cup {"handler", "backstop"} => md'.reports = <<>>
      /\ md'.pc \in Closing => md'.reports \in {<<>>, <<"cancelled">>}
  BY ContcarTurns, TypesAre, PlansAre DEF MDTypeInv, At, Turn, AfterTurn, FailsTurn, BreaksManifest, Running, Closing, PostRun, Plans
<1>5. /\ UNCHANGED <<writer, error, raw, exports, count>>
      /\ faults' \in Nat /\ interrupts' \in Nat /\ UNCHANGED cancelled
  BY ContcarTurns
<1>6. /\ lost' \in BOOLEAN
      /\ outcar' \in Verdicts \cup {"none"}
      /\ manifest' \in [status : Verdicts \cup {"none", "broken"}, frames : Nat]
  BY ContcarTurns, PlansAre DEF MDTypeInv, MDTypeOK, BreaksManifest, Verdicts, Interrupt
<1> QED BY <1>3, <1>4, <1>5, <1>6, MDTypeKept

\* Types: the OUTCAR trailer.
LEMMA PublishTrailerTypes ==
  ASSUME MDTypeInv, PublishTrailer
  PROVE  MDTypeInv'
<1>3. queue' \in Seq(Taken \cup {Stop}) /\ Len(queue') <= QueueMax /\ asked' \in Seq(Taken)
  BY PublishTrailerTurns DEF MDTypeInv, MDTypeOK
<1>4. /\ md' \in MDRecords /\ md'.reports \in Plans /\ (md'.pc = "manifest" => md'.reports # <<>>)
      /\ md'.pc \in Running \cup {"handler", "backstop"} => md'.reports = <<>>
      /\ md'.pc \in Closing => md'.reports \in {<<>>, <<"cancelled">>}
  BY PublishTrailerTurns, TypesAre, PlansAre DEF MDTypeInv, At, Turn, AfterTurn, FailsTurn, BreaksManifest, Running, Closing, PostRun, Plans
<1>5. /\ UNCHANGED <<writer, error, raw, exports, count>>
      /\ faults' \in Nat /\ interrupts' \in Nat /\ UNCHANGED cancelled
  BY PublishTrailerTurns
<1>6. /\ lost' \in BOOLEAN
      /\ outcar' \in Verdicts \cup {"none"}
      /\ manifest' \in [status : Verdicts \cup {"none", "broken"}, frames : Nat]
  BY PublishTrailerTurns, PlansAre DEF MDTypeInv, MDTypeOK, BreaksManifest, Verdicts, Interrupt
<1> QED BY <1>3, <1>4, <1>5, <1>6, MDTypeKept

\* Types: the terminal manifest.
LEMMA PublishManifestTypes ==
  ASSUME MDTypeInv, PublishManifest
  PROVE  MDTypeInv'
<1>3. queue' \in Seq(Taken \cup {Stop}) /\ Len(queue') <= QueueMax /\ asked' \in Seq(Taken)
  BY PublishManifestTurns DEF MDTypeInv, MDTypeOK
<1>4. /\ md' \in MDRecords /\ md'.reports \in Plans /\ (md'.pc = "manifest" => md'.reports # <<>>)
      /\ md'.pc \in Running \cup {"handler", "backstop"} => md'.reports = <<>>
      /\ md'.pc \in Closing => md'.reports \in {<<>>, <<"cancelled">>}
  BY PublishManifestTurns, TypesAre, PlansAre DEF MDTypeInv, At, Turn, AfterTurn, FailsTurn, BreaksManifest, Running, Closing, PostRun, Plans
<1>5. /\ UNCHANGED <<writer, error, raw, exports, count>>
      /\ faults' \in Nat /\ interrupts' \in Nat /\ UNCHANGED cancelled
  BY PublishManifestTurns
<1>6. /\ lost' \in BOOLEAN
      /\ outcar' \in Verdicts \cup {"none"}
      /\ manifest' \in [status : Verdicts \cup {"none", "broken"}, frames : Nat]
  <2>1. Head(md.reports) \in Verdicts /\ count \in Nat /\ manifest.frames \in Nat
    BY PublishManifestTurns, PlansAre DEF MDTypeInv, MDTypeOK, At
  <2>2. /\ lost \in BOOLEAN /\ outcar \in Verdicts \cup {"none"}
        /\ manifest \in [status : Verdicts \cup {"none", "broken"}, frames : Nat]
    BY DEF MDTypeInv, MDTypeOK
  <2>3. CASE manifest' = [status |-> Head(md.reports), frames |-> count] /\ UNCHANGED lost
    BY <2>1, <2>2, <2>3, PublishManifestTurns
  <2>4. CASE lost' = TRUE /\ BreaksManifest
    BY <2>1, <2>2, <2>4, PublishManifestTurns DEF BreaksManifest
  <2> QED BY <2>3, <2>4, PublishManifestTurns
<1> QED BY <1>3, <1>4, <1>5, <1>6, MDTypeKept

\* Types: the end of the run.
LEMMA PostTypes ==
  ASSUME MDTypeInv, Post
  PROVE  MDTypeInv'
<1>3. queue' \in Seq(Taken \cup {Stop}) /\ Len(queue') <= QueueMax /\ asked' \in Seq(Taken)
  BY PostTurns DEF MDTypeInv, MDTypeOK
<1>4. /\ md' \in MDRecords /\ md'.reports \in Plans /\ (md'.pc = "manifest" => md'.reports # <<>>)
      /\ md'.pc \in Running \cup {"handler", "backstop"} => md'.reports = <<>>
      /\ md'.pc \in Closing => md'.reports \in {<<>>, <<"cancelled">>}
  BY PostTurns, TypesAre, PlansAre DEF MDTypeInv, At, Turn, AfterTurn, FailsTurn, BreaksManifest, Running, Closing, PostRun, Plans
<1>5. /\ UNCHANGED <<writer, error, raw, exports, count>>
      /\ faults' \in Nat /\ interrupts' \in Nat /\ UNCHANGED cancelled
  BY PostTurns
<1>6. /\ lost' \in BOOLEAN
      /\ outcar' \in Verdicts \cup {"none"}
      /\ manifest' \in [status : Verdicts \cup {"none", "broken"}, frames : Nat]
  BY PostTurns, PlansAre DEF MDTypeInv, MDTypeOK, BreaksManifest, Verdicts, Interrupt
<1> QED BY <1>3, <1>4, <1>5, <1>6, MDTypeKept

\* Types: the trailer of a late failure.
LEMMA PostTrailerTypes ==
  ASSUME MDTypeInv, PostTrailer
  PROVE  MDTypeInv'
<1>3. queue' \in Seq(Taken \cup {Stop}) /\ Len(queue') <= QueueMax /\ asked' \in Seq(Taken)
  BY PostTrailerTurns DEF MDTypeInv, MDTypeOK
<1>4. /\ md' \in MDRecords /\ md'.reports \in Plans /\ (md'.pc = "manifest" => md'.reports # <<>>)
      /\ md'.pc \in Running \cup {"handler", "backstop"} => md'.reports = <<>>
      /\ md'.pc \in Closing => md'.reports \in {<<>>, <<"cancelled">>}
  BY PostTrailerTurns, TypesAre, PlansAre DEF MDTypeInv, At, Turn, AfterTurn, FailsTurn, BreaksManifest, Running, Closing, PostRun, Plans
<1>5. /\ UNCHANGED <<writer, error, raw, exports, count>>
      /\ faults' \in Nat /\ interrupts' \in Nat /\ UNCHANGED cancelled
  BY PostTrailerTurns
<1>6. /\ lost' \in BOOLEAN
      /\ outcar' \in Verdicts \cup {"none"}
      /\ manifest' \in [status : Verdicts \cup {"none", "broken"}, frames : Nat]
  BY PostTrailerTurns, PlansAre DEF MDTypeInv, MDTypeOK, BreaksManifest, Verdicts, Interrupt
<1> QED BY <1>3, <1>4, <1>5, <1>6, MDTypeKept

\* Types: the manifest of a late failure.
LEMMA PostManifestTypes ==
  ASSUME MDTypeInv, PostManifest
  PROVE  MDTypeInv'
<1>3. queue' \in Seq(Taken \cup {Stop}) /\ Len(queue') <= QueueMax /\ asked' \in Seq(Taken)
  BY PostManifestTurns DEF MDTypeInv, MDTypeOK
<1>4. /\ md' \in MDRecords /\ md'.reports \in Plans /\ (md'.pc = "manifest" => md'.reports # <<>>)
      /\ md'.pc \in Running \cup {"handler", "backstop"} => md'.reports = <<>>
      /\ md'.pc \in Closing => md'.reports \in {<<>>, <<"cancelled">>}
  BY PostManifestTurns, TypesAre, PlansAre DEF MDTypeInv, At, Turn, AfterTurn, FailsTurn, BreaksManifest, Running, Closing, PostRun, Plans
<1>5. /\ UNCHANGED <<writer, error, raw, exports, count>>
      /\ faults' \in Nat /\ interrupts' \in Nat /\ UNCHANGED cancelled
  BY PostManifestTurns
<1>6. /\ lost' \in BOOLEAN
      /\ outcar' \in Verdicts \cup {"none"}
      /\ manifest' \in [status : Verdicts \cup {"none", "broken"}, frames : Nat]
  BY PostManifestTurns, PlansAre DEF MDTypeInv, MDTypeOK, BreaksManifest, Verdicts, Interrupt
<1> QED BY <1>3, <1>4, <1>5, <1>6, MDTypeKept

\* Types: the return.
LEMMA LeaveTypes ==
  ASSUME MDTypeInv, Leave
  PROVE  MDTypeInv'
<1>3. queue' \in Seq(Taken \cup {Stop}) /\ Len(queue') <= QueueMax /\ asked' \in Seq(Taken)
  BY LeaveTurns DEF MDTypeInv, MDTypeOK
<1>4. /\ md' \in MDRecords /\ md'.reports \in Plans /\ (md'.pc = "manifest" => md'.reports # <<>>)
      /\ md'.pc \in Running \cup {"handler", "backstop"} => md'.reports = <<>>
      /\ md'.pc \in Closing => md'.reports \in {<<>>, <<"cancelled">>}
  BY LeaveTurns, TypesAre, PlansAre DEF MDTypeInv, At, Turn, AfterTurn, FailsTurn, BreaksManifest, Running, Closing, PostRun, Plans
<1>5. /\ UNCHANGED <<writer, error, raw, exports, count>>
      /\ faults' \in Nat /\ interrupts' \in Nat /\ UNCHANGED cancelled
  BY LeaveTurns
<1>6. /\ lost' \in BOOLEAN
      /\ outcar' \in Verdicts \cup {"none"}
      /\ manifest' \in [status : Verdicts \cup {"none", "broken"}, frames : Nat]
  BY LeaveTurns, PlansAre DEF MDTypeInv, MDTypeOK, BreaksManifest, Verdicts, Interrupt
<1> QED BY <1>3, <1>4, <1>5, <1>6, MDTypeKept

\* Types: a KeyboardInterrupt.
LEMMA InterruptTypes ==
  ASSUME MDTypeInv, Interrupt
  PROVE  MDTypeInv'
<1>3. queue' \in Seq(Taken \cup {Stop}) /\ Len(queue') <= QueueMax /\ asked' \in Seq(Taken)
  BY InterruptTurns DEF MDTypeInv, MDTypeOK
<1>4. /\ md' \in MDRecords /\ md'.reports \in Plans /\ (md'.pc = "manifest" => md'.reports # <<>>)
      /\ md'.pc \in Running \cup {"handler", "backstop"} => md'.reports = <<>>
      /\ md'.pc \in Closing => md'.reports \in {<<>>, <<"cancelled">>}
  BY InterruptTurns, TypesAre, PlansAre DEF MDTypeInv, At, Turn, AfterTurn, FailsTurn, BreaksManifest, Running, Closing, PostRun, Plans
<1>5. /\ UNCHANGED <<writer, error, raw, exports, count>>
      /\ faults' \in Nat /\ interrupts' \in Nat /\ UNCHANGED cancelled
  BY InterruptTurns
<1>6. /\ lost' \in BOOLEAN
      /\ outcar' \in Verdicts \cup {"none"}
      /\ manifest' \in [status : Verdicts \cup {"none", "broken"}, frames : Nat]
  BY InterruptTurns, PlansAre DEF MDTypeInv, MDTypeOK, BreaksManifest, Verdicts, Interrupt
<1> QED BY <1>3, <1>4, <1>5, <1>6, MDTypeKept

\* Trailers and manifests stay in step: a progress call.
LEMMA ObserveReports ==
  ASSUME MDTypeInv, ReportsInv, Observe
  PROVE  ReportsInv'
BY ObserveTurns, PlansAre DEF MDTypeInv, MDTypeOK, ReportsInv, TrailerAgrees, BeforeReport, At, Turn, AfterTurn, FailsTurn, BreaksManifest, Running, Closing, PostRun, Plans, Verdicts

\* Trailers and manifests stay in step: the first look of submit.
LEMMA SubmitCheckReports ==
  ASSUME MDTypeInv, ReportsInv, SubmitCheck
  PROVE  ReportsInv'
BY SubmitCheckTurns, PlansAre DEF MDTypeInv, MDTypeOK, ReportsInv, TrailerAgrees, BeforeReport, At, Turn, AfterTurn, FailsTurn, BreaksManifest, Running, Closing, PostRun, Plans, Verdicts

\* Trailers and manifests stay in step: the wait for room in the queue.
LEMMA SubmitPutReports ==
  ASSUME MDTypeInv, ReportsInv, SubmitPut
  PROVE  ReportsInv'
BY SubmitPutTurns, PlansAre DEF MDTypeInv, MDTypeOK, ReportsInv, TrailerAgrees, BeforeReport, At, Turn, AfterTurn, FailsTurn, BreaksManifest, Running, Closing, PostRun, Plans, Verdicts

\* Trailers and manifests stay in step: an except clause, or the finally block.
LEMMA HandlerReports ==
  ASSUME MDTypeInv, ReportsInv, Handler
  PROVE  ReportsInv'
BY HandlerTurns, PlansAre DEF MDTypeInv, MDTypeOK, ReportsInv, TrailerAgrees, BeforeReport, At, Turn, AfterTurn, FailsTurn, BreaksManifest, Running, Closing, PostRun, Plans, Verdicts

\* Trailers and manifests stay in step: the first look of close.
LEMMA CloseCheckReports ==
  ASSUME MDTypeInv, ReportsInv, CloseCheck
  PROVE  ReportsInv'
BY CloseCheckTurns, PlansAre DEF MDTypeInv, MDTypeOK, ReportsInv, TrailerAgrees, BeforeReport, At, Turn, AfterTurn, FailsTurn, BreaksManifest, Running, Closing, PostRun, Plans, Verdicts

\* Trailers and manifests stay in step: the loop around the sentinel.
LEMMA CloseSentinelReports ==
  ASSUME MDTypeInv, ReportsInv, CloseSentinel
  PROVE  ReportsInv'
BY CloseSentinelTurns, PlansAre DEF MDTypeInv, MDTypeOK, ReportsInv, TrailerAgrees, BeforeReport, At, Turn, AfterTurn, FailsTurn, BreaksManifest, Running, Closing, PostRun, Plans, Verdicts

\* Trailers and manifests stay in step: the join.
LEMMA CloseJoinReports ==
  ASSUME MDTypeInv, ReportsInv, CloseJoin
  PROVE  ReportsInv'
BY CloseJoinTurns, PlansAre DEF MDTypeInv, MDTypeOK, ReportsInv, TrailerAgrees, BeforeReport, At, Turn, AfterTurn, FailsTurn, BreaksManifest, Running, Closing, PostRun, Plans, Verdicts

\* Trailers and manifests stay in step: the abort's CONTCAR.
LEMMA ContcarReports ==
  ASSUME MDTypeInv, ReportsInv, Contcar
  PROVE  ReportsInv'
BY ContcarTurns, PlansAre DEF MDTypeInv, MDTypeOK, ReportsInv, TrailerAgrees, BeforeReport, At, Turn, AfterTurn, FailsTurn, BreaksManifest, Running, Closing, PostRun, Plans, Verdicts

\* Trailers and manifests stay in step: the OUTCAR trailer.
LEMMA PublishTrailerReports ==
  ASSUME MDTypeInv, ReportsInv, PublishTrailer
  PROVE  ReportsInv'
BY PublishTrailerTurns, PlansAre DEF MDTypeInv, MDTypeOK, ReportsInv, TrailerAgrees, BeforeReport, At, Turn, AfterTurn, FailsTurn, BreaksManifest, Running, Closing, PostRun, Plans, Verdicts

\* Trailers and manifests stay in step: the end of the run.
LEMMA PostReports ==
  ASSUME MDTypeInv, ReportsInv, Post
  PROVE  ReportsInv'
BY PostTurns, PlansAre DEF MDTypeInv, MDTypeOK, ReportsInv, TrailerAgrees, BeforeReport, At, Turn, AfterTurn, FailsTurn, BreaksManifest, Running, Closing, PostRun, Plans, Verdicts

\* Trailers and manifests stay in step: the trailer of a late failure.
LEMMA PostTrailerReports ==
  ASSUME MDTypeInv, ReportsInv, PostTrailer
  PROVE  ReportsInv'
BY PostTrailerTurns, PlansAre DEF MDTypeInv, MDTypeOK, ReportsInv, TrailerAgrees, BeforeReport, At, Turn, AfterTurn, FailsTurn, BreaksManifest, Running, Closing, PostRun, Plans, Verdicts

\* Trailers and manifests stay in step: the manifest of a late failure.
LEMMA PostManifestReports ==
  ASSUME MDTypeInv, ReportsInv, PostManifest
  PROVE  ReportsInv'
BY PostManifestTurns, PlansAre DEF MDTypeInv, MDTypeOK, ReportsInv, TrailerAgrees, BeforeReport, At, Turn, AfterTurn, FailsTurn, BreaksManifest, Running, Closing, PostRun, Plans, Verdicts

\* Trailers and manifests stay in step: the return.
LEMMA LeaveReports ==
  ASSUME MDTypeInv, ReportsInv, Leave
  PROVE  ReportsInv'
BY LeaveTurns, PlansAre DEF MDTypeInv, MDTypeOK, ReportsInv, TrailerAgrees, BeforeReport, At, Turn, AfterTurn, FailsTurn, BreaksManifest, Running, Closing, PostRun, Plans, Verdicts

\* Trailers and manifests stay in step: the terminal manifest.
LEMMA PublishManifestReports ==
  ASSUME MDTypeInv, ReportsInv, PublishManifest
  PROVE  ReportsInv'
<1>1. /\ At("manifest") /\ md'.pc = "trailer" /\ md'.reports = Tail(md.reports) /\ outcar' = outcar
      /\ md.reports \in Plans \ {<<>>}
  BY PublishManifestTurns DEF MDTypeInv, Turn
<1>2. CASE manifest' = [status |-> Head(md.reports), frames |-> count] /\ UNCHANGED lost
  <2>1. ~lost' => outcar' = Head(md.reports) /\ manifest'.status = Head(md.reports)
    BY <1>1, <1>2 DEF ReportsInv
  <2> QED BY <1>1, <2>1 DEF ReportsInv, TrailerAgrees, BeforeReport, At, Running, Closing
<1>3. CASE lost' = TRUE /\ BreaksManifest
  BY <1>1, <1>3 DEF ReportsInv, TrailerAgrees, BeforeReport, At, Running, Closing
<1> QED BY <1>2, <1>3, PublishManifestTurns

\* Trailers and manifests stay in step: a KeyboardInterrupt.
LEMMA InterruptReports ==
  ASSUME MDTypeInv, ReportsInv, Interrupt
  PROVE  ReportsInv'
<1>0. <<"cancelled">> # <<>>
  OBVIOUS
<1>1. /\ UNCHANGED <<outcar, manifest>>
      /\ lost' = (lost \/ md.pc \in {"trailer", "manifest"})
      /\ md.pc # "gone" /\ md.pc \in MDPc
  BY InterruptTurns DEF Interrupt, MDTypeInv, MDTypeOK
<1>2. CASE md.pc \in BeforeReport
  <2>1. manifest'.status = "none"
    BY <1>1, <1>2 DEF ReportsInv
  <2>2. md'.pc \in {"handler", "backstop", "gone"} \/ (md'.pc = "trailer" /\ md'.reports # <<>>)
    BY <1>0, <1>2, InterruptTurns DEF Turn, At, BeforeReport, Running, Closing, PostRun
  <2> QED BY <2>1, <2>2 DEF ReportsInv, TrailerAgrees, At, Verdicts
<1>3. CASE At("leave")
  <2>1. md'.pc = "trailer" /\ md'.reports # <<>>
    BY <1>0, <1>3, InterruptTurns DEF Turn, At, Running, PostRun
  <2> QED BY <2>1 DEF ReportsInv, TrailerAgrees, At, BeforeReport, Running, Closing
<1>4. CASE md.pc \in {"trailer", "manifest"}
  <2>1. md'.pc = "gone" /\ lost'
    BY <1>1, <1>4, InterruptTurns DEF Turn, At, Running, PostRun
  <2> QED BY <2>1 DEF ReportsInv, TrailerAgrees, At, BeforeReport, Running, Closing
<1> QED BY <1>1, <1>2, <1>3, <1>4 DEF MDPc, BeforeReport, PostRun, At

-----------------------------------------------------------------------------
(* The steps of the writer thread. *)

WriterRecords == [pc : {"open", "get", "raw", "record", "export", "closing", "ended"},
                  frame : Taken]

WriterTurn(pc, frame) ==
  writer' \in WriterRecords /\ writer'.pc = pc /\ writer'.frame = frame

\* The writer fails: it closes its files and leaves its queue alone.
FailTurn == error' = TRUE /\ WriterTurn("closing", writer.frame)

\* A step of the writer that only moves on.
LEMMA WriterGotoTurn ==
  ASSUME MDTypeInv, NEW pc \in {"get", "record", "export"}, WriterGoto(pc)
  PROVE  WriterTurn(pc, writer.frame) /\ UNCHANGED <<error, faults>>
BY DEF MDTypeInv, MDTypeOK, WriterGoto, WriterTurn, WriterRecords

\* A failed write of the writer sets the error slot.
LEMMA WriterFailsTurn ==
  ASSUME MDTypeInv, WriterFails
  PROVE  FailTurn /\ faults' \in Nat
<1>1. writer' = [writer EXCEPT !.pc = "closing"] /\ writer \in WriterRecords
  BY DEF WriterFails, MDTypeInv, MDTypeOK, WriterRecords
<1>2. WriterTurn("closing", writer.frame)
  BY <1>1 DEF WriterTurn, WriterRecords
<1>3. error' = TRUE /\ faults' = faults + 1 /\ faults \in Nat
  BY TypesAre DEF WriterFails, Fault
<1> QED BY <1>2, <1>3 DEF FailTurn

\* What one more element does to a sequence.
LEMMA AppendIs ==
  ASSUME NEW S, NEW s \in Seq(S), NEW e \in S
  PROVE  /\ Append(s, e) \in Seq(S)
         /\ Len(Append(s, e)) = Len(s) + 1 /\ Len(s) \in Nat
         /\ \A i \in 1..Len(s) : Append(s, e)[i] = s[i]
         /\ Append(s, e)[Len(s) + 1] = e
OBVIOUS

\* What one element less leaves of it.
LEMMA TailIs ==
  ASSUME NEW S, NEW s \in Seq(S), s # <<>>
  PROVE  /\ Tail(s) \in Seq(S)
         /\ Len(Tail(s)) = Len(s) - 1 /\ Len(s) \in Nat \ {0}
         /\ \A i \in 1..(Len(s) - 1) : Tail(s)[i] = s[i + 1]
         /\ Head(s) = s[1]
OBVIOUS

\* What the opening of the files does to the record of its thread.
LEMMA OpenFilesTurns ==
  ASSUME MDTypeInv, OpenFiles
  PROVE  /\ writer.pc = "open"
         /\ \/ WriterTurn("get", writer.frame) /\ UNCHANGED error
            \/ FailTurn
         /\ UNCHANGED <<md, outcar, manifest, lost, cancelled, interrupts, asked, queue, raw, exports, count>>
         /\ faults' \in Nat
BY TypesAre, WriterGotoTurn, WriterFailsTurn DEF OpenFiles, mdVars

\* What the get of a frame does to the record of its thread.
LEMMA GetFrameTurns ==
  ASSUME MDTypeInv, GetFrame
  PROVE  /\ writer.pc = "get" /\ queue # <<>> /\ queue' = Tail(queue)
         /\ \/ Head(queue) = Stop /\ WriterTurn("closing", writer.frame)
            \/ Head(queue) # Stop /\ WriterTurn("raw", Head(queue))
         /\ UNCHANGED <<md, outcar, manifest, lost, cancelled, interrupts, asked, error, raw, exports, count>>
         /\ faults' \in Nat
<1>1. /\ writer.pc = "get" /\ queue # <<>> /\ queue' = Tail(queue)
      /\ UNCHANGED <<md, outcar, manifest, lost, cancelled, interrupts, asked, error, raw, exports, count>>
      /\ faults' \in Nat
  BY TypesAre DEF GetFrame, mdVars
<1>2. CASE Head(queue) = Stop
  BY <1>1, <1>2 DEF GetFrame, MDTypeInv, MDTypeOK, WriterTurn, WriterRecords
<1>3. CASE Head(queue) # Stop
  <2>1. Head(queue) \in Taken
    BY <1>1, <1>3 DEF MDTypeInv, MDTypeOK
  <2> QED BY <1>1, <1>3, <2>1 DEF GetFrame, WriterTurn, WriterRecords
<1> QED BY <1>2, <1>3

\* What the raw trajectory does to the record of its thread.
LEMMA WriteRawTurns ==
  ASSUME MDTypeInv, WriteRaw
  PROVE  /\ writer.pc = "raw"
         /\ \/ WriterTurn("record", writer.frame) /\ UNCHANGED error /\ raw' = Append(raw, writer.frame)
            \/ FailTurn /\ UNCHANGED raw
         /\ UNCHANGED <<md, outcar, manifest, lost, cancelled, interrupts, asked, queue, exports, count>>
         /\ faults' \in Nat
BY TypesAre, WriterGotoTurn, WriterFailsTurn DEF WriteRaw, mdVars

\* What the CSV row does to the record of its thread.
LEMMA RecordFrameTurns ==
  ASSUME MDTypeInv, RecordFrame
  PROVE  /\ writer.pc = "record"
         /\ \/ WriterTurn("export", writer.frame) /\ UNCHANGED error /\ count' = count + 1
            \/ FailTurn /\ UNCHANGED count
         /\ UNCHANGED <<md, outcar, manifest, lost, cancelled, interrupts, asked, queue, raw, exports>>
         /\ faults' \in Nat
BY TypesAre, WriterGotoTurn, WriterFailsTurn DEF RecordFrame, mdVars

\* What the export of a frame does to the record of its thread.
LEMMA ExportFrameTurns ==
  ASSUME MDTypeInv, ExportFrame
  PROVE  /\ writer.pc = "export"
         /\ \/ WriterTurn("get", writer.frame) /\ UNCHANGED error /\ exports' = Append(exports, writer.frame)
            \/ FailTurn /\ UNCHANGED exports
         /\ UNCHANGED <<md, outcar, manifest, lost, cancelled, interrupts, asked, queue, raw, count>>
         /\ faults' \in Nat
BY TypesAre, WriterGotoTurn, WriterFailsTurn DEF ExportFrame, mdVars

\* What the closing of the files does to the record of its thread.
LEMMA CloseFilesTurns ==
  ASSUME MDTypeInv, CloseFiles
  PROVE  /\ writer.pc = "closing" /\ WriterTurn("ended", writer.frame)
         /\ error' = error \/ error' = TRUE
         /\ UNCHANGED <<md, outcar, manifest, lost, cancelled, interrupts, asked, queue, raw, exports, count>>
         /\ faults' \in Nat
<1>1. writer' = [writer EXCEPT !.pc = "ended"] /\ writer \in WriterRecords /\ writer.pc = "closing"
  BY DEF CloseFiles, MDTypeInv, MDTypeOK, WriterRecords
<1>2. WriterTurn("ended", writer.frame)
  BY <1>1 DEF WriterTurn, WriterRecords
<1>3. (error' = error \/ error' = TRUE) /\ faults' \in Nat
  BY TypesAre DEF CloseFiles, Fault
<1> QED BY <1>1, <1>2, <1>3 DEF CloseFiles, mdVars

\* A step of the writer keeps the types of what the MD thread owns.
LEMMA WriterTypeKept ==
  ASSUME MDTypeInv, writer' \in WriterRecords, error' \in BOOLEAN,
         queue' \in Seq(Taken \cup {Stop}), Len(queue') <= QueueMax,
         raw' \in Seq(Taken), exports' \in Seq(Taken), count' \in Nat, faults' \in Nat,
         UNCHANGED <<md, outcar, manifest, lost, cancelled, interrupts, asked>>
  PROVE  MDTypeInv'
BY DEF MDTypeInv, MDTypeOK, WriterRecords, At

\* Types: the opening of the files.
LEMMA OpenFilesTypes ==
  ASSUME MDTypeInv, OpenFiles
  PROVE  MDTypeInv'
<1>1. /\ queue \in Seq(Taken \cup {Stop}) /\ Len(queue) <= QueueMax /\ error \in BOOLEAN
      /\ raw \in Seq(Taken) /\ exports \in Seq(Taken) /\ count \in Nat /\ writer.frame \in Taken
  BY DEF MDTypeInv, MDTypeOK
<1>2. writer' \in WriterRecords /\ error' \in BOOLEAN /\ faults' \in Nat
      /\ UNCHANGED <<md, outcar, manifest, lost, cancelled, interrupts, asked>>
  BY <1>1, OpenFilesTurns DEF FailTurn, WriterTurn
<1>3. queue' \in Seq(Taken \cup {Stop}) /\ Len(queue') <= QueueMax
  BY <1>1, OpenFilesTurns
<1>4. raw' \in Seq(Taken) /\ exports' \in Seq(Taken) /\ count' \in Nat
  BY <1>1, OpenFilesTurns
<1> QED BY <1>2, <1>3, <1>4, WriterTypeKept

\* Types: the get of a frame.
LEMMA GetFrameTypes ==
  ASSUME MDTypeInv, GetFrame
  PROVE  MDTypeInv'
<1>1. /\ queue \in Seq(Taken \cup {Stop}) /\ Len(queue) <= QueueMax /\ error \in BOOLEAN
      /\ raw \in Seq(Taken) /\ exports \in Seq(Taken) /\ count \in Nat /\ writer.frame \in Taken
  BY DEF MDTypeInv, MDTypeOK
<1>2. writer' \in WriterRecords /\ error' \in BOOLEAN /\ faults' \in Nat
      /\ UNCHANGED <<md, outcar, manifest, lost, cancelled, interrupts, asked>>
  BY <1>1, GetFrameTurns DEF FailTurn, WriterTurn
<1>3. queue' \in Seq(Taken \cup {Stop}) /\ Len(queue') <= QueueMax
  <2>1. queue' = Tail(queue) /\ queue # <<>>
    BY GetFrameTurns
  <2>2. queue' \in Seq(Taken \cup {Stop}) /\ Len(queue') = Len(queue) - 1 /\ Len(queue) \in Nat
    BY <1>1, <2>1, TailIs
  <2>3. QueueMax \in Nat
    BY QueuePositive
  <2> QED BY <1>1, <2>2, <2>3
<1>4. raw' \in Seq(Taken) /\ exports' \in Seq(Taken) /\ count' \in Nat
  BY <1>1, GetFrameTurns
<1> QED BY <1>2, <1>3, <1>4, WriterTypeKept

\* Types: the raw trajectory.
LEMMA WriteRawTypes ==
  ASSUME MDTypeInv, WriteRaw
  PROVE  MDTypeInv'
<1>1. /\ queue \in Seq(Taken \cup {Stop}) /\ Len(queue) <= QueueMax /\ error \in BOOLEAN
      /\ raw \in Seq(Taken) /\ exports \in Seq(Taken) /\ count \in Nat /\ writer.frame \in Taken
  BY DEF MDTypeInv, MDTypeOK
<1>2. writer' \in WriterRecords /\ error' \in BOOLEAN /\ faults' \in Nat
      /\ UNCHANGED <<md, outcar, manifest, lost, cancelled, interrupts, asked>>
  BY <1>1, WriteRawTurns DEF FailTurn, WriterTurn
<1>3. queue' \in Seq(Taken \cup {Stop}) /\ Len(queue') <= QueueMax
  BY <1>1, WriteRawTurns
<1>4. raw' \in Seq(Taken) /\ exports' \in Seq(Taken) /\ count' \in Nat
  <2>1. UNCHANGED <<exports, count>> /\ (raw' = Append(raw, writer.frame) \/ UNCHANGED raw)
    BY WriteRawTurns
  <2>2. Append(raw, writer.frame) \in Seq(Taken)
    BY <1>1, AppendIs
  <2> QED BY <1>1, <2>1, <2>2
<1> QED BY <1>2, <1>3, <1>4, WriterTypeKept

\* Types: the CSV row.
LEMMA RecordFrameTypes ==
  ASSUME MDTypeInv, RecordFrame
  PROVE  MDTypeInv'
<1>1. /\ queue \in Seq(Taken \cup {Stop}) /\ Len(queue) <= QueueMax /\ error \in BOOLEAN
      /\ raw \in Seq(Taken) /\ exports \in Seq(Taken) /\ count \in Nat /\ writer.frame \in Taken
  BY DEF MDTypeInv, MDTypeOK
<1>2. writer' \in WriterRecords /\ error' \in BOOLEAN /\ faults' \in Nat
      /\ UNCHANGED <<md, outcar, manifest, lost, cancelled, interrupts, asked>>
  BY <1>1, RecordFrameTurns DEF FailTurn, WriterTurn
<1>3. queue' \in Seq(Taken \cup {Stop}) /\ Len(queue') <= QueueMax
  BY <1>1, RecordFrameTurns
<1>4. raw' \in Seq(Taken) /\ exports' \in Seq(Taken) /\ count' \in Nat
  BY <1>1, RecordFrameTurns
<1> QED BY <1>2, <1>3, <1>4, WriterTypeKept

\* Types: the export of a frame.
LEMMA ExportFrameTypes ==
  ASSUME MDTypeInv, ExportFrame
  PROVE  MDTypeInv'
<1>1. /\ queue \in Seq(Taken \cup {Stop}) /\ Len(queue) <= QueueMax /\ error \in BOOLEAN
      /\ raw \in Seq(Taken) /\ exports \in Seq(Taken) /\ count \in Nat /\ writer.frame \in Taken
  BY DEF MDTypeInv, MDTypeOK
<1>2. writer' \in WriterRecords /\ error' \in BOOLEAN /\ faults' \in Nat
      /\ UNCHANGED <<md, outcar, manifest, lost, cancelled, interrupts, asked>>
  BY <1>1, ExportFrameTurns DEF FailTurn, WriterTurn
<1>3. queue' \in Seq(Taken \cup {Stop}) /\ Len(queue') <= QueueMax
  BY <1>1, ExportFrameTurns
<1>4. raw' \in Seq(Taken) /\ exports' \in Seq(Taken) /\ count' \in Nat
  <2>1. UNCHANGED <<raw, count>> /\ (exports' = Append(exports, writer.frame) \/ UNCHANGED exports)
    BY ExportFrameTurns
  <2>2. Append(exports, writer.frame) \in Seq(Taken)
    BY <1>1, AppendIs
  <2> QED BY <1>1, <2>1, <2>2
<1> QED BY <1>2, <1>3, <1>4, WriterTypeKept

\* Types: the closing of the files.
LEMMA CloseFilesTypes ==
  ASSUME MDTypeInv, CloseFiles
  PROVE  MDTypeInv'
<1>1. /\ queue \in Seq(Taken \cup {Stop}) /\ Len(queue) <= QueueMax /\ error \in BOOLEAN
      /\ raw \in Seq(Taken) /\ exports \in Seq(Taken) /\ count \in Nat /\ writer.frame \in Taken
  BY DEF MDTypeInv, MDTypeOK
<1>2. writer' \in WriterRecords /\ error' \in BOOLEAN /\ faults' \in Nat
      /\ UNCHANGED <<md, outcar, manifest, lost, cancelled, interrupts, asked>>
  BY <1>1, CloseFilesTurns DEF FailTurn, WriterTurn
<1>3. queue' \in Seq(Taken \cup {Stop}) /\ Len(queue') <= QueueMax
  BY <1>1, CloseFilesTurns
<1>4. raw' \in Seq(Taken) /\ exports' \in Seq(Taken) /\ count' \in Nat
  BY <1>1, CloseFilesTurns
<1> QED BY <1>2, <1>3, <1>4, WriterTypeKept

-----------------------------------------------------------------------------
(* The frames. *)

\* A step of the MD thread that puts nothing into the queue.
LEMMA FramesStay ==
  ASSUME FramesInv, UNCHANGED <<writer, error, raw, exports, count, queue, asked>>,
         md'.pc \in SendsFrames => md.pc \in SendsFrames
  PROVE  FramesInv'
BY DEF FramesInv, StopInv, FlowInv, FilesInv, Held, Stopped, Waiting

\* Every frame stays in its place: a progress call.
LEMMA ObserveFrames ==
  ASSUME MDTypeInv, FramesInv, Observe
  PROVE  FramesInv'
<1>1. md'.pc \in SendsFrames => md.pc \in SendsFrames
  BY ObserveTurns DEF At, Turn, AfterTurn, FailsTurn, BreaksManifest, Running, Closing, PostRun, SendsFrames
<1> QED BY <1>1, ObserveTurns, FramesStay

\* Every frame stays in its place: the first look of submit.
LEMMA SubmitCheckFrames ==
  ASSUME MDTypeInv, FramesInv, SubmitCheck
  PROVE  FramesInv'
<1>1. md'.pc \in SendsFrames => md.pc \in SendsFrames
  BY SubmitCheckTurns DEF At, Turn, AfterTurn, FailsTurn, BreaksManifest, Running, Closing, PostRun, SendsFrames
<1> QED BY <1>1, SubmitCheckTurns, FramesStay

\* Every frame stays in its place: an except clause, or the finally block.
LEMMA HandlerFrames ==
  ASSUME MDTypeInv, FramesInv, Handler
  PROVE  FramesInv'
<1>1. md'.pc \in SendsFrames => md.pc \in SendsFrames
  BY HandlerTurns DEF At, Turn, AfterTurn, FailsTurn, BreaksManifest, Running, Closing, PostRun, SendsFrames
<1> QED BY <1>1, HandlerTurns, FramesStay

\* Every frame stays in its place: the first look of close.
LEMMA CloseCheckFrames ==
  ASSUME MDTypeInv, FramesInv, CloseCheck
  PROVE  FramesInv'
<1>1. md'.pc \in SendsFrames => md.pc \in SendsFrames
  BY CloseCheckTurns DEF At, Turn, AfterTurn, FailsTurn, BreaksManifest, Running, Closing, PostRun, SendsFrames
<1> QED BY <1>1, CloseCheckTurns, FramesStay

\* Every frame stays in its place: the join.
LEMMA CloseJoinFrames ==
  ASSUME MDTypeInv, FramesInv, CloseJoin
  PROVE  FramesInv'
<1>1. md'.pc \in SendsFrames => md.pc \in SendsFrames
  BY CloseJoinTurns DEF At, Turn, AfterTurn, FailsTurn, BreaksManifest, Running, Closing, PostRun, SendsFrames
<1> QED BY <1>1, CloseJoinTurns, FramesStay

\* Every frame stays in its place: the abort's CONTCAR.
LEMMA ContcarFrames ==
  ASSUME MDTypeInv, FramesInv, Contcar
  PROVE  FramesInv'
<1>1. md'.pc \in SendsFrames => md.pc \in SendsFrames
  BY ContcarTurns DEF At, Turn, AfterTurn, FailsTurn, BreaksManifest, Running, Closing, PostRun, SendsFrames
<1> QED BY <1>1, ContcarTurns, FramesStay

\* Every frame stays in its place: the OUTCAR trailer.
LEMMA PublishTrailerFrames ==
  ASSUME MDTypeInv, FramesInv, PublishTrailer
  PROVE  FramesInv'
<1>1. md'.pc \in SendsFrames => md.pc \in SendsFrames
  BY PublishTrailerTurns DEF At, Turn, AfterTurn, FailsTurn, BreaksManifest, Running, Closing, PostRun, SendsFrames
<1> QED BY <1>1, PublishTrailerTurns, FramesStay

\* Every frame stays in its place: the terminal manifest.
LEMMA PublishManifestFrames ==
  ASSUME MDTypeInv, FramesInv, PublishManifest
  PROVE  FramesInv'
<1>1. md'.pc \in SendsFrames => md.pc \in SendsFrames
  BY PublishManifestTurns DEF At, Turn, AfterTurn, FailsTurn, BreaksManifest, Running, Closing, PostRun, SendsFrames
<1> QED BY <1>1, PublishManifestTurns, FramesStay

\* Every frame stays in its place: the end of the run.
LEMMA PostFrames ==
  ASSUME MDTypeInv, FramesInv, Post
  PROVE  FramesInv'
<1>1. md'.pc \in SendsFrames => md.pc \in SendsFrames
  BY PostTurns DEF At, Turn, AfterTurn, FailsTurn, BreaksManifest, Running, Closing, PostRun, SendsFrames
<1> QED BY <1>1, PostTurns, FramesStay

\* Every frame stays in its place: the trailer of a late failure.
LEMMA PostTrailerFrames ==
  ASSUME MDTypeInv, FramesInv, PostTrailer
  PROVE  FramesInv'
<1>1. md'.pc \in SendsFrames => md.pc \in SendsFrames
  BY PostTrailerTurns DEF At, Turn, AfterTurn, FailsTurn, BreaksManifest, Running, Closing, PostRun, SendsFrames
<1> QED BY <1>1, PostTrailerTurns, FramesStay

\* Every frame stays in its place: the manifest of a late failure.
LEMMA PostManifestFrames ==
  ASSUME MDTypeInv, FramesInv, PostManifest
  PROVE  FramesInv'
<1>1. md'.pc \in SendsFrames => md.pc \in SendsFrames
  BY PostManifestTurns DEF At, Turn, AfterTurn, FailsTurn, BreaksManifest, Running, Closing, PostRun, SendsFrames
<1> QED BY <1>1, PostManifestTurns, FramesStay

\* Every frame stays in its place: the return.
LEMMA LeaveFrames ==
  ASSUME MDTypeInv, FramesInv, Leave
  PROVE  FramesInv'
<1>1. md'.pc \in SendsFrames => md.pc \in SendsFrames
  BY LeaveTurns DEF At, Turn, AfterTurn, FailsTurn, BreaksManifest, Running, Closing, PostRun, SendsFrames
<1> QED BY <1>1, LeaveTurns, FramesStay

\* Every frame stays in its place: a KeyboardInterrupt.
LEMMA InterruptFrames ==
  ASSUME MDTypeInv, FramesInv, Interrupt
  PROVE  FramesInv'
<1>1. md'.pc \in SendsFrames => md.pc \in SendsFrames
  BY InterruptTurns DEF At, Turn, AfterTurn, FailsTurn, BreaksManifest, Running, Closing, PostRun, SendsFrames
<1> QED BY <1>1, InterruptTurns, FramesStay

\* What is in the queue while the MD thread may still put a frame into it.
LEMMA NoStopYet ==
  ASSUME MDTypeInv, FramesInv, md.pc \in SendsFrames
  PROVE  /\ ~Stopped /\ Waiting = Len(queue) /\ Len(queue) \in Nat
         /\ \A i \in 1..Len(queue) : queue[i] # Stop
         /\ writer.pc \in Over => error
<1>1. Len(queue) \in Nat
  BY DEF MDTypeInv, MDTypeOK
<1>2. ~Stopped
  BY DEF FramesInv, StopInv
<1>3. \A i \in 1..Len(queue) : queue[i] = Stop => Stopped
  BY <1>1 DEF FramesInv, StopInv, Stopped
<1> QED BY <1>1, <1>2, <1>3 DEF Waiting, FramesInv, StopInv

\* Every frame stays in its place: the wait for room in the queue.
LEMMA SubmitPutFrames ==
  ASSUME MDTypeInv, FramesInv, SubmitPut
  PROVE  FramesInv'
<1>1. At("put") /\ md.pc \in SendsFrames
  BY SubmitPutTurns DEF At, SendsFrames
<1>2. CASE UNCHANGED <<queue, asked>>
  BY <1>1, <1>2, FramesStay, SubmitPutTurns
<1>3. CASE queue' = Append(queue, md.step) /\ asked' = Append(asked, md.step)
  <2>1. /\ queue \in Seq(Taken \cup {Stop}) /\ asked \in Seq(Taken) /\ raw \in Seq(Taken)
        /\ md.step \in Taken /\ md.step # Stop
    BY StopIsNoFrame DEF MDTypeInv, MDTypeOK, Taken
  <2>2. /\ Len(queue') = Len(queue) + 1 /\ Len(queue) \in Nat
        /\ \A i \in 1..Len(queue) : queue'[i] = queue[i]
        /\ queue'[Len(queue) + 1] = md.step
    BY <1>3, <2>1, AppendIs
  <2>3. /\ Len(asked') = Len(asked) + 1 /\ Len(asked) \in Nat
        /\ \A i \in 1..Len(asked) : asked'[i] = asked[i]
        /\ asked'[Len(asked) + 1] = md.step
    BY <1>3, <2>1, AppendIs
  <2>4. UNCHANGED <<writer, error, raw, exports, count>> /\ Len(raw) \in Nat
    BY <2>1, SubmitPutTurns
  <2>5. ~Stopped' /\ Waiting' = Len(queue) + 1 /\ Held' = Held /\ Waiting = Len(queue)
    BY <1>1, <2>1, <2>2, <2>4, NoStopYet DEF Stopped, Waiting, Held
  <2>6. StopInv'
    BY <1>1, <2>1, <2>2, <2>4, <2>5, NoStopYet DEF FramesInv, StopInv
  <2>7. FlowInv'
    <3> SUFFICES ASSUME ~error PROVE FlowInv'
      BY <2>4 DEF FlowInv
    <3>1. Held \in {0, 1}
      BY DEF Held
    <3>2. Len(asked) = Len(raw) + Held + Len(queue)
      BY <2>5 DEF FramesInv, FlowInv
    <3>3. Len(asked') = Len(raw') + Held' + Waiting'
      BY <2>2, <2>3, <2>4, <2>5, <3>1, <3>2
    <3>4. \A i \in 1..Len(raw') : asked'[i] = raw'[i]
      BY <2>2, <2>3, <2>4, <3>1, <3>2 DEF FramesInv, FlowInv
    <3>5. Held' = 1 => asked'[Len(raw') + 1] = writer'.frame
      BY <2>2, <2>3, <2>4, <2>5, <3>1, <3>2 DEF FramesInv, FlowInv
    <3>6. \A i \in 1..Waiting' : queue'[i] = asked'[Len(raw') + Held' + i]
      <4> SUFFICES ASSUME NEW i \in 1..(Len(queue) + 1)
                   PROVE  queue'[i] = asked'[Len(raw) + Held + i]
        BY <2>4, <2>5
      <4>1. CASE i = Len(queue) + 1
        BY <2>2, <2>3, <3>2, <3>1, <2>4, <4>1
      <4>2. CASE i \in 1..Len(queue)
        <5>1. queue[i] = asked[Len(raw) + Held + i]
          BY <2>5, <4>2 DEF FramesInv, FlowInv
        <5>2. Len(raw) + Held + i \in 1..Len(asked)
          BY <2>2, <2>4, <3>1, <3>2, <4>2
        <5> QED BY <2>2, <2>3, <4>2, <5>1, <5>2
      <4> QED BY <2>2, <4>1, <4>2
    <3> QED BY <3>3, <3>4, <3>5, <3>6 DEF FlowInv
  <2>8. FilesInv'
    BY <2>4 DEF FramesInv, FilesInv
  <2> QED BY <2>6, <2>7, <2>8 DEF FramesInv
<1> QED BY <1>2, <1>3, SubmitPutTurns

\* Every frame stays in its place: the loop around the sentinel.
LEMMA CloseSentinelFrames ==
  ASSUME MDTypeInv, FramesInv, CloseSentinel
  PROVE  FramesInv'
<1>1. At("stop") /\ md.pc \in SendsFrames
  BY CloseSentinelTurns DEF At, SendsFrames
<1>2. CASE UNCHANGED queue
  BY <1>1, <1>2, FramesStay, CloseSentinelTurns
<1>3. CASE ~error /\ md'.pc = "join" /\ queue' = Append(queue, Stop)
  <2>1. queue \in Seq(Taken \cup {Stop}) /\ raw \in Seq(Taken)
    BY DEF MDTypeInv, MDTypeOK
  <2>2. /\ Len(queue') = Len(queue) + 1 /\ Len(queue) \in Nat
        /\ \A i \in 1..Len(queue) : queue'[i] = queue[i]
        /\ queue'[Len(queue) + 1] = Stop
    BY <1>3, <2>1, AppendIs
  <2>3. UNCHANGED <<writer, error, raw, exports, count, asked>>
    BY CloseSentinelTurns
  <2>4. Waiting' = Waiting /\ Held' = Held /\ Waiting = Len(queue)
    BY <1>1, <2>2, <2>3, NoStopYet DEF Stopped, Waiting, Held
  <2>5. StopInv'
    BY <1>1, <1>3, <2>2, <2>3, NoStopYet DEF FramesInv, StopInv, SendsFrames
  <2>6. FlowInv'
    BY <2>2, <2>3, <2>4 DEF FramesInv, FlowInv
  <2>7. FilesInv'
    BY <2>3 DEF FramesInv, FilesInv
  <2> QED BY <2>5, <2>6, <2>7 DEF FramesInv
<1> QED BY <1>2, <1>3, CloseSentinelTurns DEF Turn

\* A failed writer leaves what it has written.
LEMMA FailedFrames ==
  ASSUME MDTypeInv, FramesInv, FailTurn, UNCHANGED <<queue, md>>
  PROVE  FramesInv'
BY DEF FailTurn, WriterTurn, FramesInv, StopInv, FlowInv, FilesInv, Over, Stopped

\* Every frame stays in its place: the opening of the files.
LEMMA OpenFilesFrames ==
  ASSUME MDTypeInv, FramesInv, OpenFiles
  PROVE  FramesInv'
<1>1. CASE WriterTurn("get", writer.frame) /\ UNCHANGED error
  <2>1. Held' = Held /\ Waiting' = Waiting /\ Stopped' = Stopped
    BY <1>1, OpenFilesTurns DEF WriterTurn, Held, Waiting, Stopped
  <2> QED BY <1>1, <2>1, OpenFilesTurns DEF WriterTurn, FramesInv, StopInv, FlowInv, FilesInv, Over
<1> QED BY <1>1, OpenFilesTurns, FailedFrames

\* Every frame stays in its place: the get of a frame.
LEMMA GetFrameFrames ==
  ASSUME MDTypeInv, FramesInv, GetFrame
  PROVE  FramesInv'
<1>1. queue \in Seq(Taken \cup {Stop}) /\ queue # <<>> /\ queue' = Tail(queue) /\ Len(raw) \in Nat
  BY GetFrameTurns DEF MDTypeInv, MDTypeOK
<1>2. /\ Len(queue') = Len(queue) - 1 /\ Len(queue) \in Nat \ {0} /\ Len(queue') \in Nat
      /\ \A i \in 1..(Len(queue) - 1) : queue'[i] = queue[i + 1]
      /\ Head(queue) = queue[1] /\ queue' \in Seq(Taken \cup {Stop})
  BY <1>1, TailIs
<1>3. writer.pc = "get" /\ ~error /\ UNCHANGED <<md, error, raw, exports, count, asked>>
  BY GetFrameTurns DEF FramesInv, StopInv, Over
<1>4. CASE Head(queue) = Stop
  <2>1. Len(queue) = 1 /\ Stopped /\ queue' = <<>>
    BY <1>2, <1>4 DEF FramesInv, StopInv, Stopped
  <2>2. writer'.pc = "closing"
    BY <1>4, GetFrameTurns DEF WriterTurn
  <2>3. Waiting' = Waiting /\ Held' = Held /\ ~Stopped' /\ Waiting = 0
    BY <1>2, <1>3, <2>1, <2>2 DEF Waiting, Held, Stopped
  <2>4. StopInv'
    BY <1>2, <1>3, <2>1, <2>2, <2>3 DEF FramesInv, StopInv, Over
  <2>5. FlowInv'
    BY <1>2, <1>3, <2>3 DEF FramesInv, FlowInv, Held
  <2>6. FilesInv'
    BY <1>3, <2>2 DEF FramesInv, FilesInv, Over
  <2> QED BY <2>4, <2>5, <2>6 DEF FramesInv
<1>5. CASE Head(queue) # Stop
  <2>1. writer'.pc = "raw" /\ writer'.frame = queue[1]
    BY <1>2, <1>5, GetFrameTurns DEF WriterTurn
  <2>2. Stopped' = Stopped
    <3>1. CASE Len(queue) = 1
      BY <1>2, <1>5, <3>1 DEF Stopped
    <3>2. CASE Len(queue) > 1
      BY <1>2, <3>2 DEF Stopped
    <3> QED BY <1>2, <3>1, <3>2
  <2>3. Waiting' = Waiting - 1 /\ Waiting >= 1 /\ Waiting \in Nat /\ Held' = 1 /\ Held = 0 /\ Waiting <= Len(queue)
    BY <1>2, <1>3, <1>5, <2>1, <2>2 DEF Waiting, Held, Stopped
  <2>4. StopInv'
    <3>1. \A i \in 1..Len(queue') : queue'[i] = Stop => i = Len(queue')
      BY <1>2 DEF FramesInv, StopInv
    <3> QED BY <1>3, <2>1, <2>2, <3>1 DEF FramesInv, StopInv, Over
  <2>5. FlowInv'
    <3>1. Len(asked) = Len(raw) + Waiting /\ \A i \in 1..Waiting : queue[i] = asked[Len(raw) + i]
      BY <1>1, <1>3, <2>3 DEF FramesInv, FlowInv
    <3>2. Len(asked') = Len(raw') + Held' + Waiting'
      BY <1>1, <1>3, <2>3, <3>1
    <3>3. asked'[Len(raw') + 1] = writer'.frame
      BY <1>3, <2>1, <2>3, <3>1
    <3>4. \A i \in 1..Waiting' : queue'[i] = asked'[Len(raw') + Held' + i]
      <4> SUFFICES ASSUME NEW i \in 1..(Waiting - 1)
                   PROVE  queue'[i] = asked[Len(raw) + 1 + i]
        BY <1>3, <2>3
      <4>1. i + 1 \in 1..Waiting /\ i \in 1..(Len(queue) - 1)
        BY <1>2, <2>3
      <4>2. queue[i + 1] = asked[Len(raw) + (i + 1)]
        BY <3>1, <4>1
      <4> QED BY <1>1, <1>2, <4>1, <4>2
    <3> QED BY <1>3, <3>2, <3>3, <3>4 DEF FramesInv, FlowInv
  <2>6. FilesInv'
    BY <1>3, <2>1 DEF FramesInv, FilesInv, Over
  <2> QED BY <2>4, <2>5, <2>6 DEF FramesInv
<1> QED BY <1>4, <1>5

\* Every frame stays in its place: the raw trajectory.
LEMMA WriteRawFrames ==
  ASSUME MDTypeInv, FramesInv, WriteRaw
  PROVE  FramesInv'
<1>1. CASE WriterTurn("record", writer.frame) /\ UNCHANGED error /\ raw' = Append(raw, writer.frame)
  <2>1. raw \in Seq(Taken) /\ writer.frame \in Taken /\ Len(queue) \in Nat /\ Len(asked) \in Nat
    BY DEF MDTypeInv, MDTypeOK
  <2>2. /\ Len(raw') = Len(raw) + 1 /\ Len(raw) \in Nat
        /\ \A i \in 1..Len(raw) : raw'[i] = raw[i]
        /\ raw'[Len(raw) + 1] = writer.frame
    BY <1>1, <2>1, AppendIs
  <2>3. /\ writer.pc = "raw" /\ writer'.pc = "record" /\ writer'.frame = writer.frame
        /\ UNCHANGED <<md, asked, queue, exports, count>> /\ ~error
    BY <1>1, WriteRawTurns DEF WriterTurn, FramesInv, StopInv, Over
  <2>4. Held = 1 /\ Held' = 0 /\ Waiting' = Waiting /\ Stopped' = Stopped
    BY <2>3 DEF Held, Waiting, Stopped
  <2>5. Waiting \in Int
    BY <2>1 DEF Waiting
  <2>6. StopInv'
    BY <1>1, <2>3, <2>4 DEF FramesInv, StopInv, Over
  <2>7. FlowInv'
    BY <1>1, <2>2, <2>3, <2>4, <2>5 DEF FramesInv, FlowInv
  <2>8. FilesInv'
    BY <1>1, <2>3 DEF FramesInv, FilesInv, Over
  <2> QED BY <2>6, <2>7, <2>8 DEF FramesInv
<1> QED BY <1>1, WriteRawTurns, FailedFrames

\* Every frame stays in its place: the CSV row.
LEMMA RecordFrameFrames ==
  ASSUME MDTypeInv, FramesInv, RecordFrame
  PROVE  FramesInv'
<1>1. CASE WriterTurn("export", writer.frame) /\ UNCHANGED error /\ count' = count + 1
  <2>1. /\ writer.pc = "record" /\ writer'.pc = "export" /\ writer'.frame = writer.frame
        /\ UNCHANGED <<md, asked, queue, raw, exports>> /\ ~error
    BY <1>1, RecordFrameTurns DEF WriterTurn, FramesInv, StopInv, Over
  <2>2. Held' = Held /\ Waiting' = Waiting /\ Stopped' = Stopped
    BY <2>1 DEF Held, Waiting, Stopped
  <2>3. Len(raw) = Len(exports) + 1 /\ raw = Append(exports, writer.frame) /\ count = Len(exports)
    <3>1. exports \in Seq(Taken) /\ writer.frame \in Taken
      BY DEF MDTypeInv, MDTypeOK
    <3> QED BY <2>1, <3>1, AppendIs DEF FramesInv, FilesInv
  <2> QED BY <1>1, <2>1, <2>2, <2>3 DEF FramesInv, StopInv, FlowInv, FilesInv, Over
<1> QED BY <1>1, RecordFrameTurns, FailedFrames

\* Every frame stays in its place: the export of a frame.
LEMMA ExportFrameFrames ==
  ASSUME MDTypeInv, FramesInv, ExportFrame
  PROVE  FramesInv'
<1>1. CASE WriterTurn("get", writer.frame) /\ UNCHANGED error /\ exports' = Append(exports, writer.frame)
  <2>1. /\ writer.pc = "export" /\ writer'.pc = "get"
        /\ UNCHANGED <<md, asked, queue, raw, count>> /\ ~error
    BY <1>1, ExportFrameTurns DEF WriterTurn, FramesInv, StopInv, Over
  <2>2. Held' = Held /\ Waiting' = Waiting /\ Stopped' = Stopped
    BY <2>1 DEF Held, Waiting, Stopped
  <2>3. StopInv'
    BY <1>1, <2>1, <2>2 DEF FramesInv, StopInv, Over
  <2>4. FlowInv'
    <3>1. Held = 0 /\ Held' = 0
      BY <2>1 DEF Held
    <3> QED BY <1>1, <2>1, <2>2, <3>1 DEF FramesInv, FlowInv
  <2>5. FilesInv'
    BY <1>1, <2>1 DEF FramesInv, FilesInv, Over
  <2> QED BY <2>3, <2>4, <2>5 DEF FramesInv
<1> QED BY <1>1, ExportFrameTurns, FailedFrames

\* Every frame stays in its place: the closing of the files.
LEMMA CloseFilesFrames ==
  ASSUME MDTypeInv, FramesInv, CloseFiles
  PROVE  FramesInv'
<1>1. /\ writer.pc = "closing" /\ writer'.pc = "ended" /\ (error' = error \/ error')
      /\ UNCHANGED <<md, asked, queue, raw, exports, count>>
  BY CloseFilesTurns DEF WriterTurn
<1>2. Held' = Held /\ Waiting' = Waiting /\ Stopped' = Stopped
  BY <1>1 DEF Held, Waiting, Stopped
<1>3. StopInv'
  BY <1>1, <1>2 DEF FramesInv, StopInv, Over
<1>4. FlowInv'
  <2>1. Held = 0 /\ Held' = 0
    BY <1>1 DEF Held
  <2> QED BY <1>1, <1>2, <2>1 DEF FramesInv, FlowInv
<1>5. FilesInv'
  BY <1>1 DEF FramesInv, FilesInv, Over
<1> QED BY <1>3, <1>4, <1>5 DEF FramesInv

-----------------------------------------------------------------------------
(* The verdict. *)

\* The lists of reports the code makes are all different.
LEMMA PlansDiffer ==
  /\ <<>> # <<"failed">> /\ <<>> # <<"cancelled">> /\ <<>> # <<"aborted">>
  /\ <<>> # <<"failed", "cancelled">>
  /\ <<"failed">> # <<"cancelled">> /\ <<"failed">> # <<"aborted">>
  /\ <<"failed">> # <<"failed", "cancelled">>
  /\ <<"cancelled">> # <<"aborted">> /\ <<"cancelled">> # <<"failed", "cancelled">>
  /\ <<"aborted">> # <<"failed", "cancelled">>
OBVIOUS

\* A published verdict stays true: a progress call.
LEMMA ObserveVerdict ==
  ASSUME MDTypeInv, ReportsInv, FramesInv, VerdictInv, OrderInv, Observe
  PROVE  VerdictInv'
BY ObserveTurns, PlansDiffer DEF MDTypeInv, MDTypeOK, ReportsInv, BeforeReport, FramesInv, StopInv, VerdictInv, OrderInv, At, Turn, AfterTurn, FailsTurn, BreaksManifest, Running, Closing, PostRun, Over

\* A published verdict stays true: the first look of submit.
LEMMA SubmitCheckVerdict ==
  ASSUME MDTypeInv, ReportsInv, FramesInv, VerdictInv, OrderInv, SubmitCheck
  PROVE  VerdictInv'
BY SubmitCheckTurns, PlansDiffer DEF MDTypeInv, MDTypeOK, ReportsInv, BeforeReport, FramesInv, StopInv, VerdictInv, OrderInv, At, Turn, AfterTurn, FailsTurn, BreaksManifest, Running, Closing, PostRun, Over

\* A published verdict stays true: an except clause, or the finally block.
LEMMA HandlerVerdict ==
  ASSUME MDTypeInv, ReportsInv, FramesInv, VerdictInv, OrderInv, Handler
  PROVE  VerdictInv'
BY HandlerTurns, PlansDiffer DEF MDTypeInv, MDTypeOK, ReportsInv, BeforeReport, FramesInv, StopInv, VerdictInv, OrderInv, At, Turn, AfterTurn, FailsTurn, BreaksManifest, Running, Closing, PostRun, Over

\* A published verdict stays true: the first look of close.
LEMMA CloseCheckVerdict ==
  ASSUME MDTypeInv, ReportsInv, FramesInv, VerdictInv, OrderInv, CloseCheck
  PROVE  VerdictInv'
BY CloseCheckTurns, PlansDiffer DEF MDTypeInv, MDTypeOK, ReportsInv, BeforeReport, FramesInv, StopInv, VerdictInv, OrderInv, At, Turn, AfterTurn, FailsTurn, BreaksManifest, Running, Closing, PostRun, Over

\* A published verdict stays true: the loop around the sentinel.
LEMMA CloseSentinelVerdict ==
  ASSUME MDTypeInv, ReportsInv, FramesInv, VerdictInv, OrderInv, CloseSentinel
  PROVE  VerdictInv'
BY CloseSentinelTurns, PlansDiffer DEF MDTypeInv, MDTypeOK, ReportsInv, BeforeReport, FramesInv, StopInv, VerdictInv, OrderInv, At, Turn, AfterTurn, FailsTurn, BreaksManifest, Running, Closing, PostRun, Over

\* A published verdict stays true: the abort's CONTCAR.
LEMMA ContcarVerdict ==
  ASSUME MDTypeInv, ReportsInv, FramesInv, VerdictInv, OrderInv, Contcar
  PROVE  VerdictInv'
<1>1. /\ md.pc = "contcar" /\ md'.step = md.step /\ md'.cause = md.cause
      /\ \/ md'.pc = "trailer" /\ md'.reports = <<"aborted">>
         \/ md'.pc = "gone" /\ md'.reports = md.reports
      /\ UNCHANGED <<writer, error, count, asked, manifest>>
  BY ContcarTurns DEF At, Turn
<1> QED BY <1>1, PlansDiffer
       DEF ReportsInv, BeforeReport, FramesInv, StopInv, VerdictInv, OrderInv, At, Running, Closing, PostRun, Over

\* A published verdict stays true: the end of the run.
LEMMA PostVerdict ==
  ASSUME MDTypeInv, ReportsInv, FramesInv, VerdictInv, OrderInv, Post
  PROVE  VerdictInv'
<1>1. /\ md.pc = "post" /\ md'.step = md.step /\ md'.cause = md.cause
      /\ \/ md'.pc = "lastTrailer" /\ md'.reports = md.reports
         \/ md'.pc = "trailer" /\ md'.reports = <<"failed">>
      /\ UNCHANGED <<writer, error, count, asked, manifest>>
  BY PostTurns DEF At, Turn
<1> QED BY <1>1, PlansDiffer
       DEF ReportsInv, BeforeReport, FramesInv, StopInv, VerdictInv, OrderInv, At, Running, Closing, PostRun, Over

\* A published verdict stays true: the trailer of a late failure.
LEMMA PostTrailerVerdict ==
  ASSUME MDTypeInv, ReportsInv, FramesInv, VerdictInv, OrderInv, PostTrailer
  PROVE  VerdictInv'
BY PostTrailerTurns, PlansDiffer DEF MDTypeInv, MDTypeOK, ReportsInv, BeforeReport, FramesInv, StopInv, VerdictInv, OrderInv, At, Turn, AfterTurn, FailsTurn, BreaksManifest, Running, Closing, PostRun, Over

\* A published verdict stays true: the manifest of a late failure.
LEMMA PostManifestVerdict ==
  ASSUME MDTypeInv, ReportsInv, FramesInv, VerdictInv, OrderInv, PostManifest
  PROVE  VerdictInv'
<1>1. /\ md.pc = "lastManifest" /\ md'.step = md.step /\ md'.cause = md.cause
      /\ \/ /\ md'.pc = "leave" /\ md'.reports = md.reports
            /\ manifest'.status = "completed" /\ manifest'.frames = count
         \/ /\ md'.pc = "trailer" /\ md'.reports = <<"failed">>
            /\ \/ UNCHANGED manifest
               \/ manifest'.status = "broken" /\ manifest'.frames = manifest.frames
      /\ UNCHANGED <<writer, error, count, asked>>
  BY PostManifestTurns DEF At, Turn, BreaksManifest
<1> QED BY <1>1, PlansDiffer
       DEF ReportsInv, BeforeReport, FramesInv, StopInv, VerdictInv, OrderInv, At, Running, Closing, PostRun, Over

\* A published verdict stays true: the return.
LEMMA LeaveVerdict ==
  ASSUME MDTypeInv, ReportsInv, FramesInv, VerdictInv, OrderInv, Leave
  PROVE  VerdictInv'
<1>1. /\ md.pc = "leave" /\ md'.step = md.step /\ md'.cause = md.cause
      /\ md'.pc = "gone" /\ md'.reports = md.reports
      /\ UNCHANGED <<writer, error, count, asked, manifest>>
  BY LeaveTurns DEF At, Turn
<1> QED BY <1>1, PlansDiffer
       DEF ReportsInv, BeforeReport, FramesInv, StopInv, VerdictInv, OrderInv, At, Running, Closing, PostRun, Over

\* A published verdict stays true: the opening of the files.
LEMMA OpenFilesVerdict ==
  ASSUME MDTypeInv, FramesInv, VerdictInv, OpenFiles
  PROVE  VerdictInv'
BY OpenFilesTurns DEF FramesInv, StopInv, VerdictInv, WriterTurn, FailTurn, At, Running, PostRun, Over

\* A published verdict stays true: the get of a frame.
LEMMA GetFrameVerdict ==
  ASSUME MDTypeInv, FramesInv, VerdictInv, GetFrame
  PROVE  VerdictInv'
BY GetFrameTurns DEF FramesInv, StopInv, VerdictInv, WriterTurn, FailTurn, At, Running, PostRun, Over

\* A published verdict stays true: the raw trajectory.
LEMMA WriteRawVerdict ==
  ASSUME MDTypeInv, FramesInv, VerdictInv, WriteRaw
  PROVE  VerdictInv'
BY WriteRawTurns DEF FramesInv, StopInv, VerdictInv, WriterTurn, FailTurn, At, Running, PostRun, Over

\* A published verdict stays true: the CSV row.
LEMMA RecordFrameVerdict ==
  ASSUME MDTypeInv, FramesInv, VerdictInv, RecordFrame
  PROVE  VerdictInv'
BY RecordFrameTurns DEF FramesInv, StopInv, VerdictInv, WriterTurn, FailTurn, At, Running, PostRun, Over

\* A published verdict stays true: the export of a frame.
LEMMA ExportFrameVerdict ==
  ASSUME MDTypeInv, FramesInv, VerdictInv, ExportFrame
  PROVE  VerdictInv'
BY ExportFrameTurns DEF FramesInv, StopInv, VerdictInv, WriterTurn, FailTurn, At, Running, PostRun, Over

\* A published verdict stays true: the closing of the files.
LEMMA CloseFilesVerdict ==
  ASSUME MDTypeInv, FramesInv, VerdictInv, CloseFiles
  PROVE  VerdictInv'
BY CloseFilesTurns DEF FramesInv, StopInv, VerdictInv, WriterTurn, FailTurn, At, Running, PostRun, Over

\* A published verdict stays true: the join.
LEMMA CloseJoinVerdict ==
  ASSUME MDTypeInv, ReportsInv, FramesInv, VerdictInv, OrderInv, CloseJoin
  PROVE  VerdictInv'
<1>1. /\ At("join") /\ writer.pc = "ended" /\ md'.step = md.step /\ md'.cause = md.cause
      /\ UNCHANGED <<writer, error, count, asked, manifest>>
      /\ md'.pc \in {"trailer", "contcar", "post"}
  BY CloseJoinTurns DEF Turn, FailsTurn
<1>2. manifest.status = "none"
  BY <1>1 DEF ReportsInv, BeforeReport, At, Closing
<1>3. /\ md.reports # <<"aborted">> /\ md'.reports # <<"aborted">>
      /\ md'.pc = "contcar" => md.cause = "abort" /\ ~error
      /\ md'.pc = "post" => ~error
  BY <1>1, CloseJoinTurns, PlansDiffer DEF Turn, FailsTurn, MDTypeInv, At, Closing
<1> QED BY <1>1, <1>2, <1>3 DEF VerdictInv, At, Running, PostRun

\* A published verdict stays true: the OUTCAR trailer.
LEMMA PublishTrailerVerdict ==
  ASSUME MDTypeInv, ReportsInv, FramesInv, VerdictInv, OrderInv, PublishTrailer
  PROVE  VerdictInv'
<1>1. /\ At("trailer") /\ md'.step = md.step /\ md'.cause = md.cause
      /\ UNCHANGED <<writer, error, count, asked, manifest>>
      /\ md'.pc \in {"gone", "manifest"} /\ md'.reports = md.reports
  BY PublishTrailerTurns DEF Turn
<1> QED BY <1>1 DEF VerdictInv, At, Running, PostRun

\* A published verdict stays true: the wait for room in the queue.
LEMMA SubmitPutVerdict ==
  ASSUME MDTypeInv, ReportsInv, FramesInv, VerdictInv, OrderInv, SubmitPut
  PROVE  VerdictInv'
<1>1. /\ At("put")
      /\ md.reports = <<>> /\ md'.reports = <<>> /\ md'.pc \in {"handler", "sentinel", "observe", "check"}
      /\ md'.cause = md.cause /\ md.cause \in {"none", "abort"}
      /\ UNCHANGED <<writer, error, count, manifest>>
  BY SubmitPutTurns DEF MDTypeInv, OrderInv, At, Turn, AfterTurn, Running
<1>2. manifest.status = "none"
  BY <1>1 DEF ReportsInv, BeforeReport, At, Running
<1>3. md'.pc = "handler" => asked' = Append(asked, md.step) /\ md'.step = md.step
  BY SubmitPutTurns DEF Turn, AfterTurn
<1>4. md'.pc = "observe" \/ md'.pc = "sentinel" => md'.cause = "none"
  BY <1>1, SubmitPutTurns DEF Turn, AfterTurn
<1>5. asked \in Seq(Taken) /\ md.step \in Taken
  BY DEF MDTypeInv, MDTypeOK
<1>6. asked' = Append(asked, md.step) => asked' # <<>> /\ asked'[Len(asked')] = md.step
  BY <1>5, AppendIs
<1> QED BY <1>1, <1>2, <1>3, <1>4, <1>6 DEF VerdictInv, At, Running, PostRun, Closing

\* A published verdict stays true: the terminal manifest.
LEMMA PublishManifestVerdict ==
  ASSUME MDTypeInv, ReportsInv, FramesInv, VerdictInv, OrderInv, PublishManifest
  PROVE  VerdictInv'
<1>1. /\ At("manifest") /\ md'.pc = "trailer" /\ md'.reports = Tail(md.reports)
      /\ md'.step = md.step /\ md'.cause = md.cause
      /\ UNCHANGED <<writer, error, count, asked>> /\ md.reports \in Plans \ {<<>>}
  BY PublishManifestTurns DEF MDTypeInv, Turn
<1>2. md'.reports # <<"aborted">>
  <2>1. <<"aborted">> # <<"cancelled">> /\ <<"aborted">> # <<>>
    OBVIOUS
  <2> QED BY <1>1, <2>1, PlansAre
<1>3. error \/ writer.pc = "ended"
  BY <1>1 DEF VerdictInv, At
<1>4. CASE manifest' = [status |-> Head(md.reports), frames |-> count]
  <2>1. manifest'.status = Head(md.reports) /\ manifest'.frames = count
    BY <1>4
  <2>2. Head(md.reports) # "completed" /\ Head(md.reports) # "none"
        /\ (Head(md.reports) = "aborted" => md.reports = <<"aborted">>)
    BY <1>1 DEF Plans
  <2>3. md.reports = <<"aborted">> => ~error /\ writer.pc = "ended" /\ md.cause = "abort"
    BY <1>1 DEF VerdictInv, At
  <2> QED BY <1>1, <1>2, <1>3, <2>1, <2>2, <2>3 DEF VerdictInv, At, Running, PostRun
<1>5. CASE BreaksManifest
  <2>1. manifest' = manifest \/ manifest'.status = "broken"
    BY <1>5 DEF BreaksManifest
  <2> QED BY <1>1, <1>2, <1>3, <2>1 DEF VerdictInv, At, Running, PostRun
<1> QED BY <1>4, <1>5, PublishManifestTurns

\* A published verdict stays true: a KeyboardInterrupt.
LEMMA InterruptVerdict ==
  ASSUME MDTypeInv, ReportsInv, FramesInv, VerdictInv, OrderInv, Interrupt
  PROVE  VerdictInv'
<1>0. <<"cancelled">> # <<"aborted">> /\ <<>> # <<"aborted">>
  OBVIOUS
<1>1. UNCHANGED <<writer, error, count, asked, manifest>> /\ md'.step = md.step
  BY InterruptTurns DEF Turn
<1>2. CASE md.pc \in Running
  <2>1. md'.pc = "handler" /\ md'.cause = "interrupt" /\ md'.reports = md.reports /\ md.reports = <<>>
    BY <1>2, InterruptTurns DEF Turn, MDTypeInv, At, Running, PostRun
  <2>2. manifest.status = "none"
    BY <1>2 DEF ReportsInv, BeforeReport
  <2> QED BY <1>0, <1>1, <2>1, <2>2 DEF VerdictInv, At, Running, PostRun
<1>3. CASE md.pc \notin Running
  <2>1. /\ md'.cause = md.cause /\ md'.pc \notin Running \cup PostRun \cup {"contcar", "manifest"}
        /\ md'.pc = "trailer" => md.pc \in PostRun
        /\ md'.reports = md.reports \/ md'.reports = <<"cancelled">>
    BY <1>3, InterruptTurns DEF Turn, At, Running, PostRun
  <2>2. md'.pc = "trailer" => md'.reports = <<"cancelled">>
    BY <1>3, InterruptTurns DEF Turn, At, Running, PostRun
  <2> QED BY <1>0, <1>1, <1>3, <2>1, <2>2 DEF VerdictInv, At, Running, PostRun
<1> QED BY <1>2, <1>3

\* A published verdict stays true: a cancellation.
LEMMA CancelVerdict ==
  ASSUME VerdictInv, UNCHANGED <<md, writer, error, count, manifest, asked>>
  PROVE  VerdictInv'
BY DEF VerdictInv, At

-----------------------------------------------------------------------------
(* The order of the frames: one at each multiple of the save interval. *)

\* The products with SaveInterval, one fact of arithmetic at a time.
LEMMA Products ==
  ASSUME NEW a \in Int, NEW b \in Int, NEW c \in Nat \ {0}
  PROVE  /\ a * c \in Int /\ (a < b => a * c + c <= b * c)
         /\ a * c < b * c => a < b
         /\ (a + 1) * c = a * c + c
<1>1. a * c \in Int /\ b * c \in Int /\ (b - a) * c = b * c - a * c /\ (a + 1) * c = a * c + c
  OBVIOUS
<1>2. ASSUME NEW d \in Nat, d >= 1 PROVE d * c >= c
  <2>1. (d - 1) * c >= 0 /\ (d - 1) * c = d * c - c
    BY <1>2
  <2> QED BY <2>1, <1>2
<1>3. a < b => (b - a) * c >= c
  <2>1. a < b => b - a \in Nat /\ b - a >= 1
    OBVIOUS
  <2> QED BY <2>1, <1>2
<1>4. ASSUME a >= b PROVE a * c >= b * c
  <2>1. CASE a = b
    BY <1>1, <2>1
  <2>2. CASE a # b
    <3>1. a - b \in Nat /\ a - b >= 1 /\ (a - b) * c = a * c - b * c
      BY <1>1, <1>4, <2>2
    <3>2. (a - b) * c >= c
      BY <3>1, <1>2
    <3> QED BY <1>1, <3>1, <3>2
  <2> QED BY <2>1, <2>2
<1>5. a * c < b * c => a < b
  BY <1>1, <1>4
<1> QED BY <1>1, <1>3, <1>5

\* Quotient and remainder.
LEMMA Quotients ==
  ASSUME NEW k \in Nat, NEW c \in Nat \ {0}
  PROVE  /\ k \div c \in Nat /\ k % c \in 0..(c - 1)
         /\ k % c = k - c * (k \div c)
<1>1. k \div c \in Int
  OBVIOUS
<1>2. k % c \in 0..(c - 1)
  OBVIOUS
<1>3. k % c = k - c * (k \div c)
  OBVIOUS
<1> DEFINE q == k \div c
           r == k % c
<1>4. q \in Int /\ r = k - c * q /\ r \in Int /\ r < c
  BY <1>1, <1>2, <1>3
<1> HIDE DEF q, r
<1>5. q >= 0
  <2>1. q < 0 => q * c + c <= 0 * c
    BY <1>4, Products
  <2>2. q * c \in Int /\ 0 * c = 0 /\ c * q = q * c
    BY <1>4
  <2> QED BY <1>4, <2>1, <2>2
<1>6. k \div c >= 0
  BY <1>5 DEF q
<1> QED BY <1>1, <1>2, <1>3, <1>6

\* A step that is due is the next multiple; one that is not comes before it.
LEMMA DueIsNext ==
  ASSUME NEW k \in Nat, NEW n \in Nat, NEW c \in Nat \ {0},
         (n - 1) * c < k, k <= n * c
  PROVE  /\ k % c = 0 => k = n * c /\ k \div c = n
         /\ k % c # 0 => k < n * c /\ k \div c = n - 1
<1> DEFINE q == k \div c
           r == k % c
<1>a. q \in Nat /\ r \in 0..(c - 1) /\ r = k - c * q
  BY Quotients, Zenon
<1> HIDE DEF q, r
<1>0. q \in Nat /\ r = k - c * q /\ r \in Nat /\ r < c
  BY <1>a
<1>1. q \in Nat /\ k = q * c + r /\ r \in Nat /\ r < c
  <2>1. c * q = q * c /\ q * c \in Int
    BY <1>0
  <2> QED BY <1>0, <2>1
<1>2. q * c \in Int /\ n * c \in Int /\ (n - 1) * c \in Int /\ (n - 1) * c = n * c - c
  <2>1. (n - 1 + 1) * c = (n - 1) * c + c
    BY Products
  <2> QED BY <1>1, <2>1, Products
<1>3. CASE r = 0
  <2>1. q * c = k
    BY <1>1, <1>2, <1>3
  <2>2. (n - 1) * c < q * c => n - 1 < q
    BY <1>1, Products
  <2>3. n < q => n * c + c <= q * c
    BY <1>1, Products
  <2>4. q = n
    BY <1>1, <1>2, <2>1, <2>2, <2>3
  <2> QED BY <1>3, <2>1, <2>4 DEF q, r
<1>4. CASE r # 0
  <2>1. q * c < n * c => q < n
    BY <1>1, Products
  <2>2. q < n
    BY <1>1, <1>2, <1>4, <2>1
  <2>3. q < n - 1 => q * c + c <= (n - 1) * c
    BY <1>1, Products
  <2>4. q = n - 1
    BY <1>1, <1>2, <2>2, <2>3
  <2>5. k < n * c
    BY <1>1, <1>2, <1>4, <2>4
  <2> QED BY <1>4, <2>4, <2>5 DEF q, r
<1> QED BY <1>3, <1>4 DEF r

\* The invariant is about the MD thread, the frames asked for and the manifest.
LEMMA OrderStays ==
  ASSUME OrderInv, UNCHANGED <<md, asked, manifest>>
  PROVE  OrderInv'
BY DEF OrderInv, At

\* Steps that touch neither reports nor files keep them in step.
LEMMA ReportsStay ==
  ASSUME ReportsInv, UNCHANGED <<md, outcar, manifest, lost>>
  PROVE  ReportsInv'
BY DEF ReportsInv, TrailerAgrees, At

\* A step outside the run that asks for no frame and gives no verdict.
LEMMA OrderKept ==
  ASSUME OrderInv, UNCHANGED <<asked, manifest>>, md'.cause = md.cause,
         md'.pc \notin Running \cup {"handler", "backstop"},
         md'.pc \in {"sentinel", "stop", "join"} \cup PostRun =>
            /\ md.cause = "none" => md.pc \in {"sentinel", "stop", "join"} \cup PostRun
            /\ manifest.status \notin {"aborted", "cancelled"}
            /\ md'.pc \in PostRun => md.cause = "none",
         md'.pc = "contcar" => manifest.status = "none",
         md'.pc \in {"trailer", "manifest"} /\ md'.reports = <<"aborted">> => manifest.status = "none",
         md'.pc = "manifest" => manifest.status \notin {"aborted", "cancelled"},
         md'.pc \in {"trailer", "gone"} /\ manifest.status \in {"aborted", "cancelled"} => md'.reports = <<>>,
         md' \in MDRecords
  PROVE  OrderInv'
BY DEF OrderInv, At, MDRecords, MDPc, Running, Closing

\* The frames asked for stay those of the saving rule: an except clause, or the finally block.
LEMMA HandlerOrder ==
  ASSUME MDTypeInv, ReportsInv, VerdictInv, OrderInv, Handler
  PROVE  OrderInv'
<1>1. manifest.status \in {"aborted", "cancelled"} => md.pc \in {"trailer", "gone"} /\ md.reports = <<>>
  BY DEF OrderInv
<1>2. md.pc \in BeforeReport => manifest.status = "none"
  BY DEF ReportsInv
<1>3. /\ UNCHANGED <<asked, manifest>> /\ md'.cause = md.cause /\ md' \in MDRecords
      /\ md'.pc \notin Running \cup {"handler", "backstop"}
      /\ md'.pc \in {"sentinel", "stop", "join"} \cup PostRun =>
            /\ md.cause = "none" => md.pc \in {"sentinel", "stop", "join"} \cup PostRun
            /\ manifest.status \notin {"aborted", "cancelled"}
            /\ md'.pc \in PostRun => md.cause = "none"
      /\ md'.pc = "contcar" => manifest.status = "none"
  BY <1>1, <1>2, HandlerTurns, TypesAre DEF OrderInv, BeforeReport, At, Turn, AfterTurn, FailsTurn, BreaksManifest, Running, Closing, PostRun
<1>4. /\ md'.pc \in {"trailer", "manifest"} /\ md'.reports = <<"aborted">> => manifest.status = "none"
      /\ md'.pc = "manifest" => manifest.status \notin {"aborted", "cancelled"}
      /\ md'.pc \in {"trailer", "gone"} /\ manifest.status \in {"aborted", "cancelled"} => md'.reports = <<>>
  BY <1>1, <1>2, HandlerTurns, PlansDiffer DEF OrderInv, BeforeReport, At, Turn, AfterTurn, FailsTurn, BreaksManifest, Running, Closing, PostRun
<1> QED BY <1>3, <1>4, OrderKept

\* The frames asked for stay those of the saving rule: the first look of close.
LEMMA CloseCheckOrder ==
  ASSUME MDTypeInv, ReportsInv, VerdictInv, OrderInv, CloseCheck
  PROVE  OrderInv'
<1>1. manifest.status \in {"aborted", "cancelled"} => md.pc \in {"trailer", "gone"} /\ md.reports = <<>>
  BY DEF OrderInv
<1>2. md.pc \in BeforeReport => manifest.status = "none"
  BY DEF ReportsInv
<1>3. /\ UNCHANGED <<asked, manifest>> /\ md'.cause = md.cause /\ md' \in MDRecords
      /\ md'.pc \notin Running \cup {"handler", "backstop"}
      /\ md'.pc \in {"sentinel", "stop", "join"} \cup PostRun =>
            /\ md.cause = "none" => md.pc \in {"sentinel", "stop", "join"} \cup PostRun
            /\ manifest.status \notin {"aborted", "cancelled"}
            /\ md'.pc \in PostRun => md.cause = "none"
      /\ md'.pc = "contcar" => manifest.status = "none"
  BY <1>1, <1>2, CloseCheckTurns, TypesAre DEF OrderInv, BeforeReport, At, Turn, AfterTurn, FailsTurn, BreaksManifest, Running, Closing, PostRun
<1>4. /\ md'.pc \in {"trailer", "manifest"} /\ md'.reports = <<"aborted">> => manifest.status = "none"
      /\ md'.pc = "manifest" => manifest.status \notin {"aborted", "cancelled"}
      /\ md'.pc \in {"trailer", "gone"} /\ manifest.status \in {"aborted", "cancelled"} => md'.reports = <<>>
  BY <1>1, <1>2, CloseCheckTurns, PlansDiffer DEF OrderInv, BeforeReport, At, Turn, AfterTurn, FailsTurn, BreaksManifest, Running, Closing, PostRun
<1> QED BY <1>3, <1>4, OrderKept

\* The frames asked for stay those of the saving rule: the loop around the sentinel.
LEMMA CloseSentinelOrder ==
  ASSUME MDTypeInv, ReportsInv, VerdictInv, OrderInv, CloseSentinel
  PROVE  OrderInv'
<1>1. manifest.status \in {"aborted", "cancelled"} => md.pc \in {"trailer", "gone"} /\ md.reports = <<>>
  BY DEF OrderInv
<1>2. md.pc \in BeforeReport => manifest.status = "none"
  BY DEF ReportsInv
<1>3. /\ UNCHANGED <<asked, manifest>> /\ md'.cause = md.cause /\ md' \in MDRecords
      /\ md'.pc \notin Running \cup {"handler", "backstop"}
      /\ md'.pc \in {"sentinel", "stop", "join"} \cup PostRun =>
            /\ md.cause = "none" => md.pc \in {"sentinel", "stop", "join"} \cup PostRun
            /\ manifest.status \notin {"aborted", "cancelled"}
            /\ md'.pc \in PostRun => md.cause = "none"
      /\ md'.pc = "contcar" => manifest.status = "none"
  BY <1>1, <1>2, CloseSentinelTurns, TypesAre DEF OrderInv, BeforeReport, At, Turn, AfterTurn, FailsTurn, BreaksManifest, Running, Closing, PostRun
<1>4. /\ md'.pc \in {"trailer", "manifest"} /\ md'.reports = <<"aborted">> => manifest.status = "none"
      /\ md'.pc = "manifest" => manifest.status \notin {"aborted", "cancelled"}
      /\ md'.pc \in {"trailer", "gone"} /\ manifest.status \in {"aborted", "cancelled"} => md'.reports = <<>>
  BY <1>1, <1>2, CloseSentinelTurns, PlansDiffer DEF OrderInv, BeforeReport, At, Turn, AfterTurn, FailsTurn, BreaksManifest, Running, Closing, PostRun
<1> QED BY <1>3, <1>4, OrderKept

\* The frames asked for stay those of the saving rule: the join.
LEMMA CloseJoinOrder ==
  ASSUME MDTypeInv, ReportsInv, VerdictInv, OrderInv, CloseJoin
  PROVE  OrderInv'
<1>1. manifest.status \in {"aborted", "cancelled"} => md.pc \in {"trailer", "gone"} /\ md.reports = <<>>
  BY DEF OrderInv
<1>2. md.pc \in BeforeReport => manifest.status = "none"
  BY DEF ReportsInv
<1>3. /\ UNCHANGED <<asked, manifest>> /\ md'.cause = md.cause /\ md' \in MDRecords
      /\ md'.pc \notin Running \cup {"handler", "backstop"}
      /\ md'.pc \in {"sentinel", "stop", "join"} \cup PostRun =>
            /\ md.cause = "none" => md.pc \in {"sentinel", "stop", "join"} \cup PostRun
            /\ manifest.status \notin {"aborted", "cancelled"}
            /\ md'.pc \in PostRun => md.cause = "none"
      /\ md'.pc = "contcar" => manifest.status = "none"
  BY <1>1, <1>2, CloseJoinTurns, TypesAre DEF OrderInv, BeforeReport, At, Turn, AfterTurn, FailsTurn, BreaksManifest, Running, Closing, PostRun
<1>4. /\ md'.pc \in {"trailer", "manifest"} /\ md'.reports = <<"aborted">> => manifest.status = "none"
      /\ md'.pc = "manifest" => manifest.status \notin {"aborted", "cancelled"}
      /\ md'.pc \in {"trailer", "gone"} /\ manifest.status \in {"aborted", "cancelled"} => md'.reports = <<>>
  BY <1>1, <1>2, CloseJoinTurns, PlansDiffer DEF OrderInv, BeforeReport, At, Turn, AfterTurn, FailsTurn, BreaksManifest, Running, Closing, PostRun
<1> QED BY <1>3, <1>4, OrderKept

\* The frames asked for stay those of the saving rule: the abort's CONTCAR.
LEMMA ContcarOrder ==
  ASSUME MDTypeInv, ReportsInv, VerdictInv, OrderInv, Contcar
  PROVE  OrderInv'
<1>1. manifest.status \in {"aborted", "cancelled"} => md.pc \in {"trailer", "gone"} /\ md.reports = <<>>
  BY DEF OrderInv
<1>2. md.pc \in BeforeReport => manifest.status = "none"
  BY DEF ReportsInv
<1>3. /\ UNCHANGED <<asked, manifest>> /\ md'.cause = md.cause /\ md' \in MDRecords
      /\ md'.pc \notin Running \cup {"handler", "backstop"}
      /\ md'.pc \in {"sentinel", "stop", "join"} \cup PostRun =>
            /\ md.cause = "none" => md.pc \in {"sentinel", "stop", "join"} \cup PostRun
            /\ manifest.status \notin {"aborted", "cancelled"}
            /\ md'.pc \in PostRun => md.cause = "none"
      /\ md'.pc = "contcar" => manifest.status = "none"
  BY <1>1, <1>2, ContcarTurns, TypesAre DEF OrderInv, BeforeReport, At, Turn, AfterTurn, FailsTurn, BreaksManifest, Running, Closing, PostRun
<1>4. /\ md'.pc \in {"trailer", "manifest"} /\ md'.reports = <<"aborted">> => manifest.status = "none"
      /\ md'.pc = "manifest" => manifest.status \notin {"aborted", "cancelled"}
      /\ md'.pc \in {"trailer", "gone"} /\ manifest.status \in {"aborted", "cancelled"} => md'.reports = <<>>
  BY <1>1, <1>2, ContcarTurns, PlansDiffer DEF OrderInv, BeforeReport, At, Turn, AfterTurn, FailsTurn, BreaksManifest, Running, Closing, PostRun
<1> QED BY <1>3, <1>4, OrderKept

\* The frames asked for stay those of the saving rule: the OUTCAR trailer.
LEMMA PublishTrailerOrder ==
  ASSUME MDTypeInv, ReportsInv, VerdictInv, OrderInv, PublishTrailer
  PROVE  OrderInv'
<1>1. manifest.status \in {"aborted", "cancelled"} => md.pc \in {"trailer", "gone"} /\ md.reports = <<>>
  BY DEF OrderInv
<1>2. md.pc \in BeforeReport => manifest.status = "none"
  BY DEF ReportsInv
<1>3. /\ UNCHANGED <<asked, manifest>> /\ md'.cause = md.cause /\ md' \in MDRecords
      /\ md'.pc \notin Running \cup {"handler", "backstop"}
      /\ md'.pc \in {"sentinel", "stop", "join"} \cup PostRun =>
            /\ md.cause = "none" => md.pc \in {"sentinel", "stop", "join"} \cup PostRun
            /\ manifest.status \notin {"aborted", "cancelled"}
            /\ md'.pc \in PostRun => md.cause = "none"
      /\ md'.pc = "contcar" => manifest.status = "none"
  BY <1>1, <1>2, PublishTrailerTurns, TypesAre DEF OrderInv, BeforeReport, At, Turn, AfterTurn, FailsTurn, BreaksManifest, Running, Closing, PostRun
<1>4. /\ md'.pc \in {"trailer", "manifest"} /\ md'.reports = <<"aborted">> => manifest.status = "none"
      /\ md'.pc = "manifest" => manifest.status \notin {"aborted", "cancelled"}
      /\ md'.pc \in {"trailer", "gone"} /\ manifest.status \in {"aborted", "cancelled"} => md'.reports = <<>>
  BY <1>1, <1>2, PublishTrailerTurns, PlansDiffer DEF OrderInv, BeforeReport, At, Turn, AfterTurn, FailsTurn, BreaksManifest, Running, Closing, PostRun
<1> QED BY <1>3, <1>4, OrderKept

\* The frames asked for stay those of the saving rule: the end of the run.
LEMMA PostOrder ==
  ASSUME MDTypeInv, ReportsInv, VerdictInv, OrderInv, Post
  PROVE  OrderInv'
<1>1. manifest.status \in {"aborted", "cancelled"} => md.pc \in {"trailer", "gone"} /\ md.reports = <<>>
  BY DEF OrderInv
<1>2. md.pc \in BeforeReport => manifest.status = "none"
  BY DEF ReportsInv
<1>3. /\ UNCHANGED <<asked, manifest>> /\ md'.cause = md.cause /\ md' \in MDRecords
      /\ md'.pc \notin Running \cup {"handler", "backstop"}
      /\ md'.pc \in {"sentinel", "stop", "join"} \cup PostRun =>
            /\ md.cause = "none" => md.pc \in {"sentinel", "stop", "join"} \cup PostRun
            /\ manifest.status \notin {"aborted", "cancelled"}
            /\ md'.pc \in PostRun => md.cause = "none"
      /\ md'.pc = "contcar" => manifest.status = "none"
  BY <1>1, <1>2, PostTurns, TypesAre DEF OrderInv, BeforeReport, At, Turn, AfterTurn, FailsTurn, BreaksManifest, Running, Closing, PostRun
<1>4. /\ md'.pc \in {"trailer", "manifest"} /\ md'.reports = <<"aborted">> => manifest.status = "none"
      /\ md'.pc = "manifest" => manifest.status \notin {"aborted", "cancelled"}
      /\ md'.pc \in {"trailer", "gone"} /\ manifest.status \in {"aborted", "cancelled"} => md'.reports = <<>>
  BY <1>1, <1>2, PostTurns, PlansDiffer DEF OrderInv, BeforeReport, At, Turn, AfterTurn, FailsTurn, BreaksManifest, Running, Closing, PostRun
<1> QED BY <1>3, <1>4, OrderKept

\* The frames asked for stay those of the saving rule: the trailer of a late failure.
LEMMA PostTrailerOrder ==
  ASSUME MDTypeInv, ReportsInv, VerdictInv, OrderInv, PostTrailer
  PROVE  OrderInv'
<1>1. manifest.status \in {"aborted", "cancelled"} => md.pc \in {"trailer", "gone"} /\ md.reports = <<>>
  BY DEF OrderInv
<1>2. md.pc \in BeforeReport => manifest.status = "none"
  BY DEF ReportsInv
<1>3. /\ UNCHANGED <<asked, manifest>> /\ md'.cause = md.cause /\ md' \in MDRecords
      /\ md'.pc \notin Running \cup {"handler", "backstop"}
      /\ md'.pc \in {"sentinel", "stop", "join"} \cup PostRun =>
            /\ md.cause = "none" => md.pc \in {"sentinel", "stop", "join"} \cup PostRun
            /\ manifest.status \notin {"aborted", "cancelled"}
            /\ md'.pc \in PostRun => md.cause = "none"
      /\ md'.pc = "contcar" => manifest.status = "none"
  BY <1>1, <1>2, PostTrailerTurns, TypesAre DEF OrderInv, BeforeReport, At, Turn, AfterTurn, FailsTurn, BreaksManifest, Running, Closing, PostRun
<1>4. /\ md'.pc \in {"trailer", "manifest"} /\ md'.reports = <<"aborted">> => manifest.status = "none"
      /\ md'.pc = "manifest" => manifest.status \notin {"aborted", "cancelled"}
      /\ md'.pc \in {"trailer", "gone"} /\ manifest.status \in {"aborted", "cancelled"} => md'.reports = <<>>
  BY <1>1, <1>2, PostTrailerTurns, PlansDiffer DEF OrderInv, BeforeReport, At, Turn, AfterTurn, FailsTurn, BreaksManifest, Running, Closing, PostRun
<1> QED BY <1>3, <1>4, OrderKept

\* The frames asked for stay those of the saving rule: the return.
LEMMA LeaveOrder ==
  ASSUME MDTypeInv, ReportsInv, VerdictInv, OrderInv, Leave
  PROVE  OrderInv'
<1>1. manifest.status \in {"aborted", "cancelled"} => md.pc \in {"trailer", "gone"} /\ md.reports = <<>>
  BY DEF OrderInv
<1>2. md.pc \in BeforeReport => manifest.status = "none"
  BY DEF ReportsInv
<1>3. /\ UNCHANGED <<asked, manifest>> /\ md'.cause = md.cause /\ md' \in MDRecords
      /\ md'.pc \notin Running \cup {"handler", "backstop"}
      /\ md'.pc \in {"sentinel", "stop", "join"} \cup PostRun =>
            /\ md.cause = "none" => md.pc \in {"sentinel", "stop", "join"} \cup PostRun
            /\ manifest.status \notin {"aborted", "cancelled"}
            /\ md'.pc \in PostRun => md.cause = "none"
      /\ md'.pc = "contcar" => manifest.status = "none"
  BY <1>1, <1>2, LeaveTurns, TypesAre DEF OrderInv, BeforeReport, At, Turn, AfterTurn, FailsTurn, BreaksManifest, Running, Closing, PostRun
<1>4. /\ md'.pc \in {"trailer", "manifest"} /\ md'.reports = <<"aborted">> => manifest.status = "none"
      /\ md'.pc = "manifest" => manifest.status \notin {"aborted", "cancelled"}
      /\ md'.pc \in {"trailer", "gone"} /\ manifest.status \in {"aborted", "cancelled"} => md'.reports = <<>>
  BY <1>1, <1>2, LeaveTurns, PlansDiffer DEF OrderInv, BeforeReport, At, Turn, AfterTurn, FailsTurn, BreaksManifest, Running, Closing, PostRun
<1> QED BY <1>3, <1>4, OrderKept

\* The frames asked for stay those of the saving rule: a progress call.
LEMMA ObserveOrder ==
  ASSUME MDTypeInv, ReportsInv, VerdictInv, OrderInv, Observe
  PROVE  OrderInv'
<1>1. /\ At("observe") /\ UNCHANGED <<asked, manifest>> /\ md.cause = "none" /\ manifest.status = "none"
      /\ md.step \in Nat /\ Len(asked) \in Nat /\ asked \in Seq(Taken) /\ md.reports = <<>>
  BY ObserveTurns, StepsNat DEF VerdictInv, ReportsInv, BeforeReport, Running, At, MDTypeInv, MDTypeOK, Taken
<1>2. /\ \A i \in 1..Len(asked) : asked[i] = (i - 1) * SaveInterval
      /\ (Len(asked) - 1) * SaveInterval < md.step
      /\ md.step <= Len(asked) * SaveInterval
  BY <1>1 DEF OrderInv, At, Running
<1>3. CASE md'.pc = "handler" /\ md'.cause # "none"
  BY <1>1, <1>3 DEF OrderInv, At, Running, PostRun
<1>4. CASE md'.pc = "check" /\ md'.step = md.step /\ md'.cause \in {"none", "abort"} /\ (md'.cause = "none" => md.step % SaveInterval = 0)
  BY <1>1, <1>2, <1>4 DEF OrderInv, At, Running, PostRun
<1>5. CASE md.step % SaveInterval # 0 /\ AfterTurn
  <2>1. md.step < Len(asked) * SaveInterval /\ md.step \div SaveInterval = Len(asked) - 1
    BY <1>1, <1>2, <1>5, IntervalPositive, DueIsNext
  <2>2. CASE md'.pc = "observe" /\ md'.step = md.step + 1 /\ md'.cause = "none"
    <3>1. (Len(asked) - 1) * SaveInterval < md.step + 1 /\ md.step + 1 <= Len(asked) * SaveInterval
      <4>1. (Len(asked) - 1) * SaveInterval \in Int /\ Len(asked) * SaveInterval \in Int
        BY <1>1, IntervalPositive
      <4> QED BY <1>1, <1>2, <2>1, <4>1
    <3> QED BY <1>1, <1>2, <2>2, <3>1 DEF OrderInv, At, Running, PostRun
  <2>3. CASE md'.pc = "sentinel" /\ md.step = Steps /\ md'.cause = "none"
    <3>1. asked = Regular
      <4>1. Steps \div SaveInterval + 1 = Len(asked)
        BY <1>1, <2>1, <2>3
      <4> QED BY <1>1, <1>2, <4>1, LenProperties DEF Regular
    <3> QED BY <1>1, <2>3, <3>1 DEF OrderInv, At, Running, PostRun
  <2> QED BY <1>1, <1>5, <2>2, <2>3 DEF AfterTurn, Turn
<1> QED BY <1>1, <1>3, <1>4, <1>5, ObserveTurns DEF Turn

\* The frames asked for stay those of the saving rule: the first look of submit.
LEMMA SubmitCheckOrder ==
  ASSUME MDTypeInv, ReportsInv, VerdictInv, OrderInv, SubmitCheck
  PROVE  OrderInv'
<1>1. /\ At("check") /\ UNCHANGED <<asked, manifest>> /\ manifest.status = "none" /\ md'.step = md.step
  BY SubmitCheckTurns DEF ReportsInv, BeforeReport, Running, At, Turn
<1>2. CASE md'.pc = "handler" /\ md'.cause = "error"
  BY <1>1, <1>2 DEF OrderInv, At, Running, PostRun
<1>3. CASE md'.pc = "put" /\ md'.cause = md.cause
  BY <1>1, <1>3 DEF OrderInv, At, Running, PostRun
<1> QED BY <1>2, <1>3, SubmitCheckTurns DEF Turn

\* The frames asked for stay those of the saving rule: the wait for room in the queue.
LEMMA SubmitPutOrder ==
  ASSUME MDTypeInv, ReportsInv, VerdictInv, OrderInv, SubmitPut
  PROVE  OrderInv'
<1>1. /\ At("put") /\ UNCHANGED manifest /\ manifest.status = "none" /\ md'.cause = md.cause
      /\ md.cause \in {"none", "abort"}
      /\ md.step \in Nat /\ md.step \in Taken /\ Len(asked) \in Nat /\ asked \in Seq(Taken)
  BY SubmitPutTurns, StepsNat
     DEF ReportsInv, BeforeReport, Running, At, Turn, AfterTurn, OrderInv, MDTypeInv, MDTypeOK, Taken
<1>2. /\ \A i \in 1..Len(asked) : asked[i] = (i - 1) * SaveInterval
      /\ (Len(asked) - 1) * SaveInterval < md.step
      /\ md.step <= Len(asked) * SaveInterval
  BY <1>1 DEF OrderInv, At, Running
<1>3. CASE UNCHANGED asked /\ Turn("check", md.step, md.cause, md.reports)
  BY <1>1, <1>2, <1>3 DEF OrderInv, At, Running, PostRun, Turn
<1>4. CASE AfterTurn /\ asked' = Append(asked, md.step)
  <2>1. CASE md.cause = "abort"
    BY <1>1, <1>4, <2>1 DEF AfterTurn, Turn, OrderInv, At, Running, PostRun
  <2>2. CASE md.cause = "none"
    <3>1. md.step = Len(asked) * SaveInterval /\ md.step \div SaveInterval = Len(asked)
      <4>1. md.step % SaveInterval = 0
        BY <1>1, <2>2 DEF OrderInv, At
      <4>2. Len(asked) \in Nat /\ (Len(asked) - 1) * SaveInterval < md.step
            /\ md.step <= Len(asked) * SaveInterval /\ md.step \in Nat
        BY <1>1, <1>2
      <4> QED BY <4>1, <4>2, IntervalPositive, DueIsNext
    <3>2. /\ asked' \in Seq(Taken) /\ Len(asked') = Len(asked) + 1
          /\ \A i \in 1..Len(asked) : asked'[i] = asked[i]
          /\ asked'[Len(asked) + 1] = md.step
      BY <1>1, <1>4, AppendIs
    <3>3. \A i \in 1..Len(asked') : asked'[i] = (i - 1) * SaveInterval
      <4> SUFFICES ASSUME NEW i \in 1..(Len(asked) + 1) PROVE asked'[i] = (i - 1) * SaveInterval
        BY <3>2
      <4>1. CASE i = Len(asked) + 1
        BY <1>1, <3>1, <3>2, <4>1
      <4>2. CASE i \in 1..Len(asked)
        BY <1>2, <3>2, <4>2
      <4> QED BY <1>1, <4>1, <4>2
    <3>4. CASE md'.pc = "observe" /\ md'.step = md.step + 1
      <4>1. /\ (Len(asked') - 1) * SaveInterval < md'.step
            /\ md'.step <= Len(asked') * SaveInterval
        <5>1. (Len(asked) + 1) * SaveInterval = Len(asked) * SaveInterval + SaveInterval
          BY <1>1, IntervalPositive, Products
        <5>2. Len(asked') - 1 = Len(asked)
          BY <1>1, <3>2
        <5>3. Len(asked) * SaveInterval \in Int /\ SaveInterval >= 1 /\ SaveInterval \in Int
          BY <1>1, IntervalPositive
        <5>4. (Len(asked') - 1) * SaveInterval = md.step
          BY <3>1, <5>2
        <5>5. Len(asked') * SaveInterval = md.step + SaveInterval
          BY <3>1, <3>2, <5>1
        <5> QED BY <1>1, <3>4, <5>3, <5>4, <5>5
      <4> QED BY <1>1, <2>2, <3>3, <3>4, <4>1 DEF OrderInv, At, Running, PostRun
    <3>5. CASE md'.pc = "sentinel" /\ md.step = Steps
      <4>1. Steps \div SaveInterval + 1 = Len(asked')
        BY <3>1, <3>2, <3>5
      <4>2. asked' = Regular
        BY <3>2, <3>3, <4>1, LenProperties DEF Regular
      <4> QED BY <1>1, <3>5, <4>2 DEF OrderInv, At, Running, PostRun
    <3> QED BY <1>4, <2>2, <3>4, <3>5 DEF AfterTurn, Turn
  <2> QED BY <1>1, <2>1, <2>2
<1> QED BY <1>3, <1>4, SubmitPutTurns

\* The frames asked for stay those of the saving rule: the terminal manifest.
LEMMA PublishManifestOrder ==
  ASSUME MDTypeInv, ReportsInv, VerdictInv, OrderInv, PublishManifest
  PROVE  OrderInv'
<1>1. /\ At("manifest") /\ md'.pc = "trailer" /\ md'.reports = Tail(md.reports)
      /\ UNCHANGED asked /\ md.reports \in Plans \ {<<>>}
  BY PublishManifestTurns DEF MDTypeInv, Turn
<1>2. md'.reports # <<"aborted">>
  BY <1>1, PlansAre, PlansDiffer
<1>3. manifest.status \notin {"aborted", "cancelled"}
  BY <1>1 DEF OrderInv, At
<1>4. manifest'.status \in {"aborted", "cancelled"} => md'.reports = <<>>
  <2>1. CASE manifest' = [status |-> Head(md.reports), frames |-> count]
    <3>1. manifest'.status = Head(md.reports)
      BY <2>1
    <3>2. Tail(md.reports) # <<>> => Head(md.reports) = "failed"
      BY <1>1, PlansAre
    <3> QED BY <1>1, <3>1, <3>2
  <2>2. CASE BreaksManifest
    BY <1>3, <2>2 DEF BreaksManifest
  <2> QED BY <2>1, <2>2, PublishManifestTurns
<1> QED BY <1>1, <1>2, <1>4 DEF OrderInv, At, Running, PostRun

\* The frames asked for stay those of the saving rule: the manifest of a late failure.
LEMMA PostManifestOrder ==
  ASSUME MDTypeInv, ReportsInv, VerdictInv, OrderInv, PostManifest
  PROVE  OrderInv'
<1>1. At("lastManifest") /\ UNCHANGED asked /\ md'.cause = md.cause /\ md.cause = "none" /\ asked = Regular
      /\ manifest.status = "none"
  BY PostManifestTurns DEF Turn, OrderInv, ReportsInv, BeforeReport, At, PostRun
<1>2. CASE md'.pc = "leave" /\ manifest'.status = "completed"
  BY <1>1, <1>2 DEF OrderInv, At, Running, PostRun
<1>3. CASE md'.pc = "trailer" /\ md'.reports = <<"failed">> /\ manifest'.status \in {"none", "broken"}
  BY <1>1, <1>3, PlansDiffer DEF OrderInv, At, Running, PostRun
<1>4. [status |-> "completed", frames |-> count].status = "completed"
  OBVIOUS
<1>5. BreaksManifest => manifest'.status \in {"none", "broken"}
  BY <1>1 DEF BreaksManifest
<1> QED BY <1>2, <1>3, <1>4, <1>5, PostManifestTurns DEF Turn

\* The frames asked for stay those of the saving rule: a KeyboardInterrupt.
LEMMA InterruptOrder ==
  ASSUME MDTypeInv, ReportsInv, VerdictInv, OrderInv, Interrupt
  PROVE  OrderInv'
<1>1. UNCHANGED <<asked, manifest>>
  BY InterruptTurns
<1>2. CASE md'.pc \in {"handler", "backstop"}
  <2>1. md.pc \in Running \cup {"handler"} /\ md'.cause # "none"
    BY <1>2, InterruptTurns DEF Turn, At, OrderInv
  <2>2. manifest.status = "none"
    BY <2>1 DEF ReportsInv, BeforeReport, Running, Closing
  <2> QED BY <1>1, <1>2, <2>1, <2>2 DEF OrderInv, At, Running, PostRun
<1>3. CASE md'.pc = "trailer"
  <2>1. md.pc \in PostRun /\ md'.reports = <<"cancelled">>
    BY <1>3, InterruptTurns DEF Turn, At
  <2>2. manifest.status \notin {"aborted", "cancelled"}
    BY <2>1 DEF OrderInv, PostRun
  <2> QED BY <1>1, <1>3, <2>1, <2>2, PlansDiffer DEF OrderInv, At, Running, PostRun
<1>4. CASE md'.pc = "gone"
  <2>1. md'.reports = md.reports
    BY <1>4, InterruptTurns DEF Turn, At
  <2> QED BY <1>1, <1>4, <2>1 DEF OrderInv, At, Running, PostRun
<1> QED BY <1>2, <1>3, <1>4, InterruptTurns DEF Turn

-----------------------------------------------------------------------------
(* The invariant. *)

\* Every step keeps the invariant.
LEMMA MDInvStep == MDInv /\ [MDNext]_vars => MDInv'
<1> SUFFICES ASSUME MDInv, [MDNext]_vars PROVE MDInv'
  OBVIOUS
<1> USE DEF MDInv
<1>1. CASE Observe
  BY <1>1, ObserveTypes, ObserveReports, ObserveFrames, ObserveVerdict, ObserveOrder
<1>2. CASE SubmitCheck
  BY <1>2, SubmitCheckTypes, SubmitCheckReports, SubmitCheckFrames, SubmitCheckVerdict, SubmitCheckOrder
<1>3. CASE SubmitPut
  BY <1>3, SubmitPutTypes, SubmitPutReports, SubmitPutFrames, SubmitPutVerdict, SubmitPutOrder
<1>4. CASE Handler
  BY <1>4, HandlerTypes, HandlerReports, HandlerFrames, HandlerVerdict, HandlerOrder
<1>5. CASE CloseCheck
  BY <1>5, CloseCheckTypes, CloseCheckReports, CloseCheckFrames, CloseCheckVerdict, CloseCheckOrder
<1>6. CASE CloseSentinel
  BY <1>6, CloseSentinelTypes, CloseSentinelReports, CloseSentinelFrames, CloseSentinelVerdict, CloseSentinelOrder
<1>7. CASE CloseJoin
  BY <1>7, CloseJoinTypes, CloseJoinReports, CloseJoinFrames, CloseJoinVerdict, CloseJoinOrder
<1>8. CASE Contcar
  BY <1>8, ContcarTypes, ContcarReports, ContcarFrames, ContcarVerdict, ContcarOrder
<1>9. CASE PublishTrailer
  BY <1>9, PublishTrailerTypes, PublishTrailerReports, PublishTrailerFrames, PublishTrailerVerdict, PublishTrailerOrder
<1>10. CASE PublishManifest
  BY <1>10, PublishManifestTypes, PublishManifestReports, PublishManifestFrames, PublishManifestVerdict, PublishManifestOrder
<1>11. CASE Post
  BY <1>11, PostTypes, PostReports, PostFrames, PostVerdict, PostOrder
<1>12. CASE PostTrailer
  BY <1>12, PostTrailerTypes, PostTrailerReports, PostTrailerFrames, PostTrailerVerdict, PostTrailerOrder
<1>13. CASE PostManifest
  BY <1>13, PostManifestTypes, PostManifestReports, PostManifestFrames, PostManifestVerdict, PostManifestOrder
<1>14. CASE Leave
  BY <1>14, LeaveTypes, LeaveReports, LeaveFrames, LeaveVerdict, LeaveOrder
<1>15. CASE Interrupt
  BY <1>15, InterruptTypes, InterruptReports, InterruptFrames, InterruptVerdict, InterruptOrder
<1>16. CASE OpenFiles
  <2>1. UNCHANGED <<md, outcar, manifest, lost, asked>>
    BY <1>16, OpenFilesTurns
  <2> QED BY <1>16, <2>1, OpenFilesTypes, ReportsStay, OpenFilesFrames, OpenFilesVerdict, OrderStays
<1>17. CASE GetFrame
  <2>1. UNCHANGED <<md, outcar, manifest, lost, asked>>
    BY <1>17, GetFrameTurns
  <2> QED BY <1>17, <2>1, GetFrameTypes, ReportsStay, GetFrameFrames, GetFrameVerdict, OrderStays
<1>18. CASE WriteRaw
  <2>1. UNCHANGED <<md, outcar, manifest, lost, asked>>
    BY <1>18, WriteRawTurns
  <2> QED BY <1>18, <2>1, WriteRawTypes, ReportsStay, WriteRawFrames, WriteRawVerdict, OrderStays
<1>19. CASE RecordFrame
  <2>1. UNCHANGED <<md, outcar, manifest, lost, asked>>
    BY <1>19, RecordFrameTurns
  <2> QED BY <1>19, <2>1, RecordFrameTypes, ReportsStay, RecordFrameFrames, RecordFrameVerdict, OrderStays
<1>20. CASE ExportFrame
  <2>1. UNCHANGED <<md, outcar, manifest, lost, asked>>
    BY <1>20, ExportFrameTurns
  <2> QED BY <1>20, <2>1, ExportFrameTypes, ReportsStay, ExportFrameFrames, ExportFrameVerdict, OrderStays
<1>21. CASE CloseFiles
  <2>1. UNCHANGED <<md, outcar, manifest, lost, asked>>
    BY <1>21, CloseFilesTurns
  <2> QED BY <1>21, <2>1, CloseFilesTypes, ReportsStay, CloseFilesFrames, CloseFilesVerdict, OrderStays
<1>22. CASE Cancel \/ UNCHANGED vars
  <2>1. /\ UNCHANGED <<md, writer, queue, error, raw, exports, count, outcar, manifest, lost, asked>>
        /\ UNCHANGED <<faults, interrupts>> /\ cancelled' \in BOOLEAN
    BY <1>22 DEF Cancel, vars, mdVars, writerVars, MDTypeInv, MDTypeOK
  <2>2. MDTypeInv'
    BY <2>1 DEF MDTypeInv, MDTypeOK, At
  <2>3. FramesInv'
    BY <2>1, FramesStay
  <2> QED BY <2>1, <2>2, <2>3, ReportsStay, CancelVerdict, OrderStays
<1> QED BY <1>1, <1>2, <1>3, <1>4, <1>5, <1>6, <1>7, <1>8, <1>9, <1>10, <1>11, <1>12, <1>13, <1>14, <1>15, <1>16, <1>17, <1>18, <1>19, <1>20, <1>21, <1>22 DEF MDNext, MDStep, WriterStep

\* Every reachable state of an MD run satisfies the invariant.
THEOREM MDInvariant == MDSpec => []MDInv
BY MDInvInit, MDInvStep, PTL DEF MDSpec

\* MDTypeOK for any number of steps and any bounds: in particular the queue
\* never holds more than QUEUE_MAX_FRAMES entries, the sentinel included.
THEOREM MDTypeCorrect == MDSpec => []MDTypeOK
<1>1. MDInv => MDTypeOK
  BY DEF MDInv, MDTypeInv
<1> QED BY <1>1, MDInvariant, PTL

\* TrailerAgrees for any number of faults and interrupts: OUTCAR and the
\* manifest end up telling the same status (MDRunner.publish_terminal).
THEOREM ReportsAgree == MDSpec => []TrailerAgrees
<1>1. MDInv => TrailerAgrees
  BY DEF MDInv, ReportsInv
<1> QED BY <1>1, MDInvariant, PTL

\* When the writer has ended without a failure, it has written every frame.
LEMMA AllWritten ==
  ASSUME MDInv, ~error, writer.pc = "ended"
  PROVE  /\ raw = asked /\ raw = exports /\ count = Len(raw)
         /\ Len(raw) \in Nat
<1>1. asked \in Seq(Taken) /\ raw \in Seq(Taken) /\ Len(raw) \in Nat
  BY DEF MDInv, MDTypeInv, MDTypeOK
<1>2. queue = <<>>
  BY DEF MDInv, FramesInv, StopInv, Over
<1>3. Waiting = 0 /\ Held = 0
  BY <1>2 DEF Waiting, Held, Stopped
<1>4. Len(asked) = Len(raw) /\ \A i \in 1..Len(raw) : asked[i] = raw[i]
  BY <1>1, <1>3 DEF MDInv, FramesInv, FlowInv
<1>5. raw = asked
  BY <1>1, <1>4, SeqEqual
<1> QED BY <1>1, <1>5 DEF MDInv, FramesInv, FilesInv, Over

\* PublishedFilesAgree for any number of steps, any bound of the queue and any
\* fault: a manifest that says completed or aborted, or cancelled with a
\* writer that did not fail, describes the files as they are.
THEOREM PublishedFilesTrue == MDSpec => []PublishedFilesAgree
<1>1. MDInv => PublishedFilesAgree
  <2> SUFFICES ASSUME MDInv, \/ manifest.status \in {"completed", "aborted"}
                             \/ manifest.status = "cancelled" /\ ~error
               PROVE  /\ raw = exports /\ manifest.frames = Len(raw)
                      /\ manifest.status = "aborted" => raw # <<>> /\ raw[Len(raw)] = md.step
    BY DEF PublishedFilesAgree
  <2>1. ~error /\ writer.pc = "ended" /\ manifest.frames = count
    BY DEF MDInv, VerdictInv
  <2>2. raw = asked /\ raw = exports /\ manifest.frames = Len(raw)
    BY <2>1, AllWritten
  <2>3. manifest.status = "aborted" => asked # <<>> /\ asked[Len(asked)] = md.step
    BY DEF MDInv, VerdictInv, Running
  <2> QED BY <2>2, <2>3
<1> QED BY <1>1, MDInvariant, PTL

-----------------------------------------------------------------------------
(* MDOutput implements FrameLog. *)

\* The log does not see the other variables.
LEMMA LogStays == UNCHANGED <<asked, raw, error, manifest>> => UNCHANGED Log!logVars
BY DEF Log!logVars

\* A writer that fails before it has ended fails before the verdict.
LEMMA FailIsFail ==
  ASSUME MDInv, writer.pc # "ended", error' = TRUE, UNCHANGED <<asked, raw, manifest>>
  PROVE  Log!LogNext \/ UNCHANGED Log!logVars
<1>1. CASE error
  <2>1. UNCHANGED error
    BY <1>1 DEF MDInv, MDTypeInv, MDTypeOK
  <2> QED BY <2>1, LogStays
<1>2. CASE ~error
  <2>1. manifest.status = "none" /\ manifest'.status = "none"
    BY <1>2 DEF MDInv, VerdictInv
  <2> QED BY <2>1 DEF Log!LogNext, Log!Fail
<1> QED BY <1>1, <1>2

\* A step of the log, or none: the wait for room in the queue.
LEMMA SubmitPutLog ==
  ASSUME MDInv, SubmitPut
  PROVE  Log!LogNext \/ UNCHANGED Log!logVars
<1>1. /\ At("put") /\ UNCHANGED <<raw, error, manifest>> /\ manifest.status = "none" /\ md.step \in Taken
      /\ asked \in Seq(Taken) /\ Len(asked) \in Nat /\ md.step \in Nat
  BY SubmitPutTurns, StepsNat
     DEF MDInv, ReportsInv, BeforeReport, Running, At, MDTypeInv, MDTypeOK, Taken
<1>2. CASE UNCHANGED asked
  BY <1>1, <1>2, LogStays
<1>3. CASE asked' = Append(asked, md.step)
  <2>1. \A i \in DOMAIN asked : asked[i] < md.step
    <3> SUFFICES ASSUME NEW i \in 1..Len(asked) PROVE asked[i] < md.step
      BY <1>1, LenProperties
    <3>1. asked[i] = (i - 1) * SaveInterval /\ (Len(asked) - 1) * SaveInterval < md.step
      BY <1>1 DEF MDInv, OrderInv, At, Running
    <3>2. i - 1 \in Int /\ Len(asked) - 1 \in Int /\ i - 1 <= Len(asked) - 1
      BY <1>1
    <3>3. i - 1 < Len(asked) - 1 => (i - 1) * SaveInterval + SaveInterval <= (Len(asked) - 1) * SaveInterval
      BY <3>2, IntervalPositive, Products
    <3>4. (i - 1) * SaveInterval \in Int /\ (Len(asked) - 1) * SaveInterval \in Int /\ SaveInterval \in Nat
      BY <3>2, IntervalPositive
    <3>5. CASE i - 1 = Len(asked) - 1
      BY <3>1, <3>5
    <3>6. CASE i - 1 < Len(asked) - 1
      BY <1>1, <3>1, <3>3, <3>4, <3>6
    <3> QED BY <3>2, <3>5, <3>6
  <2> QED BY <1>1, <1>3, <2>1 DEF Log!LogNext, Log!Ask
<1> QED BY <1>2, <1>3, SubmitPutTurns DEF MDInv

\* A step of the log, or none: the terminal manifest.
LEMMA PublishManifestLog ==
  ASSUME MDInv, PublishManifest
  PROVE  Log!LogNext \/ UNCHANGED Log!logVars
<1>1. /\ At("manifest") /\ UNCHANGED <<asked, raw, error>> /\ md.reports \in Plans \ {<<>>}
      /\ manifest.status \notin {"aborted", "cancelled"}
      /\ error \/ writer.pc = "ended"
  BY PublishManifestTurns DEF MDInv, MDTypeInv, OrderInv, VerdictInv, At
<1>2. ~error => raw = asked
  BY <1>1, AllWritten
<1>3. CASE manifest' = [status |-> Head(md.reports), frames |-> count]
  <2>1. manifest'.status = Head(md.reports)
    BY <1>3
  <2>2. md.reports = <<"aborted">> => ~error /\ manifest.status = "none"
    BY <1>1 DEF MDInv, OrderInv, VerdictInv, At
  <2>3. Head(md.reports) \in {"failed", "cancelled"} \/ (Head(md.reports) = "aborted" /\ md.reports = <<"aborted">>)
    BY <1>1 DEF Plans
  <2>4. CASE Head(md.reports) \in {"failed", "cancelled"}
    BY <1>1, <1>2, <2>1, <2>4 DEF Log!LogNext, Log!Settle
  <2>5. CASE Head(md.reports) = "aborted" /\ md.reports = <<"aborted">>
    BY <1>1, <1>2, <2>1, <2>2, <2>5 DEF Log!LogNext, Log!Settle
  <2> QED BY <2>3, <2>4, <2>5
<1>4. CASE BreaksManifest
  <2>1. CASE UNCHANGED manifest
    BY <1>1, <2>1, LogStays
  <2>2. CASE manifest'.status = "broken"
    BY <1>1, <2>2 DEF Log!LogNext, Log!Settle
  <2> QED BY <1>4, <2>1, <2>2 DEF BreaksManifest
<1> QED BY <1>3, <1>4, PublishManifestTurns DEF MDInv

\* A step of the log, or none: the manifest of a late failure.
LEMMA PostManifestLog ==
  ASSUME MDInv, PostManifest
  PROVE  Log!LogNext \/ UNCHANGED Log!logVars
<1>1. /\ At("lastManifest") /\ UNCHANGED <<asked, raw, error>> /\ manifest.status = "none"
      /\ ~error /\ writer.pc = "ended" /\ asked = Regular
  BY PostManifestTurns DEF MDInv, ReportsInv, BeforeReport, OrderInv, VerdictInv, At, PostRun
<1>2. raw = asked
  BY <1>1, AllWritten
<1>3. CASE manifest' = [status |-> "completed", frames |-> count]
  <2>1. manifest'.status = "completed"
    BY <1>3
  <2> QED BY <1>1, <1>2, <2>1 DEF Log!LogNext, Log!Settle
<1>4. CASE BreaksManifest
  <2>1. CASE UNCHANGED manifest
    BY <1>1, <2>1, LogStays
  <2>2. CASE manifest'.status = "broken"
    BY <1>1, <2>2 DEF Log!LogNext, Log!Settle
  <2> QED BY <1>4, <2>1, <2>2 DEF BreaksManifest
<1> QED BY <1>3, <1>4, PostManifestTurns DEF MDInv

\* A step of the log, or none: the raw trajectory.
LEMMA WriteRawLog ==
  ASSUME MDInv, WriteRaw
  PROVE  Log!LogNext \/ UNCHANGED Log!logVars
<1>1. writer.pc = "raw" /\ UNCHANGED <<asked, manifest>>
  BY WriteRawTurns DEF MDInv
<1>2. ~error /\ manifest.status = "none"
  BY <1>1 DEF MDInv, FramesInv, StopInv, VerdictInv, Over
<1>3. CASE UNCHANGED error /\ raw' = Append(raw, writer.frame)
  <2>1. Held = 1 /\ Waiting \in Nat /\ Len(raw) \in Nat
    <3>1. Len(queue) \in Nat /\ Len(raw) \in Nat
      BY DEF MDInv, MDTypeInv, MDTypeOK
    <3> QED BY <1>1, <3>1 DEF Held, Waiting, Stopped
  <2>2. Len(asked) = Len(raw) + 1 + Waiting /\ asked[Len(raw) + 1] = writer.frame
    BY <1>2, <2>1 DEF MDInv, FramesInv, FlowInv
  <2>3. Len(raw) < Len(asked)
    BY <2>1, <2>2
  <2> QED BY <1>1, <1>2, <1>3, <2>2, <2>3 DEF Log!LogNext, Log!Write
<1>4. CASE FailTurn /\ UNCHANGED raw
  BY <1>1, <1>4, FailIsFail DEF FailTurn
<1> QED BY <1>3, <1>4, WriteRawTurns DEF MDInv

\* KeepsLog for any number of steps, any save interval, any bound of the queue
\* and any fault: an MD run is a FrameLog.  No frame asked for is dropped,
\* repeated or reordered, and only a complete log is called completed.
THEOREM KeepsItsLog == MDSpec => KeepsLog
<1>1. MDInit => Log!LogInit
  BY DEF MDInit, Log!LogInit
<1>2. MDInv /\ [MDNext]_vars => [Log!LogNext]_(Log!logVars)
  <2> SUFFICES ASSUME MDInv, [MDNext]_vars PROVE Log!LogNext \/ UNCHANGED Log!logVars
    OBVIOUS
  <2>1. CASE Observe \/ SubmitCheck \/ Handler \/ CloseCheck \/ CloseSentinel \/ CloseJoin \/ Contcar
    <3>1. UNCHANGED <<asked, raw, error, manifest>>
      BY <2>1 DEF Observe, SubmitCheck, Handler, CloseCheck, CloseSentinel, CloseJoin, Contcar, writerVars
    <3> QED BY <3>1, LogStays
  <2>2. CASE PublishTrailer \/ Post \/ PostTrailer \/ Leave \/ Interrupt \/ Cancel \/ UNCHANGED vars
    <3>1. UNCHANGED <<asked, raw, error, manifest>>
      BY <2>2 DEF PublishTrailer, Post, PostTrailer, Leave, Interrupt, Cancel, vars, mdVars, writerVars
    <3> QED BY <3>1, LogStays
  <2>3. CASE SubmitPut
    BY <2>3, SubmitPutLog
  <2>4. CASE PublishManifest
    BY <2>4, PublishManifestLog
  <2>5. CASE PostManifest
    BY <2>5, PostManifestLog
  <2>6. CASE WriteRaw
    BY <2>6, WriteRawLog
  <2>7. CASE OpenFiles \/ GetFrame \/ RecordFrame \/ ExportFrame \/ CloseFiles
    <3>1. UNCHANGED <<asked, raw, manifest>> /\ writer.pc # "ended" /\ (error' = error \/ error' = TRUE)
      BY <2>7, OpenFilesTurns, GetFrameTurns, RecordFrameTurns, ExportFrameTurns, CloseFilesTurns
         DEF MDInv, FailTurn
    <3> QED BY <3>1, LogStays, FailIsFail
  <2> QED BY <2>1, <2>2, <2>3, <2>4, <2>5, <2>6, <2>7 DEF MDNext, MDStep, WriterStep
<1> QED BY <1>1, <1>2, MDInvariant, PTL DEF MDSpec, KeepsLog, Log!LogSpec

-----------------------------------------------------------------------------
(* Who may leave whom behind: the half of AlwaysDrained and BothEnd that     *)
(* needs no fairness.                                                        *)

\* The writer is told to end, or ends already: its next steps need nobody.
Leaving == writer.pc \in Over \/ Stopped

\* Past its close, the MD thread has told the writer to end.
ToldToEnd == md.pc \notin SendsFrames \cup {"gone"} => Leaving

\* The MD thread that is gone has left no writer waiting.
NoneLeftWaiting == At("gone") => Leaving

\* A KeyboardInterrupt between the exception handler and the sentinel, where
\* nothing catches it any more.
EarlyInterrupt == Interrupt /\ md.pc \in {"backstop", "sentinel", "stop"}

\* As long as the sentinel stays last, a writer that leaves goes on leaving.
LEMMA LeavingStays ==
  ASSUME UNCHANGED <<writer, queue>>
  PROVE  Leaving' = Leaving
BY DEF Leaving, Stopped

\* The steps of the writer keep its order to end until it is obeyed.
LEMMA WriterKeepsLeaving ==
  ASSUME MDInv, WriterStep
  PROVE  UNCHANGED md /\ (Leaving => Leaving')
<1> USE DEF MDInv
<1>1. CASE OpenFiles
  <2>1. UNCHANGED <<md, queue>> /\ writer.pc \notin Over
    BY <1>1, OpenFilesTurns DEF Over
  <2> QED BY <2>1 DEF Leaving, Stopped
<1>2. CASE GetFrame
  <2>1. UNCHANGED md /\ queue # <<>> /\ queue' = Tail(queue) /\ writer.pc \notin Over
    BY <1>2, GetFrameTurns DEF Over
  <2>2. CASE Head(queue) = Stop
    <3>1. writer'.pc = "closing"
      BY <1>2, <2>2, GetFrameTurns DEF WriterTurn
    <3> QED BY <2>1, <3>1 DEF Leaving, Over
  <2>3. CASE Head(queue) # Stop
    <3>1. queue \in Seq(Taken \cup {Stop})
      BY DEF MDTypeInv, MDTypeOK
    <3>2. /\ Len(queue') = Len(queue) - 1 /\ Len(queue) \in Nat \ {0}
          /\ \A i \in 1..(Len(queue) - 1) : queue'[i] = queue[i + 1]
          /\ Head(queue) = queue[1]
      BY <2>1, <3>1, TailIs
    <3>3. ASSUME Stopped PROVE Stopped'
      <4>1. queue[Len(queue)] = Stop /\ Len(queue) # 1
        BY <2>3, <3>2, <3>3 DEF Stopped
      <4>2. Len(queue) - 1 \in 1..(Len(queue) - 1)
        BY <3>2, <4>1
      <4>3. queue'[Len(queue) - 1] = queue[Len(queue) - 1 + 1]
        BY <3>2, <4>2
      <4>4. Len(queue) - 1 + 1 = Len(queue)
        BY <3>2
      <4> QED BY <3>2, <4>1, <4>2, <4>3, <4>4 DEF Stopped
    <3> QED BY <2>1, <3>3 DEF Leaving
  <2> QED BY <2>2, <2>3
<1>3. CASE WriteRaw \/ RecordFrame \/ ExportFrame
  <2>1. UNCHANGED <<md, queue>> /\ writer.pc \notin Over
    BY <1>3, WriteRawTurns, RecordFrameTurns, ExportFrameTurns DEF Over
  <2> QED BY <2>1 DEF Leaving, Stopped
<1>4. CASE CloseFiles
  <2>1. UNCHANGED md /\ writer'.pc = "ended"
    BY <1>4, CloseFilesTurns DEF WriterTurn
  <2> QED BY <2>1 DEF Leaving, Over
<1> QED BY <1>1, <1>2, <1>3, <1>4 DEF WriterStep

\* The steps of the MD thread: where each of them leads, and what the writer
\* knows then.
LEMMA ThreadTellsWriter ==
  ASSUME MDInv, ToldToEnd, MDStep
  PROVE  ToldToEnd' /\ (md'.pc = "gone" => Leaving')
<1> USE DEF MDInv
<1>1. CASE Observe \/ SubmitCheck \/ Handler
  <2>1. md'.pc \in SendsFrames
    BY <1>1, ObserveTurns, SubmitCheckTurns, HandlerTurns DEF Turn, AfterTurn, SendsFrames
  <2> QED BY <2>1 DEF ToldToEnd, SendsFrames
<1>2. CASE SubmitPut
  <2>1. md'.pc \in SendsFrames
    BY <1>2, SubmitPutTurns DEF Turn, AfterTurn, SendsFrames
  <2> QED BY <2>1 DEF ToldToEnd, SendsFrames
<1>3. CASE CloseCheck
  <2>1. UNCHANGED <<writer, queue>> /\ (md'.pc = "stop" \/ (error /\ md'.pc = "join"))
    BY <1>3, CloseCheckTurns DEF Turn
  <2>2. error => Leaving
    BY DEF FramesInv, StopInv, Leaving
  <2> QED BY <2>1, <2>2, LeavingStays DEF ToldToEnd, SendsFrames
<1>4. CASE CloseSentinel
  <2>1. UNCHANGED writer
    BY <1>4, CloseSentinelTurns
  <2>2. CASE error
    <3>1. Leaving /\ UNCHANGED queue /\ md'.pc = "trailer"
      BY <1>4, <2>2, CloseSentinelTurns DEF FramesInv, StopInv, Leaving, FailsTurn, Turn
    <3> QED BY <2>1, <3>1, LeavingStays DEF ToldToEnd
  <2>3. CASE queue' = Append(queue, Stop) /\ md'.pc = "join"
    <3>1. queue \in Seq(Taken \cup {Stop})
      BY DEF MDTypeInv, MDTypeOK
    <3>2. Len(queue') = Len(queue) + 1 /\ Len(queue) \in Nat /\ queue'[Len(queue) + 1] = Stop
      BY <2>3, <3>1, AppendIs
    <3> QED BY <2>3, <3>2 DEF ToldToEnd, Leaving, Stopped
  <2>4. CASE UNCHANGED md
    BY <1>4, <2>4, CloseSentinelTurns DEF ToldToEnd, At, SendsFrames
  <2> QED BY <1>4, <2>2, <2>3, <2>4, CloseSentinelTurns DEF Turn
<1>5. CASE CloseJoin \/ Contcar \/ PublishTrailer \/ PublishManifest \/ Post \/ PostTrailer
           \/ PostManifest \/ Leave
  <2>1. /\ md.pc \in {"join", "contcar", "trailer", "manifest"} \cup PostRun
        /\ UNCHANGED <<writer, queue>>
    BY <1>5, CloseJoinTurns, ContcarTurns, PublishTrailerTurns, PublishManifestTurns, PostTurns,
       PostTrailerTurns, PostManifestTurns, LeaveTurns DEF At, PostRun
  <2>2. Leaving
    BY <2>1 DEF ToldToEnd, SendsFrames, PostRun
  <2> QED BY <2>1, <2>2, LeavingStays DEF ToldToEnd
<1> QED BY <1>1, <1>2, <1>3, <1>4, <1>5 DEF MDStep

\* An interrupt leaves the writer without its sentinel only where nothing
\* catches it and the sentinel has not been sent.
LEMMA InterruptTellsWriter ==
  ASSUME MDInv, ToldToEnd, Interrupt
  PROVE  /\ ToldToEnd'
         /\ md'.pc = "gone" /\ ~EarlyInterrupt => Leaving'
<1> USE DEF MDInv
<1>1. md.pc # "gone" /\ UNCHANGED <<writer, queue>> /\ md.pc \in MDPc
  BY InterruptTurns DEF MDTypeInv, MDTypeOK
<1>2. CASE md.pc \in Running \/ At("handler")
  <2>1. md'.pc \in {"handler", "backstop"}
    BY <1>2, InterruptTurns DEF Turn, At, Running, PostRun
  <2> QED BY <2>1 DEF ToldToEnd, SendsFrames
<1>3. CASE md.pc \in PostRun
  <2>1. Leaving
    BY <1>3 DEF ToldToEnd, SendsFrames, PostRun
  <2> QED BY <1>1, <2>1, LeavingStays DEF ToldToEnd
<1>4. CASE md.pc \notin Running \cup PostRun \cup {"handler"}
  <2>1. md'.pc = "gone"
    BY <1>4, InterruptTurns DEF Turn, At
  <2>2. ~EarlyInterrupt => md.pc \notin SendsFrames
    BY <1>4 DEF EarlyInterrupt, SendsFrames, Running
  <2> QED BY <1>1, <2>1, <2>2, LeavingStays DEF ToldToEnd
<1> QED BY <1>2, <1>3, <1>4 DEF At

\* Every step keeps the promise to the writer.
LEMMA ToldToEndStep == MDInv /\ ToldToEnd /\ [MDNext]_vars => ToldToEnd'
<1> SUFFICES ASSUME MDInv, ToldToEnd, [MDNext]_vars PROVE ToldToEnd'
  OBVIOUS
<1>1. CASE WriterStep
  BY <1>1, WriterKeepsLeaving DEF ToldToEnd
<1>2. CASE Cancel \/ UNCHANGED vars
  BY <1>2, LeavingStays DEF ToldToEnd, Cancel, vars, mdVars, writerVars
<1> QED BY <1>1, <1>2, ThreadTellsWriter, InterruptTellsWriter DEF MDNext

\* The MD thread joins, writes CONTCAR, reports and returns only after the
\* writer was told to end or has failed: its join never waits for a writer
\* that waits for a frame (AsyncMDOutputWriter.close; what BothEnd needs
\* besides fairness).
THEOREM JoinsOnlyAToldWriter == MDSpec => []ToldToEnd
<1>1. MDInit => ToldToEnd
  BY DEF MDInit, ToldToEnd, SendsFrames
<1> QED BY <1>1, ToldToEndStep, MDInvariant, PTL DEF MDSpec

\* The non-daemon writer thread is never left waiting for a frame, unless a
\* KeyboardInterrupt hits the backstop or the sending of the sentinel (the
\* boundary of what AlwaysDrained promises: no fault, cancellation, abort or
\* other interrupt does it).
THEOREM OnlyEarlyInterruptsLeaveWriter ==
  MDSpec /\ [][~EarlyInterrupt]_vars => []NoneLeftWaiting
<1>1. MDInit => NoneLeftWaiting /\ ToldToEnd
  BY DEF MDInit, NoneLeftWaiting, ToldToEnd, At, SendsFrames
<1>2. MDInv /\ ToldToEnd /\ NoneLeftWaiting /\ [MDNext]_vars /\ [~EarlyInterrupt]_vars
      => NoneLeftWaiting'
  <2> SUFFICES ASSUME MDInv, ToldToEnd, NoneLeftWaiting, [MDNext]_vars, [~EarlyInterrupt]_vars
      PROVE  NoneLeftWaiting'
    OBVIOUS
  <2>1. CASE WriterStep
    BY <2>1, WriterKeepsLeaving DEF NoneLeftWaiting, At
  <2>2. CASE Cancel \/ UNCHANGED vars
    BY <2>2, LeavingStays DEF NoneLeftWaiting, At, Cancel, vars, mdVars, writerVars
  <2>3. CASE MDStep
    BY <2>3, ThreadTellsWriter DEF NoneLeftWaiting, At
  <2>4. CASE Interrupt /\ md'.pc = "gone"
    <3>1. UNCHANGED vars \/ ~EarlyInterrupt
      OBVIOUS
    <3>2. ~UNCHANGED vars
      BY <2>4, InterruptTurns DEF vars, mdVars, MDInv
    <3> QED BY <2>4, <3>1, <3>2, InterruptTellsWriter DEF NoneLeftWaiting
  <2>5. CASE md'.pc # "gone"
    BY <2>5 DEF NoneLeftWaiting, At
  <2> QED BY <2>1, <2>2, <2>3, <2>4, <2>5 DEF MDNext
<1> QED BY <1>1, <1>2, ToldToEndStep, MDInvariant, PTL DEF MDSpec

\* Nothing is published and no result is written while the writer still
\* writes: the manifest, the trailers, CONTCAR and the results of the run come
\* after the join, or after the failure of the writer.
THEOREM PublishesAfterWriter ==
  MDSpec => [](manifest.status # "none" \/ md.pc \in {"trailer", "manifest", "contcar"} \cup PostRun
               => error \/ writer.pc = "ended")
<1>1. MDInv => (manifest.status # "none" \/ md.pc \in {"trailer", "manifest", "contcar"} \cup PostRun
                => error \/ writer.pc = "ended")
  BY DEF MDInv, VerdictInv
<1> QED BY <1>1, MDInvariant, PTL

-----------------------------------------------------------------------------
(* Which runs end without saying how: "the manifest must never stay          *)
(* "running"" (run of md.py).                                                *)

\* Once every report is made, the manifest has its terminal status, or it is
\* known that a report could not be written.
Reported ==
  At("gone") \/ (At("trailer") /\ md.reports = <<>>) => manifest.status \in Verdicts \/ lost

\* The thread is out of the program from inside close, or from the writing of
\* CONTCAR of an aborted run.
SilentEnd == md.pc \in Closing \cup {"contcar"} /\ md'.pc = "gone"

\* A failure of the writer leads to reports.
LEMMA FailsReports ==
  ASSUME FailsTurn
  PROVE  md'.pc = "trailer" /\ md'.reports # <<>>
<1>1. \A r \in {<<"failed">>, <<"failed", "cancelled">>} : Len(r) # 0
  OBVIOUS
<1>2. Len(<<>>) = 0
  OBVIOUS
<1> QED BY <1>1, <1>2, Zenon DEF FailsTurn, Turn

\* Elsewhere the thread leaves by its reports only.
LEMMA ThreadReports ==
  ASSUME MDInv, Reported, MDStep, ~SilentEnd
  PROVE  Reported'
<1> USE DEF MDInv
<1>1. CASE Observe \/ SubmitCheck \/ SubmitPut \/ Handler \/ CloseCheck
  <2>1. md'.pc \notin {"gone", "trailer"}
    BY <1>1, ObserveTurns, SubmitCheckTurns, SubmitPutTurns, HandlerTurns, CloseCheckTurns
       DEF Turn, AfterTurn
  <2> QED BY <2>1 DEF Reported, At
<1>2. CASE CloseSentinel
  <2>1. md'.pc \notin {"gone", "trailer"} \/ (md'.pc = "trailer" /\ md'.reports # <<>>)
    BY <1>2, CloseSentinelTurns, FailsReports DEF Turn, At
  <2> QED BY <2>1 DEF Reported, At
<1>3. CASE CloseJoin
  <2>1. \A r \in {<<"cancelled">>, <<"failed">>} : r # <<>>
    OBVIOUS
  <2>2. md'.pc \in {"contcar", "post"} \/ (md'.pc = "trailer" /\ md'.reports # <<>>)
    BY <1>3, <2>1, CloseJoinTurns, FailsReports DEF Turn
  <2> QED BY <2>2 DEF Reported, At
<1>4. CASE Contcar
  <2>1. md'.pc = "trailer" /\ md'.reports = <<"aborted">>
    BY <1>4, ContcarTurns DEF Turn, SilentEnd, At
  <2> QED BY <2>1 DEF Reported, At
<1>5. CASE PublishTrailer
  <2>1. CASE md.reports = <<>>
    <3>1. At("trailer") /\ UNCHANGED <<manifest, lost>>
      BY <1>5, <2>1, PublishTrailerTurns
    <3> QED BY <2>1, <3>1 DEF Reported
  <2>2. CASE md.reports # <<>>
    <3>1. md'.pc = "manifest"
      BY <1>5, <2>2, PublishTrailerTurns DEF Turn
    <3> QED BY <3>1 DEF Reported, At
  <2> QED BY <2>1, <2>2
<1>6. CASE PublishManifest
  <2>1. Head(md.reports) \in Verdicts
    BY <1>6, PublishManifestTurns, PlansAre DEF MDTypeInv
  <2>2. manifest'.status \in Verdicts \/ lost'
    <3>1. CASE manifest' = [status |-> Head(md.reports), frames |-> count]
      BY <2>1, <3>1
    <3>2. CASE lost' = TRUE
      BY <3>2
    <3> QED BY <1>6, <3>1, <3>2, PublishManifestTurns
  <2> QED BY <2>2 DEF Reported
<1>7. CASE Post \/ PostTrailer \/ PostManifest
  <2>1. md'.pc \in PostRun \/ (md'.pc = "trailer" /\ md'.reports = <<"failed">>)
    BY <1>7, PostTurns, PostTrailerTurns, PostManifestTurns DEF Turn, PostRun
  <2> QED BY <2>1 DEF Reported, At, PostRun
<1>8. CASE Leave
  <2>1. manifest.status = "completed" /\ UNCHANGED manifest
    BY <1>8, LeaveTurns DEF ReportsInv
  <2> QED BY <2>1 DEF Reported, Verdicts
<1> QED BY <1>1, <1>2, <1>3, <1>4, <1>5, <1>6, <1>7, <1>8 DEF MDStep

\* An interrupt of a report is a report that could not be written; one after
\* the run makes another report.
LEMMA InterruptTells ==
  ASSUME MDInv, Reported, Interrupt, ~SilentEnd
  PROVE  Reported'
<1> USE DEF MDInv
<1>1. CASE md.pc \in {"trailer", "manifest"}
  <2>1. lost'
    BY <1>1 DEF Interrupt
  <2> QED BY <2>1 DEF Reported
<1>2. CASE md.pc \in Running \cup PostRun \cup {"handler"}
  <2>1. md'.pc \in {"handler", "backstop"} \/ (md'.pc = "trailer" /\ md'.reports = <<"cancelled">>)
    BY <1>2, InterruptTurns DEF Turn, At, Running, PostRun
  <2> QED BY <2>1 DEF Reported, At
<1>3. CASE md.pc \in (Closing \ {"handler"}) \cup {"contcar"}
  <2>1. md'.pc = "gone"
    BY <1>3, InterruptTurns DEF Turn, At, Running, PostRun, Closing
  <2> QED BY <1>3, <2>1 DEF SilentEnd
<1>4. md.pc \in MDPc \ {"gone"}
  BY InterruptTurns DEF MDTypeInv, MDTypeOK
<1> QED BY <1>1, <1>2, <1>3, <1>4 DEF MDPc

\* A run that is over, and none of whose reports was lost, has told how it
\* ended, in the manifest and in OUTCAR alike; unless it was interrupted inside
\* close or could not write CONTCAR after an abort.  Nothing else leaves the
\* manifest "running": no failure of the model or of the writer, of the final
\* evaluation, or interrupt during or after the run.
THEOREM OnlySilentEndsSayNothing ==
  MDSpec /\ [][~SilentEnd]_vars =>
    [](At("gone") /\ ~lost => manifest.status \in Verdicts /\ outcar = manifest.status)
<1>1. MDInit => Reported
  BY DEF MDInit, Reported, At
<1>2. MDInv /\ Reported /\ [MDNext]_vars /\ [~SilentEnd]_vars => Reported'
  <2> SUFFICES ASSUME MDInv, Reported, [MDNext]_vars, [~SilentEnd]_vars
               PROVE  Reported'
    OBVIOUS
  <2>1. CASE UNCHANGED vars
    BY <2>1 DEF vars, mdVars, Reported, At
  <2>2. CASE WriterStep \/ Cancel
    <3>1. UNCHANGED mdVars
      BY <2>2 DEF WriterStep, OpenFiles, GetFrame, WriteRaw, RecordFrame, ExportFrame, CloseFiles,
                  Cancel, mdVars
    <3> QED BY <3>1 DEF mdVars, Reported, At
  <2>3. CASE MDStep /\ ~UNCHANGED vars
    BY <2>3, ThreadReports
  <2>4. CASE Interrupt /\ ~UNCHANGED vars
    BY <2>4, InterruptTells
  <2> QED BY <2>1, <2>2, <2>3, <2>4 DEF MDNext
<1>3. MDInv /\ Reported =>
        (At("gone") /\ ~lost => manifest.status \in Verdicts /\ outcar = manifest.status)
  BY DEF MDInv, ReportsInv, TrailerAgrees, Reported
<1> QED BY <1>1, <1>2, <1>3, MDInvariant, PTL DEF MDSpec
=============================================================================
