------------------------------ MODULE MDOutput ------------------------------
(***************************************************************************)
(* The output of an MD run: the MD thread (runners/md.py, MDRunner.run     *)
(* from the first step on) and the writer thread (runners/md_output.py,    *)
(* AsyncMDOutputWriter) with the bounded queue of frames between them, and *)
(* the reports written at the end: OUTCAR trailer and artifacts.json.      *)
(*                                                                         *)
(* A frame is the number of its step.  raw stands for trajectory.traj and  *)
(* md.csv, exports for XDATCAR and OUTCAR.  Forces, energies and the point *)
(* at which a force counts as unsafe are not represented: any step may     *)
(* turn out unsafe or fail.  KeyboardInterrupt reaches the MD thread only, *)
(* at any of the points of InterruptPoints.                                *)
(***************************************************************************)
EXTENDS Naturals, Sequences

CONSTANTS
  Steps,            \* total_steps
  SaveInterval,     \* save_interval
  QueueMax,         \* QUEUE_MAX_FRAMES
  MaxFaults,        \* bound: failing writes and evaluations
  MaxInterrupts,    \* bound: KeyboardInterrupts
  InterruptPoints,  \* where in the MD thread one may arrive
  Stop              \* _SENTINEL

ASSUME StepsNat == Steps \in Nat
ASSUME IntervalPositive == SaveInterval \in Nat \ {0}
ASSUME QueuePositive == QueueMax \in Nat \ {0}
ASSUME StopIsNoFrame == Stop \notin 0..Steps
ASSUME MDBudgets == MaxFaults \in Nat /\ MaxInterrupts \in Nat

VARIABLES
  md,          \* the MD thread: pc, step, exception in flight, reports to write
  writer,      \* the writer thread: pc and the frame in hand
  queue,       \* frames, then the sentinel
  error,       \* the writer has failed (_error)
  raw, exports, count,     \* the files, and stats.count
  outcar,      \* status of the last trailer of OUTCAR
  manifest,    \* status and frame count of artifacts.json
  cancelled,   \* cancel_event
  faults, interrupts,
  asked,       \* history: the frames put into the queue
  lost         \* history: a report could not be written

mdVars == <<md, outcar, manifest, lost>>
writerVars == <<writer, error, raw, exports, count>>
vars == <<mdVars, writerVars, queue, cancelled, faults, interrupts, asked>>

-----------------------------------------------------------------------------
Running == {"observe", "check", "put"}
Closing == {"handler", "backstop", "sentinel", "stop", "join"}
PostRun == {"post", "lastTrailer", "lastManifest", "leave"}
MDPc == Running \cup Closing \cup PostRun \cup {"contcar", "trailer", "manifest", "gone"}
Causes == {"none", "abort", "cancel", "interrupt", "error"}
Verdicts == {"completed", "aborted", "cancelled", "failed"}

Fault == faults < MaxFaults /\ faults' = faults + 1
At(pc) == md.pc = pc
Goto(pc) == md' = [md EXCEPT !.pc = pc]
Raise(cause) == md' = [md EXCEPT !.pc = "handler", !.cause = cause]

\* The thread's way out through publish_terminal, once for each status of
\* reports, and then through the raise that follows.
Publish(reports) == md' = [md EXCEPT !.pc = "trailer", !.reports = reports]

MDInit ==
  /\ md = [pc |-> "observe", step |-> 0, cause |-> "none", reports |-> <<>>]
  /\ writer = [pc |-> "open", frame |-> 0]
  /\ queue = <<>>
  /\ error = FALSE
  /\ raw = <<>> /\ exports = <<>> /\ count = 0
  /\ outcar = "none"
  /\ manifest = [status |-> "none", frames |-> 0]
  /\ cancelled = FALSE
  /\ faults = 0 /\ interrupts = 0
  /\ asked = <<>>
  /\ lost = FALSE

-----------------------------------------------------------------------------
(* The MD thread during the run: print_progress after every step. *)

\* What follows a step whose frame, if it has one, is in the queue.
AfterStep ==
  IF md.cause = "abort" THEN [md EXCEPT !.pc = "handler"]
  ELSE IF md.step = Steps THEN [md EXCEPT !.pc = "sentinel"]
  ELSE [md EXCEPT !.pc = "observe", !.step = @ + 1]

\* The writer's failure first, then cancellation, then the evaluation of the
\* step, which may fail or find an unsafe force.
Observe ==
  /\ At("observe")
  /\ \/ error /\ Raise("error") /\ UNCHANGED faults
     \/ ~error /\ cancelled /\ Raise("cancel") /\ UNCHANGED faults
     \/ ~error /\ ~cancelled /\ Raise("error") /\ Fault
     \/ /\ ~error /\ ~cancelled
        /\ md' \in {[md EXCEPT !.pc = "check", !.cause = "abort"],
                    IF md.step % SaveInterval = 0
                    THEN [md EXCEPT !.pc = "check"] ELSE AfterStep}
        /\ UNCHANGED faults
  /\ UNCHANGED <<writerVars, outcar, manifest, lost, queue, cancelled, interrupts, asked>>

\* Mutant: submit does not look for a failed writer while it waits.
SubmitCheckNot ==
  /\ At("check")
  /\ Goto("put")
  /\ UNCHANGED <<writerVars, outcar, manifest, lost, queue, cancelled, faults, interrupts, asked>>

\* submit: raise_if_failed ...
SubmitCheck ==
  /\ At("check")
  /\ IF error THEN Raise("error") ELSE Goto("put")
  /\ UNCHANGED <<writerVars, outcar, manifest, lost, queue, cancelled, faults, interrupts, asked>>

\* Mutant: a full queue drops the frame.
SubmitPutDrops ==
  /\ At("put")
  /\ md' = AfterStep
  /\ IF Len(queue) < QueueMax
     THEN queue' = Append(queue, md.step) /\ asked' = Append(asked, md.step)
     ELSE UNCHANGED <<queue, asked>>
  /\ UNCHANGED <<writerVars, outcar, manifest, lost, cancelled, faults, interrupts>>

\* Mutant: the queue is not bounded.
SubmitPutUnbounded ==
  /\ At("put")
  /\ queue' = Append(queue, md.step)
  /\ asked' = Append(asked, md.step)
  /\ md' = AfterStep
  /\ UNCHANGED <<writerVars, outcar, manifest, lost, cancelled, faults, interrupts>>

\* ... and put with a timeout; a full queue means another round.
SubmitPut ==
  /\ At("put")
  /\ IF Len(queue) < QueueMax
     THEN /\ queue' = Append(queue, md.step)
          /\ asked' = Append(asked, md.step)
          /\ md' = AfterStep
     ELSE Goto("check") /\ UNCHANGED <<queue, asked>>
  /\ UNCHANGED <<writerVars, outcar, manifest, lost, cancelled, faults, interrupts>>

-----------------------------------------------------------------------------
(* The exception handlers of run, and close_output_stream. *)

\* A handler, or the backstop of the finally block, calls close_output_stream,
\* which marks the stream closed and calls close: the sentinel is sent to a
\* writer that has not failed.  "sentinel" is close before its first look.
Handler ==
  /\ md.pc \in {"handler", "backstop"}
  /\ md' = [md EXCEPT !.pc = "sentinel",
              !.reports = IF At("backstop") THEN <<"cancelled">> ELSE <<>>]
  /\ UNCHANGED <<writerVars, outcar, manifest, lost, queue, cancelled, faults, interrupts, asked>>

\* The writer has failed: "failed" is reported and the error raised.  The
\* backstop alone swallows it and reports its own status after it.
CloseFails == Publish(<<"failed">> \o md.reports)

CloseCheck ==
  /\ At("sentinel")
  /\ IF error THEN Goto("join") ELSE Goto("stop")
  /\ UNCHANGED <<writerVars, outcar, manifest, lost, queue, cancelled, faults, interrupts, asked>>

\* The loop of close: raise_if_failed, which leaves without a join, then put.
CloseSentinel ==
  /\ At("stop")
  /\ IF error THEN CloseFails /\ UNCHANGED queue
     ELSE IF Len(queue) < QueueMax THEN queue' = Append(queue, Stop) /\ Goto("join")
     ELSE UNCHANGED <<md, queue>>
  /\ UNCHANGED <<writerVars, outcar, manifest, lost, cancelled, faults, interrupts, asked>>

\* What a drained stream leads to.
Drained ==
  IF md.reports # <<>> THEN Publish(md.reports)
  ELSE CASE md.cause = "abort"                   -> Goto("contcar")
         [] md.cause \in {"cancel", "interrupt"} -> Publish(<<"cancelled">>)
         [] md.cause = "error"                   -> Publish(<<"failed">>)
         [] md.cause = "none"                    -> Goto("post")

\* Mutant: the error is looked at only before the join.
CloseJoinUnchecked ==
  /\ At("join")
  /\ writer.pc = "ended"
  /\ Drained
  /\ UNCHANGED <<writerVars, outcar, manifest, lost, queue, cancelled, faults, interrupts, asked>>

\* The join, and raise_if_failed once more.
CloseJoin ==
  /\ At("join")
  /\ writer.pc = "ended"
  /\ IF error THEN CloseFails ELSE Drained
  /\ UNCHANGED <<writerVars, outcar, manifest, lost, queue, cancelled, faults, interrupts, asked>>

\* An aborted run writes CONTCAR before it reports; when that fails nothing
\* is reported, since the stream is closed already.
Contcar ==
  /\ At("contcar")
  /\ \/ Publish(<<"aborted">>) /\ UNCHANGED faults
     \/ Goto("gone") /\ Fault
  /\ UNCHANGED <<writerVars, outcar, manifest, lost, queue, cancelled, interrupts, asked>>

-----------------------------------------------------------------------------
(* publish_terminal and the post-run part. *)

\* Mutant: a finished OUTCAR is never corrected.
TrailerOnce(status) == IF outcar = "none" THEN status ELSE outcar

\* MDOutcarWriter.finalize: the same status again is a no-op, another one is a
\* corrective trailer, so the last trailer is the authoritative one.
Trailer(status) == status

\* Both reports are best effort: a failure of either is suppressed.
PublishTrailer ==
  /\ At("trailer")
  /\ IF md.reports = <<>>
     THEN Goto("gone") /\ UNCHANGED <<outcar, lost, faults>>
     ELSE /\ Goto("manifest")
          /\ \/ outcar' = Trailer(Head(md.reports)) /\ UNCHANGED <<lost, faults>>
             \/ Fault /\ lost' = TRUE /\ UNCHANGED outcar
  /\ UNCHANGED <<writerVars, manifest, queue, cancelled, interrupts, asked>>

\* _write_artifacts_manifest: write_text truncates the file before it writes.
ManifestFails == \/ UNCHANGED manifest
                 \/ manifest' = [manifest EXCEPT !.status = "broken"]

PublishManifest ==
  /\ At("manifest")
  /\ Publish(Tail(md.reports))
  /\ \/ /\ manifest' = [status |-> Head(md.reports), frames |-> count]
        /\ UNCHANGED <<lost, faults>>
     \/ Fault /\ lost' = TRUE /\ ManifestFails
  /\ UNCHANGED <<writerVars, outcar, queue, cancelled, interrupts, asked>>

\* postrun_failure_guard around the final evaluation and the result files, the
\* trailer and the manifest of a completed run.
PostStep(pc, next) ==
  /\ At(pc)
  /\ \/ Goto(next) /\ UNCHANGED faults
     \/ Publish(<<"failed">>) /\ Fault

Post ==
  /\ PostStep("post", "lastTrailer")
  /\ UNCHANGED <<writerVars, outcar, manifest, lost, queue, cancelled, interrupts, asked>>

PostTrailer ==
  /\ PostStep("lastTrailer", "lastManifest")
  /\ outcar' = IF faults' = faults THEN Trailer("completed") ELSE outcar
  /\ UNCHANGED <<writerVars, manifest, lost, queue, cancelled, interrupts, asked>>

PostManifest ==
  /\ PostStep("lastManifest", "leave")
  /\ IF faults' = faults THEN manifest' = [status |-> "completed", frames |-> count]
                         ELSE ManifestFails
  /\ UNCHANGED <<writerVars, outcar, lost, queue, cancelled, interrupts, asked>>

Leave ==
  /\ At("leave")
  /\ Goto("gone")
  /\ UNCHANGED <<writerVars, outcar, manifest, lost, queue, cancelled, faults, interrupts, asked>>

MDStep ==
  \/ Observe \/ SubmitCheck \/ SubmitPut
  \/ Handler \/ CloseCheck \/ CloseSentinel \/ CloseJoin \/ Contcar
  \/ PublishTrailer \/ PublishManifest
  \/ Post \/ PostTrailer \/ PostManifest \/ Leave

\* KeyboardInterrupt: a handler of the run, or the backstop when it hits a
\* handler; the guard after the run; out of the program everywhere else.
Interrupt ==
  /\ md.pc \in InterruptPoints \ {"gone"}
  /\ interrupts < MaxInterrupts
  /\ interrupts' = interrupts + 1
  /\ CASE md.pc \in Running  -> Raise("interrupt")
       [] At("handler")      -> Goto("backstop")
       [] md.pc \in PostRun  -> Publish(<<"cancelled">>)
       [] OTHER              -> Goto("gone")
  /\ lost' = (lost \/ md.pc \in {"trailer", "manifest"})
  /\ UNCHANGED <<writerVars, outcar, manifest, queue, cancelled, faults, asked>>

Cancel ==
  /\ ~cancelled
  /\ cancelled' = TRUE
  /\ UNCHANGED <<mdVars, writerVars, queue, faults, interrupts, asked>>

-----------------------------------------------------------------------------
(* The writer thread: AsyncMDOutputWriter._run. *)

WriterFails == error' = TRUE /\ writer' = [writer EXCEPT !.pc = "closing"] /\ Fault

WriterGoto(pc) ==
  writer' = [writer EXCEPT !.pc = pc] /\ UNCHANGED <<error, faults>>

OpenFiles ==
  /\ writer.pc = "open"
  /\ WriterGoto("get") \/ WriterFails
  /\ UNCHANGED <<mdVars, raw, exports, count, queue, cancelled, interrupts, asked>>

GetFrame ==
  /\ writer.pc = "get"
  /\ queue # <<>>
  /\ queue' = Tail(queue)
  /\ writer' = IF Head(queue) = Stop THEN [writer EXCEPT !.pc = "closing"]
               ELSE [pc |-> "raw", frame |-> Head(queue)]
  /\ UNCHANGED <<mdVars, error, raw, exports, count, cancelled, faults, interrupts, asked>>

WriteRaw ==
  /\ writer.pc = "raw"
  /\ \/ raw' = Append(raw, writer.frame) /\ WriterGoto("record")
     \/ UNCHANGED raw /\ WriterFails
  /\ UNCHANGED <<mdVars, exports, count, queue, cancelled, interrupts, asked>>

\* The CSV row and stats.record.
RecordFrame ==
  /\ writer.pc = "record"
  /\ \/ count' = count + 1 /\ WriterGoto("export")
     \/ UNCHANGED count /\ WriterFails
  /\ UNCHANGED <<mdVars, raw, exports, queue, cancelled, interrupts, asked>>

ExportFrame ==
  /\ writer.pc = "export"
  /\ \/ exports' = Append(exports, writer.frame) /\ WriterGoto("get")
     \/ UNCHANGED exports /\ WriterFails
  /\ UNCHANGED <<mdVars, raw, count, queue, cancelled, interrupts, asked>>

\* Closing flushes what is still buffered, and may fail.
CloseFiles ==
  /\ writer.pc = "closing"
  /\ writer' = [writer EXCEPT !.pc = "ended"]
  /\ \/ UNCHANGED <<error, faults>>
     \/ error' = TRUE /\ Fault
  /\ UNCHANGED <<mdVars, raw, exports, count, queue, cancelled, interrupts, asked>>

WriterStep ==
  OpenFiles \/ GetFrame \/ WriteRaw \/ RecordFrame \/ ExportFrame \/ CloseFiles

-----------------------------------------------------------------------------
MDNext == MDStep \/ WriterStep \/ Interrupt \/ Cancel

MDSpec == MDInit /\ [][MDNext]_vars

\* Both threads run.
FairMDSpec == MDSpec /\ WF_vars(MDStep) /\ WF_vars(WriterStep)

-----------------------------------------------------------------------------
Taken == 0..Steps

MDTypeOK ==
  /\ md \in [pc : MDPc, step : Taken, cause : Causes, reports : Seq(Verdicts)]
  /\ writer \in [pc : {"open", "get", "raw", "record", "export", "closing", "ended"},
                 frame : Taken]
  /\ queue \in Seq(Taken \cup {Stop}) /\ Len(queue) <= QueueMax
  /\ {raw, exports, asked} \subseteq Seq(Taken)
  /\ {count, faults, interrupts} \subseteq Nat
  /\ outcar \in Verdicts \cup {"none"}
  /\ manifest \in [status : Verdicts \cup {"none", "broken"}, frames : Nat]
  /\ {error, cancelled, lost} \subseteq BOOLEAN

\* A manifest that says completed or aborted, or cancelled while the writer
\* did not fail, describes the files as they are, and they agree: raw data,
\* exports and the frame count of the manifest; and the last frame of an
\* aborted run is the unsafe one that ended it ("always checkpoint the unsafe
\* frame before raising a force-safety abort").
PublishedFilesAgree ==
  \/ manifest.status \in {"completed", "aborted"}
  \/ manifest.status = "cancelled" /\ ~error
  => /\ raw = exports
     /\ manifest.frames = Len(raw)
     /\ manifest.status = "aborted" => raw # <<>> /\ raw[Len(raw)] = md.step

\* However the run ends, and however late it turns from completed to failed or
\* cancelled, OUTCAR and manifest end up telling the same status, unless one
\* of them could not be written (AUD-006).
TrailerAgrees ==
  At("gone") /\ ~lost /\ manifest.status \in Verdicts => outcar = manifest.status

\* The promise of FrameLog: no frame asked for is dropped, repeated or
\* reordered, and an incomplete log is only ever called failed (or cancelled,
\* when an interrupt hits the handling of a failed output).
Regular == [i \in 1..(Steps \div SaveInterval + 1) |-> (i - 1) * SaveInterval]

Log == INSTANCE FrameLog WITH
         Frames <- Taken, log <- raw, failed <- error,
         verdict <- manifest.status

KeepsLog == Log!LogSpec

\* Both threads end: backpressure, a dead writer, a cancellation or an
\* exception never leaves one waiting for the other.
BothEnd == <>(At("gone") /\ writer.pc = "ended")

-----------------------------------------------------------------------------
\* Comment in MDRunner.run: "the non-daemon writer thread must always be
\* drained".  (Else it keeps the process from exiting.)
AlwaysDrained == At("gone") ~> writer.pc = "ended"
=============================================================================
