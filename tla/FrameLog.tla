------------------------------ MODULE FrameLog ------------------------------
(***************************************************************************)
(* What the output of an MD run promises its reader, free of threads and   *)
(* queues: frames are asked for in the order of the steps, the trajectory  *)
(* grows in that order without gap or repetition until the output fails,   *)
(* and the verdict of the run tells how much of it is there.               *)
(***************************************************************************)
EXTENDS Naturals, Sequences

CONSTANTS Frames,    \* the steps a frame can be taken of
          Regular    \* the sequence of frames of a run that completes

VARIABLES asked, log, failed, verdict

logVars == <<asked, log, failed, verdict>>

LogInit == asked = <<>> /\ log = <<>> /\ failed = FALSE /\ verdict = "none"

Ask(f) == /\ verdict = "none"
          /\ \A i \in DOMAIN asked : asked[i] < f
          /\ asked' = Append(asked, f)
          /\ UNCHANGED <<log, failed, verdict>>

Write == /\ verdict = "none"
         /\ ~failed
         /\ Len(log) < Len(asked)
         /\ log' = Append(log, asked[Len(log) + 1])
         /\ UNCHANGED <<asked, failed, verdict>>

Fail == /\ verdict = "none"
        /\ failed' = TRUE
        /\ UNCHANGED <<asked, log, verdict>>

\* "broken" is a report that could not be written.  What was called completed
\* may turn out failed or cancelled; nothing becomes completed or aborted that
\* was called anything before.
Settle(v) ==
  /\ verdict \in {"aborted", "cancelled"} => v = "broken"
  /\ v \in {"completed", "aborted"} => verdict = "none" /\ ~failed
  /\ v \in {"completed", "aborted", "cancelled"} => log = asked \/ failed
  /\ v = "completed" => log = Regular
  /\ verdict' = v
  /\ UNCHANGED <<asked, log, failed>>

LogNext == \/ \E f \in Frames : Ask(f)
           \/ Write
           \/ Fail
           \/ \E v \in {"completed", "aborted", "cancelled", "failed", "broken"} : Settle(v)

LogSpec == LogInit /\ [][LogNext]_logVars
=============================================================================
