---------------------------- MODULE JobContract ----------------------------
(***************************************************************************)
(* What the queue promises about one job, without schedulers, workers,     *)
(* claims, leases or signals: a job is submitted once, its calculation is  *)
(* started at most once, and the outcome shown to the user is that of the  *)
(* calculation unless the job was cancelled or failed on the way.          *)
(* Module JobQueue implements it.                                          *)
(***************************************************************************)
CONSTANT Ids

VARIABLES
  phase,   \* [Ids -> what the registry shows]
  run      \* [Ids -> the job's calculation]

Codes == {"success", "not_converged", "cancelled", "error"}
Over == {"done", "not_converged", "failed", "cancelled"}

Init == /\ phase = [j \in Ids |-> "absent"]
        /\ run = [j \in Ids |-> "no"]

Show(j, p) == /\ phase' = [phase EXCEPT ![j] = p]
              /\ UNCHANGED run

Submit(j) == phase[j] = "absent" /\ run[j] = "no" /\ Show(j, "waiting")

\* The job is picked for a launch, and given back if the launch fails: never
\* once its calculation has started.
Pick(j) == phase[j] = "waiting" /\ run[j] = "no" /\ Show(j, "active")
GiveBack(j) == phase[j] = "active" /\ run[j] = "no" /\ Show(j, "waiting")

\* The calculation of a job cancelled at the last moment may still start.
Start(j) == /\ run[j] = "no"
            /\ phase[j] \in {"active", "cancelled", "absent"}
            /\ run' = [run EXCEPT ![j] = "live"]
            /\ UNCHANGED phase

Finish(j) == /\ run[j] = "live"
             /\ \E code \in Codes : run' = [run EXCEPT ![j] = code]
             /\ UNCHANGED phase

\* The outcome of the calculation is shown.
Settle(j) ==
  /\ phase[j] = "active"
  /\ \/ run[j] = "success" /\ Show(j, "done")
     \/ run[j] = "not_converged" /\ Show(j, "not_converged")
     \/ run[j] = "cancelled" /\ Show(j, "cancelled")

\* Something broke before, during or after the calculation.
Fail(j) == phase[j] \in {"waiting", "active"} /\ Show(j, "failed")

Cancel(j) == phase[j] \in {"waiting", "active"} /\ Show(j, "cancelled")

\* Only what is not active is removed; one call may remove many.
Remove ==
  /\ \E S \in SUBSET {j \in Ids : phase[j] # "active"} :
       phase' = [j \in Ids |-> IF j \in S THEN "absent" ELSE phase[j]]
  /\ UNCHANGED run

Next ==
  \/ Remove
  \/ \E j \in Ids : \/ Submit(j) \/ Pick(j) \/ GiveBack(j) \/ Start(j) \/ Finish(j)
                    \/ Settle(j) \/ Fail(j) \/ Cancel(j)

Spec == Init /\ [][Next]_<<phase, run>>
=============================================================================
