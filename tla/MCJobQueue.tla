---------------------------- MODULE MCJobQueue ----------------------------
\* Bounded instances of JobQueue.
EXTENDS JobQueue, TLC

\* Pids are only compared.
QueueSymmetry == Permutations(Pids)

\* Of two jobs that differ in their device only, the one submitted first is
\* taken to be the GPU job.
FirstIsGpu == \A j \in Jobs : jobs[j].born = 1 => jobs[j].device = "gpu"

\* Where liveness forbids the symmetry, the worker of claim 1 takes the first
\* pid: renaming the pids turns every other behaviour into one of these.
FirstPid == worker[1].pid \in {None, CHOOSE p \in Pids : TRUE}
=============================================================================
