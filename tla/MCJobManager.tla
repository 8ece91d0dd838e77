---------------------------- MODULE MCJobManager ----------------------------
\* Bounded instance of JobManager: every caller, every argument.
EXTENDS JobManager, TLC

\* Job ids, GPUs, tokens, owners, pids and workers are only compared.
RegistrySymmetry == Permutations(Jobs)
=============================================================================
