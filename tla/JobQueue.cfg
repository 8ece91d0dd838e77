CONSTANTS
  Jobs = {j1, j2}
  Uuids = {g1}
  Tokens = {1, 2, 3}
  Owners = {1, 2}
  Pids = {p1, p2}
  Workers = {1, 2, 3}
  Devices = {"cpu", "gpu"}
  MaxJobsPerGpu = 1
  MaxClock = 2
  MaxConcurrent = 2
  MaxFaults = 1
  MaxCommands = 1
  Commands = {"kill", "pause_queue", "pause_job", "delete", "clean", "migrate"}
  None = None
SPECIFICATION QueueSpec
INVARIANTS QueueTypeOK SupervisedIsRunning TruthfulOutcome PauseStopsDispatch
CONSTRAINT FirstIsGpu
SYMMETRY QueueSymmetry
CHECK_DEADLOCK FALSE
