CONSTANTS
  Jobs = {j1, j2}
  Uuids = {g1}
  Tokens = {1, 2, 3, 4}
  Owners = {1, 2, 3}
  Pids = {p1, p2}
  Workers = {1, 2, 3, 4}
  Devices = {"cpu"}
  MaxJobsPerGpu = 1
  MaxClock = 2
  MaxConcurrent = 1
  MaxFaults = 2
  MaxCommands = 1
  Commands = {"kill"}
  None = None
SPECIFICATION QueueSpec
INVARIANTS RunsAtMostOnce CapRespected
PROPERTY KeepsContract
SYMMETRY QueueSymmetry
CHECK_DEADLOCK FALSE
