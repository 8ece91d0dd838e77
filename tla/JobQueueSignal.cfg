CONSTANTS
  Jobs = {j1, j2}
  Uuids = {g1}
  Tokens = {1, 2, 3}
  Owners = {1, 2}
  Pids = {p1}
  Workers = {1, 2, 3}
  MaxJobsPerGpu = 1
  MaxClock = 2
  MaxConcurrent = 1
  MaxFaults = 1
  MaxCommands = 1
  Commands = {"kill"}
  Devices = {"cpu"}
  None = None
SPECIFICATION QueueSpec
PROPERTY KillHitsItsWorker
CHECK_DEADLOCK FALSE
