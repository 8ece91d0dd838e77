CONSTANTS
  Jobs = {j1, j2}
  Uuids = {g1}
  Tokens = {1, 2, 3}
  Owners = {1, 2}
  Pids = {p1, p2}
  Workers = {1, 2, 3}
  MaxJobsPerGpu = 1
  MaxClock = 2
  MaxConcurrent = 1
  MaxFaults = 1
  MaxCommands = 1
  Commands = {"kill"}
  Devices = {"gpu"}
  None = None
SPECIFICATION QueueSpec
INVARIANT CalculationsWithinLease
CHECK_DEADLOCK FALSE
