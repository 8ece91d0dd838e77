CONSTANTS
  Jobs = {j1, j2}
  Uuids = {g1}
  Tokens = {1, 2, 3}
  Owners = {1, 2}
  Pids = {p1, p2}
  Workers = {1, 2, 3}
  MaxJobsPerGpu = 1
  MaxClock = 2
  MaxConcurrent = 2
  MaxFaults = 1
  MaxCommands = 0
  Commands = {}
  Devices = {"cpu","gpu"}
  None = None
SPECIFICATION FairQueueSpec
PROPERTIES ClaimsAreResolved QueueDrains DeadWorkersAreNoticed WorkersEnd
CHECK_DEADLOCK FALSE
CONSTRAINTS FirstIsGpu FirstPid
