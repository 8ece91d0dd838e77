CONSTANTS
  Jobs = {j1, j2, j3}
  Uuids = {g1}
  Tokens = {t1}
  Owners = {o1}
  Pids = {p1}
  Workers = {w1}
  Devices = {"gpu"}
  MaxJobsPerGpu = 2
  MaxClock = 3
  None = None
SPECIFICATION Spec
INVARIANTS TypeOK LeaseBound WaitingHoldsNothing
PROPERTIES TerminalIsFinal RunningIsPinned
SYMMETRY RegistrySymmetry
CHECK_DEADLOCK FALSE
