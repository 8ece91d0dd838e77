CONSTANTS
  Callers = {c1, c2, c3}
  Ops = {"start", "foreground", "stop", "status"}
  MaxFaults = 2
  None = None
SPECIFICATION Spec
INVARIANTS TypeOK SchedulerHoldsLock FailedStartLeavesNothing Startable
PROPERTY StopIsObeyed
CHECK_DEADLOCK FALSE
