CONSTANTS
  Callers = {c1, c2, c3}
  Ops = {"start", "stop"}
  MaxFaults = 0
  None = None
SPECIFICATION Spec
INVARIANT RunningIsVisible
CHECK_DEADLOCK FALSE
