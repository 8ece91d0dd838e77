CONSTANTS
  LastReplica = 2
  FirstCycles = 1
  MaxCycles = 2
  MaxSessions = 2
SPECIFICATION SearchSpec
PROPERTY ResumeContinues
CHECK_DEADLOCK FALSE
