CONSTANTS
  Steps = 4
  SaveInterval = 2
  QueueMax = 1
  MaxFaults = 0
  MaxInterrupts = 1
  InterruptPoints = {"stop"}
  Stop = Stop
SPECIFICATION FairMDSpec
PROPERTY AlwaysDrained
CHECK_DEADLOCK FALSE
