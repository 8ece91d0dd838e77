CONSTANTS
  Steps = 6
  SaveInterval = 2
  QueueMax = 2
  MaxFaults = 2
  MaxInterrupts = 2
  InterruptPoints = {"observe", "check", "put", "handler", "contcar", "trailer", "manifest", "post", "lastTrailer", "lastManifest", "leave"}
  Stop = Stop
  MaxGpumdRuns = 2
  MaxStops = 2
  NoRun = NoRun
  BatchRuns = {1, 2}
  Settings = {A, B}
  LastStructure = 2
  MaxActs = 1
  Policy = "relax"
  Climb = TRUE
  Interval = 2
  StageSteps = 2
  MaxAttempts = 2
  MaxRaises = 2
  LastReplica = 2
  FirstCycles = 1
  MaxCycles = 2
  MaxSessions = 4
SPECIFICATION Spec
INVARIANTS MDTypeOK PublishedFilesAgree TrailerAgrees
INVARIANTS NativeIsOneRun VerdictIsTrue
INVARIANTS BatchTypeOK ReuseIsSound SummaryAgrees
INVARIANTS NebTypeOK LatestIsNearlyNewest NebReportsAgree FinishedIsBacked
INVARIANTS SearchTypeOK ResumeIsUninterrupted RawIsOneAttempt BudgetsAgree
PROPERTIES KeepsLog MDBothEnd StopsInTheEnd
CHECK_DEADLOCK FALSE
