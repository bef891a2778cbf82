CONSTANTS
  NumJobs = 1
  Tids = {t1, t2}
  Meetings = {m1}
  Requests = {}
  Hooks = {h1}
  SummaryWorkers = {w1}
  PendingWorker = pw
  TimeoutWorker = tw
  ZombieWorker = zw
  UploadSlots = 2
  MaxRetries = 1
  PollLimit = 1
  ScanLimit = 2
  MaxDeliveries = 1
  Announced = {"completed", "error"}
  MaxFaults = 2
  SlowWorkers = FALSE
  NoTid = NoTid
SPECIFICATION FairSpec
INVARIANTS
  TypeOK
  RetriesBounded
  FailedOnlyWhenExhausted
  TranscriptBeforeSummary
  CompletedHasSummary
PROPERTIES
  RequeueSpendsRetry
  ImplementsPipeline
  EveryJobSettles
