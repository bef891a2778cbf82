CONSTANTS
  NumJobs = 2
  Tids = {t1, t2}
  Meetings = {m1}
  Requests = {r1}
  Hooks = {}
  SummaryWorkers = {w1}
  PendingWorker = pw
  TimeoutWorker = tw
  ZombieWorker = zw
  UploadSlots = 2
  MaxRetries = 0
  PollLimit = 1
  ScanLimit = 1
  MaxDeliveries = 1
  Announced = {}
  MaxFaults = 0
  SlowWorkers = TRUE
  NoTid = NoTid
SPECIFICATION Spec
SYMMETRY Symmetry
INVARIANTS
  ExternalIdOwned
  TranscriptBeforeSummary
  CompletedHasSummary
