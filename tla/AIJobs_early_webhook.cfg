CONSTANTS
  NumJobs = 1
  Tids = {t1, t2}
  Meetings = {m1}
  Requests = {}
  Hooks = {h1}
  SummaryWorkers = {w1}
  PendingWorker = pw
  TimeoutWorker = tw
  ZombieWorker = zw
  UploadSlots = 2
  MaxRetries = 0
  PollLimit = 1
  ScanLimit = 2
  MaxDeliveries = 1
  Announced = {"processing", "completed", "error"}
  MaxFaults = 0
  SlowWorkers = TRUE
  NoTid = NoTid
SPECIFICATION Spec
PROPERTY WebhookFindsJob
