CONSTANTS
  MaxJobs = 1
  MaxTranscripts = 2
  MaxIds = 2
  MaxItems = 2
  MaxAttempts = 2
  SlowWorkers = FALSE
  Workers = {w1, w2}
  Hooks = {g1}
  Readers = {r1}
  Sweeps = {z1}
SPECIFICATION FairSpec
INVARIANTS
  TypeOK
  NoSummaryOnlyByRace
  ItemsOfOneAnalysis
  ItemsFromTheStart
  ReaderKeepsHisRow
  TranscriptTextLast
PROPERTIES
  EveryStepCounts
  EveryClaimEnds
  ImplementsContract
