SPECIFICATION FairSpec
CONSTANTS
  Job = {j1}
  Call = {a}
  Worker = {w1}
  Video = {m1, m2}
  Key = {}
  NoJob = NoJob
  NoKey = NoKey
  ActiveLimit = 1
  DailyLimit = 1
  MaxRetries = 2
INVARIANTS
  TypeOK
  ArchiveIsRight
PROPERTIES
  CompletedStays
  JobsResolve
