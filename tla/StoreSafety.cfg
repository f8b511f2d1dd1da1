CONSTANTS
  Keys = {key}
  Small = {key}
  Large = {key}
  Listable = {key}
  Packable = {key}
  Requests = {r1, r2}
  Concurrency = 1
  PackLimit = 1
  HaveGha = TRUE
  DiskMayFail = TRUE
SPECIFICATION FairSpec
INVARIANTS TypeOK PackIntact WarnsUnlessDeclined ClaimNotLost
PROPERTY FlushTerminates
