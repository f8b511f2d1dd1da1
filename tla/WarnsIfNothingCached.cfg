CONSTANTS
  Keys = {big, tiny}
  Small = {tiny}
  Large = {big}
  Listable = {big}
  Packable = {tiny}
  Requests = {r1, r2}
  Concurrency = 1
  PackLimit = 1
  HaveGha = TRUE
  DiskMayFail = FALSE
SPECIFICATION Spec
INVARIANTS WarnsIfNothingCached
