CONSTANTS
  Keys = {big}
  Small = {}
  Large = {big}
  Listable = {big}
  Packable = {}
  Requests = {r1, r2}
  Concurrency = 1
  PackLimit = 1
  HaveGha = TRUE
  DiskMayFail = FALSE
SPECIFICATION Spec
INVARIANTS LocalCopyReadable
