CONSTANTS
  Keys = {b1, b2}
  Small = {}
  Large = {b1, b2}
  Listable = {b1, b2}
  Packable = {}
  Requests = {r1, r2}
  Concurrency = 1
  PackLimit = 1
  HaveGha = TRUE
  DiskMayFail = FALSE
SPECIFICATION Spec
INVARIANTS UploadedOnce FlushDrains PermitsConserved ManifestComplete ManifestBacked
PROPERTY ImplementsDrain
SYMMETRY FullSymmetry
