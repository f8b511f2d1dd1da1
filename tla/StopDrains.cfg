CONSTANTS
  Daemons = {d1, d2}
  MayBeLate = FALSE
  DiskMayFail = FALSE
SPECIFICATION Spec
INVARIANT StopDrains
