CONSTANTS
  build1 = build1
  linux1 = linux1
  build2 = build2
  k1 = k1
  k2 = k2
  t1 = t1
  t2 = t2
  JobIds = {build1, linux1, build2}
  Scope <- MCScope
  Fetches <- MCFetches
  Large = {k1, k2}
  Small = {t1, t2}
  PackLimit = 1
  MaxActive = 2
SPECIFICATION Spec
INVARIANTS TypeOK ListedIsHeld 
