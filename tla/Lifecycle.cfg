CONSTANTS
  Daemons = {d1, d2}
  MayBeLate = TRUE
  DiskMayFail = TRUE
SPECIFICATION FairSpec
INVARIANTS TypeOK EnvironmentReady SummaryIsFinal NoneForgotten TrustsItsDaemon CurlrcRecoverable
PROPERTY StepsEndOrWait
