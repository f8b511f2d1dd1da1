SPECIFICATION Spec
CONSTANTS
    t1 = t1
    t2 = t2
    Tasks = {t1, t2}
    MaxRecords = 3
    MaxSummaries = 1
SYMMETRY TaskSymmetry
INVARIANTS CountersAgree SummaryAccounts
