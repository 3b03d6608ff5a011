SPECIFICATION FairSpec
CONSTANTS
    PerPage = 2
    MaxRows = 6
    MaxInserts = 2
    MaxRemoves = 3
    MaxFails = 2
    MaxPage = 6
INVARIANTS TypeOK NoRowTwice FewMissing
PROPERTIES EndsWhenPagesSettle
