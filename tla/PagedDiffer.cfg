SPECIFICATION FairSpec
CONSTANTS
    PerPage = 2
    MaxRows = 4
    MaxInserts = 1
    MaxRemoves = 1
    MaxFails = 0
    MaxPage = 5
PROPERTIES AlwaysEnds
