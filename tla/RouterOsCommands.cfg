SPECIFICATION FairSpec
CONSTANTS
    None = None
    MaxConns = 2
    MaxSends = 2
    MaxRows = 2
    MaxFaults = 2
INVARIANTS TypeOK OwnAnswers NoCollateral OneSocket
PROPERTIES ReadsEnd
