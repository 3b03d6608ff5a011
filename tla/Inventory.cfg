SPECIFICATION Spec
CONSTANTS
    d1 = d1
    d2 = d2
    d3 = d3
    d4 = d4
    n1 = n1
    n2 = n2
    n3 = n3
    n4 = n4
    long = long
    Devices = {d1, d2, d3, d4}
    Reader <- OfEachKind
    Attached = {d1, d2, d3}
    Garbled <- Unparsable
    Names = {n1, n2, n3, n4, long}
    Raemis <- OneEach
    Torn <- Between
    Accounts <- Customers
    Contains <- ContainsWords
    Absent = Absent
    None = None
    Empty = Empty
    Known <- EmptyOrOne
    MaxRecords = 4
    MaxFaults = 1
INVARIANTS TypeOK OneDeviceEach FewDuplicates FoundAreCreated NamesakesAreLinked
PROPERTIES RecordsStayTheirs MatchedByExactName LinkedByExactName
