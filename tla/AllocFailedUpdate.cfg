SPECIFICATION Spec
CONSTANTS
    m1 = m1
    m2 = m2
    m3 = m3
    i1 = i1
    i2 = i2
    Imsis = {m1, m2}
    Items = {i1, i2}
    Addrs = {a1, a2}
    Ids = {r1, r2, r3, r4}
    NoItem = NoItem
    NoId = NoId
    NoAddr = NoAddr
    ItemOf <- AllKnown
    Faults = {"sonar_write"}
    OneSession = TRUE
    MaxRows = 2
    MaxFaults = 1
    MaxChanges = 0
    MaxEdits = 0
SYMMETRY IdSymmetry
PROPERTIES FailedUpdateSkipsDeletes
