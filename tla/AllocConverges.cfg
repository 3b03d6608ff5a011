SPECIFICATION FairSpec
CONSTANTS
    m1 = m1
    m2 = m2
    m3 = m3
    i1 = i1
    i2 = i2
    Imsis = {m1, m2}
    Items = {i1, i2}
    Addrs = {a1, a2}
    Ids = {r1, r2, r3, r4, r5}
    NoItem = NoItem
    NoId = NoId
    NoAddr = NoAddr
    ItemOf <- AllKnown
    Faults = {"sonar_get", "sonar_write", "raemis_get", "raemis_bad"}
    OneSession = TRUE
    MaxRows = 0
    MaxFaults = 1
    MaxChanges = 1
    MaxEdits = 1
PROPERTIES Converges Stops
