SPECIFICATION Spec
CONSTANTS
    m1 = m1
    m2 = m2
    m3 = m3
    i1 = i1
    i2 = i2
    Imsis = {m1, m2, m3}
    Items = {i1, i2}
    Addrs = {a1, a2}
    Ids = {r1, r2, r3, r4, r5}
    NoItem = NoItem
    NoId = NoId
    NoAddr = NoAddr
    ItemOf <- OneWithoutId
    Faults = {"raemis_get", "raemis_bad"}
    OneSession = TRUE
    MaxRows = 3
    MaxFaults = 1
    MaxChanges = 1
    MaxEdits = 0
SYMMETRY IdSymmetry
INVARIANTS TypeOK PassExact PassInv
PROPERTIES QuietWhenExact ImplementsArbiter DeleteKeepsReported
