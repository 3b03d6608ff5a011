SPECIFICATION FairSpec
CONSTANTS
    id = id
    mac = mac
    imsi = imsi
    id1 = id1
    mac1 = mac1
    imsi1 = imsi1
    id2 = id2
    mac2 = mac2
    imsi2 = imsi2
    Fields = {id, mac, imsi}
    Values = {id1, mac1, imsi1, id2, mac2, imsi2}
    SonarId = id
    Hardware = {mac, imsi}
    Mac = mac
    SonarIds = {id1, id2}
    Absent = Absent
    None = None
    Blank = Blank
    Devices <- MCDevices
    Inputs <- PartsAndOdd
    MaxAdds = 4
    MaxRekeys = 1
INVARIANTS TypeOK Disjoint LastFound Components
PROPERTIES AddEnds
