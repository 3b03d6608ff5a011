CONSTANTS
    t = t  m = m  b = b  c = c
    a1 = a1  a2 = a2  a3 = a3  a4 = a4
    Devices = {t, m, b, c}
    Kind <- KindOf
    GdmBanner = {m}
    Addresses = {a1, a2, a3, a4}
    Holder <- HolderOf
    Known <- WholeOrApart
    Absent = Absent
    None = None
    MaxFaults = 2
SPECIFICATION Spec
INVARIANTS OwnValues OthersUnharmed
PROPERTIES ForgottenOnlyIfUnread
\* The script goes on elsewhere when the devices have been read.
CHECK_DEADLOCK FALSE
