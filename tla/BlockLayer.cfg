SPECIFICATION Spec
CONSTANTS
    Disks = {0, 1}
    Kinds <- MCKinds
    Lbas <- MCLbas
    Contents = {x, y}
    Blank = x
    SuperLba = 0
    Junk = Junk
    NoBlock = NoBlock
    Faults = {"read", "write", "flush"}
    x = x
    y = y
INVARIANT TypeOK
PROPERTIES
    SectorApi
    WritesDurable
    ReadsCurrent
