SPECIFICATION Spec
CONSTANTS
    Disks = {0, 1}
    Kinds <- MCKinds
    Lbas <- MCLbas
    Contents = {x, y}
    Blank = x
    SuperLba = 0
    Junk = Junk
    NoBlock = NoBlock
    Faults = {"program"}
    x = x
    y = y
PROPERTY WritesDurable
