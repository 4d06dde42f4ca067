SPECIFICATION Spec
CONSTANTS
    Disks = {0, 1}
    Kinds <- MCKinds
    Lbas <- MCLbas
    Contents = {x}
    Blank = x
    SuperLba = 0
    Junk = Junk
    NoBlock = NoBlock
    Faults = {"write", "program", "timeout"}
    x = x
    y = y
PROPERTIES
    SlotOwned
    CallsReturn
