SPECIFICATION Spec
CONSTANTS
    NumDisks = 2
    DiskSectors <- TwoDisks
    MaxFiles = 2
    EntriesPerSector = 1
    DirSectors = 2
    SectorSize = 4
    ReadCapacity = 8
    a = a
    b = b
    bad = bad
    Empty = Empty
    Short = Short
    Long = Long
    Huge = Huge
    FileNames = {a, bad}
    DirNames = {a}
    ValidNames = {a}
    NoName = NoName
    Contents = {Long, Huge}
    SizeOf <- MCSizeOf
    NoContent = NoContent
    Junk = Junk
    Faults = {"write", "crash"}
INVARIANTS TypeOK NamesUnique
PROPERTIES StoreImplemented CallsAsPromised CallsReturn
