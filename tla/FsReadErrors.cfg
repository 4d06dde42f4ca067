SPECIFICATION Spec
CONSTANTS
    NumDisks = 2
    DiskSectors <- UnevenDisks
    MaxFiles = 3
    EntriesPerSector = 2
    DirSectors = 2
    SectorSize = 4
    ReadCapacity = 8
    a = a
    b = b
    bad = bad
    Empty = Empty
    Short = Short
    Long = Long
    Huge = Huge
    FileNames = {a, bad}
    DirNames = {a, b}
    ValidNames = {a, b}
    NoName = NoName
    Contents = {Empty, Short, Long}
    SizeOf <- MCSizeOf
    NoContent = NoContent
    Junk = Junk
    Faults = {"read", "write", "crash"}
INVARIANTS ExtentsDisjoint
    PathsResolve
PROPERTIES
    BystandersSafe
    CommittedReadable
    NewDirEmpty
