SPECIFICATION Spec
CONSTANTS
    NumDisks = 1
    DiskSectors <- TightDisk
    MaxFiles = 3
    EntriesPerSector = 2
    DirSectors = 2
    SectorSize = 4
    ReadCapacity = 8
    a = a
    b = b
    bad = bad
    Empty = Empty
    Short = Short
    Long = Long
    Huge = Huge
    FileNames = {a}
    DirNames = {a}
    ValidNames = {a, b}
    NoName = NoName
    Contents = {Short}
    SizeOf <- MCSizeOf
    NoContent = NoContent
    Junk = Junk
    Faults = {"write"}
PROPERTY CreatedInDirectory
