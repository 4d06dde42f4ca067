SPECIFICATION Spec
CONSTANTS
    Computers <- MCAllComputers
    Bare <- MCBare
    Channels = {"primary", "secondary", "n1"}
    Primary = "primary"
    Secondary = "secondary"
    NumFunctions = 3
    MaxDisks = 4
    MaxContexts = 3
    Word = 8
    Lba28Max = 4
    blank = blank
    a = a
    b = b
    VGA_WIDTH = 2
    VGA_HEIGHT = 2
    TabWidth = 2
    Letters = {blank, a, b}
    Space = blank
    Scancodes = {"ka"}
    Normal <- MCNormal
    Shifted <- MCShifted
    Capacities = {0, 1, 6}
    MaxWritten = 2
    ArenaBytes = 6
    Scratch = 2
    Digits = {1, 2}
    MaxFresh = 10
    MaxHeld = 2
INVARIANTS TypeOK DisksApart EchoMatches StringsLast
PROPERTY ScanComplete
CHECK_DEADLOCK FALSE
