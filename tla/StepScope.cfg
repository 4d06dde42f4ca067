SPECIFICATION Spec
CONSTANTS
    root = root
    lib = lib
    util = util
    dir = dir
    nowhere = nowhere
    Files <- MCFiles
    Dirs <- MCDirs
    Nowhere = nowhere
    Root = root
    Trees <- MCTrees
    Inputs <- MCInputs
    Answers <- MCAnswers
    MaxAnswers = 5
    MaxPasses = 4
    MaxLoops = 2
    Width = 4
    Fuel = 20
CHECK_DEADLOCK FALSE
INVARIANT VisibleOnly
