SPECIFICATION Spec
CONSTANTS
    root = root
    lib = lib
    util = util
    dir = dir
    nowhere = nowhere
    Files <- MCFiles
    Dirs <- MCDirs
    Nowhere = nowhere
    Root = root
    Trees <- MCTrees
    Inputs <- MCInputs
    Answers <- MCAnswers
    MaxAnswers = 5
    MaxPasses = 4
    MaxLoops = 2
    Width = 4
    Fuel = 20
INVARIANTS TypeOK OnceEach CyclesRejected IncludedBefore ParsedBack InferenceSettles HandedOver BlocksAccepted ValuesAccepted TypesAccepted RunsAsWritten EndUnreachable
PROPERTY Progress
CHECK_DEADLOCK FALSE
