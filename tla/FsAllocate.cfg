SPECIFICATION Spec
CONSTANTS
    Word = 8
    DataLba = 2
    MaxFiles = 2
INVARIANTS
    TypeOK
    FirstFit
    SectorsFree
PROPERTIES
    CandidateAscends
    Returns
CHECK_DEADLOCK FALSE
