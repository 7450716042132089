SPECIFICATION FairSpec
CONSTANTS
    None = None  child = child  d1 = d1  d2 = d2
    Member = {child, d1, d2}
    Child = child
    Deaf <- AllDeaf
    Shy <- OneShy
    Input = 2
    PipeSize = 1
    Output = 3
    OutputLimit = 2
    Ticked = TRUE
CHECK_DEADLOCK FALSE
INVARIANTS OutputIsWhole VerdictIsTrue
PROPERTIES NoSignalAfterReap SupervisionEnds
