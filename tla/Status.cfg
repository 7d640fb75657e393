CONSTANTS
    p1 = p1  p2 = p2  b1 = b1
    Pipelines = {p1, p2, b1}
    Batches <- OneEach
    Backfill = {b1}
    NoPipeline = NoPipeline
    Second = 2
    Params <- Thresholds
    MaxCheckpoints = 2
    MaxClock = 2
SYMMETRY LivePermutations
SPECIFICATION Spec
CHECK_DEADLOCK FALSE
INVARIANTS
    OKMeansFresh
    AnswersAreSound
