CONSTANTS
    NULL = NULL  Undone = Undone  Unset = Unset  alice = alice  bob = bob
    A = A  B = B  a = a  b = b
    Word = 16
    Pools <- MCPools
    AssetTables <- MCAssetTables
    States <- MCStates
    Gone = {2}
SPECIFICATION MCFairSpec
INVARIANTS
    VolumesAddUp
    FiguresWereTrue
PROPERTIES
    RequestsAreAnswered
    EveryPoolRefreshed
