CONSTANTS
    NULL = NULL  Undone = Undone  alice = alice  bob = bob  x = x  y = y
    k1 = k1  good = good  wrong = wrong  Empty = Empty  A = A  B = B  a = a  b = b
    Word = 8
    Orders <- MCOrders
    Owner <- MCOwner
    Quantity <- MCQuantity
    OrderQueries <- MCOrderQueries
    MaxTime = 2
    MaxRows = 3
    Endpoints <- AllEndpoints
    Second = 2
    Rows <- MCRows
    Decoy <- MCDecoy
    Values = {x}
    Limits = {2}
    Clients = {1, 2}
    RawTokens = {good, Empty}
    Requests <- MCRequests
    Keys = {k1}
    Burst = 2
    MaxRequests = 4
SPECIFICATION Spec
CHECK_DEADLOCK FALSE
INVARIANTS
    OrdersLookAsTheyAre
    PagesServeWhatIsAsked
    AnswersAccountForRows
    TokensDecide
    
