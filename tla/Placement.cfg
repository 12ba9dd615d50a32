SPECIFICATION FairSpec
CONSTANTS
    Calls = {c1, c2}
    Requests = {r1, r2}
    Codes = {save20}
    NoCoupon = NoCoupon
    Faults <- all_Faults
    Hours <- const_Hours
    MaxStock = 2
    MaxTime = 1
INVARIANT TypeOK
INVARIANT OneOrderPerRequest
INVARIANT AnnouncedIsStored
INVARIANT BooksBalance
INVARIANT FailedLeavesNoOrder
INVARIANT OneOkPerRequest
PROPERTY ImplementsLifecycle
PROPERTY CallsFinish
