SPECIFICATION Spec
CONSTANTS
    Calls = {c1}
    Requests = {r1}
    Codes = {save20}
    NoCoupon = NoCoupon
    Faults <- cancel_Faults
    Hours <- const_Hours
    MaxStock = 0
    MaxTime = 0
PROPERTY CleanupDeletes
