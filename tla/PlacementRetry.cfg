SPECIFICATION Spec
CONSTANTS
    Calls = {c1, c2}
    Requests = {r1}
    Codes = {save20}
    NoCoupon = NoCoupon
    Faults <- no_Faults
    Hours <- const_Hours
    MaxStock = 2
    MaxTime = 0
INVARIANT OneCouponPerRequest
