SPECIFICATION Spec
CONSTANTS
    Orders = {o1}
    Reports = {r1, r2}
    Bodies <- event_Bodies
    Faults <- no_Faults
INVARIANT OneRiderAccepts
CHECK_DEADLOCK FALSE
