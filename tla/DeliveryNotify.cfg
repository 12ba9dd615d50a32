SPECIFICATION FairSpec
CONSTANTS
    Orders = {o1}
    Reports = {r1}
    Bodies <- event_Bodies
    Faults <- no_Faults
PROPERTY ReadableIsNotified
CHECK_DEADLOCK FALSE
