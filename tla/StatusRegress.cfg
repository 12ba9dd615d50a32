SPECIFICATION Spec
CONSTANTS
    Orders = {o1}
    Subscribed <- status_Subscribed
    Bodies <- id_Bodies
    Faults <- no_Faults
    MaxEvents = 2
PROPERTY StatusNeverRegresses
CHECK_DEADLOCK FALSE
