SPECIFICATION Spec
CONSTANTS
    Orders = {o1, o2}
    Reports = {r1, r2}
    Bodies <- event_Bodies
    Faults <- all_Faults
INVARIANT TypeOK
INVARIANT EventsFollowStatus
INVARIANT SilenceHasAReason
PROPERTY OnlyStaleReportsRegress
PROPERTY NeverPendingAgain
