SPECIFICATION FairSpec
CONSTANTS
    Orders = {o1}
    Subscribed <- const_Subscribed
    Bodies <- all_Bodies
    Faults <- all_Faults
    MaxEvents = 2
INVARIANT TypeOK
INVARIANT StatusIsAnnounced
INVARIANT AtMostOnce
PROPERTY StaleWriteNeedsARace
PROPERTY ReceivedIsTaken
PROPERTY ImplementsBoard
