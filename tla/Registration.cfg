SPECIFICATION FairSpec
CONSTANTS
    Calls = {c1, c2}
    Emails = {e1, e2, bad}
    Malformed = {bad}
    Suffixes = {s1, s2}
    Faults <- all_Faults
INVARIANT TypeOK
INVARIANT MissingIsExplained
INVARIANT OrphansHaveAReason
INVARIANT EmailIsOnePersons
INVARIANT DeletedStaysDeleted
PROPERTY RiderTaskSurvives
PROPERTY QueuedIsHandled
PROPERTY ImplementsReplication
