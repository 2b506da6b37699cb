SPECIFICATION Spec
CONSTANTS
    a1 = a1
    a2 = a2
    b1 = b1
    alice = alice
    bob = bob
    Saves = {a1, a2, b1}
    Users = {alice, bob}
    UserOf <- MCUserOf
    NoJob = NoJob
    Leavers = {bob}
    Failing = {b1}
    Expiring = {b1}
    MaxReplays = 1
SYMMETRY Symmetry
INVARIANTS
    ReadyIsReadable
    
PROPERTIES
    ReservationSurvives
    ArtifactsOutliveOneSave
CHECK_DEADLOCK FALSE
