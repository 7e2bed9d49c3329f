SPECIFICATION Spec
CONSTANTS
    t1 = t1
    t2 = t2
    Threads <- MCThreads
    MaxOpens = 3
    Modes <- AllModes
INVARIANTS
    NoUseAfterFree
    FilesAgree
    RegistryLive
    AllReleased
    BucketIntact
PROPERTIES
    OwnRegistrationFound
    OperationsReturn
CHECK_DEADLOCK FALSE
