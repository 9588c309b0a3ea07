SPECIFICATION CallersSpec
CONSTANTS
    Entries = {1, 2, 3}
    Places = {1, 2, 3, 4}
    MaxNetwork = 4
    PageSize = 2
    MaxId = 1
    MaxCalls = 3
INVARIANTS
    TypeOK
    Complete
    PagingTypeOK
    EveryNetwork
    EveryPageBringsNew
    SessionTypeOK
    HoldsItsOwn
    HeldExist
PROPERTIES
    Forward
    EntriesTerminate
    UpwardOnce
    TellsTheTruth
CHECK_DEADLOCK FALSE
