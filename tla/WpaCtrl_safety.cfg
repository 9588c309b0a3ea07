SPECIFICATION Spec
CONSTANTS
    RxCap = 2
    DqCap = 2
    MaxCalls = 3
    MaxEvents = 2
INVARIANTS
    TypeOK
    RepliesMatchUntilAbandoned
    AttachedIsMonitored
    NoEventVanishes
PROPERTIES
    RepliesConsumedOnce
    SyncLostOnlyByError
    PendingMeansEvent
    ImplementsEventStream
