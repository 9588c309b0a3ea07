SPECIFICATION LoopSpec
CONSTANTS
    RxCap = 2
    DqCap = 1
    MaxCalls = 2
    MaxEvents = 2
PROPERTIES
    EveryCallReturns
    EventsReachTheLoop
