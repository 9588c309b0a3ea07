SPECIFICATION Spec
CONSTANTS
    RxCap = 2
    DqCap = 2
    MaxCalls = 2
    MaxEvents = 1
INVARIANTS
    ReplyIsForCommand
