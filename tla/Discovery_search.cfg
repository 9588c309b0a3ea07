SPECIFICATION Spec
CONSTANTS
    Names = {n1, n2}
    Refusal = refusal
INVARIANTS
    TypeOK
    Complete
    NoLeftovers
CHECK_DEADLOCK FALSE
