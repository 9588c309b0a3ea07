SPECIFICATION Spec
CONSTANTS
    Names = {n1, n2}
    Refusal = refusal
INVARIANTS
    FoundCanBeReached
CHECK_DEADLOCK FALSE
