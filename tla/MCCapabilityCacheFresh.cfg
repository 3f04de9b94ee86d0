SPECIFICATION Spec
CONSTANTS
    AppCalls = {c1, c2}
    MaxChanges = 2
    MaxAttempts = 2
CHECK_DEADLOCK FALSE
INVARIANT UpdateIsFetched
