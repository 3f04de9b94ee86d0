SPECIFICATION Spec
CONSTANTS
    Casts = {c1, c2}
    Elements = {e1}
    Items = 2
    CallbacksMayThrow = FALSE
CHECK_DEADLOCK FALSE
INVARIANT ScrollRestored
