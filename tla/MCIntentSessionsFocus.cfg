SPECIFICATION FairSpec
CONSTANTS
    Casts = {c1}
    Elements = {e1}
    Items = 2
    CallbacksMayThrow = FALSE
CHECK_DEADLOCK FALSE
PROPERTY FocusEnters
