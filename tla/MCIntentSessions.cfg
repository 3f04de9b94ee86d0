SPECIFICATION FairSpec
CONSTANTS
    Casts = {c1, c2}
    Elements = {e1, e2}
    Items = 2
    CallbacksMayThrow = TRUE
CHECK_DEADLOCK FALSE
INVARIANTS TypeOK CallbackOnce NothingLeftBehind LockedWhileOpen
PROPERTIES TrapHolds FocusReturns CastsEnd
