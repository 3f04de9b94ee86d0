SPECIFICATION FairSpec
CONSTANTS
    Subs = {s1}
    MessageBuffer = 2
    MaxMsgs = 5
CHECK_DEADLOCK FALSE
INVARIANTS TypeOK InOrder NoSilentGap ClosedForCause
PROPERTIES DeadAreRemoved ImplementsContract
