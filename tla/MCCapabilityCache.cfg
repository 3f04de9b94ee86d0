SPECIFICATION FairSpec
CONSTANTS
    AppCalls = {c1}
    MaxChanges = 2
    MaxAttempts = 2
CHECK_DEADLOCK FALSE
INVARIANTS TypeOK OneConnection NothingAfterDestroy
PROPERTIES ListNeverGoesBack DestroySettlesCalls
