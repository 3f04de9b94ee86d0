SPECIFICATION FairSpec
CONSTANTS
    Requests = {r1, r2}
    Ids = {i1}
    Clients = {c1}
CHECK_DEADLOCK FALSE
INVARIANTS TypeOK CleanShutdownLosesNothing MutationsAreAuthorized AnswerTellsOutcome
PROPERTY ShutdownEnds
