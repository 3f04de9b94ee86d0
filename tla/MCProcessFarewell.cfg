SPECIFICATION Spec
CONSTANTS
    Requests = {r1}
    Ids = {i1}
    Clients = {c1, c2}
CHECK_DEADLOCK FALSE
INVARIANT EveryoneIsTold
