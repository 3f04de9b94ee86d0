SPECIFICATION Spec
CONSTANTS
    Ids = {a}
    Manifests = {m1, m2}
    Absent = Absent
    Handlers = {h1, h2}
    Clients = {c1}
    MaxRequests = 3
CHECK_DEADLOCK FALSE
INVARIANT SnapshotThenEvents
