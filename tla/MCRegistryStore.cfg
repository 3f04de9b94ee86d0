SPECIFICATION FairSpec
CONSTANTS
    Ids = {a, b}
    Procs = {p, q}
    m1 = m1
    u1 = u1
    Manifests = {m1}
    Raw = {u1, m1, bad}
    Canon <- MCCanon
    MaxCrashes = 1
    DirSyncMayFail = FALSE
    Absent = Absent
    Invalid = Invalid
    NoFile = NoFile
    Torn = Torn
    Free = Free
INVARIANTS TypeOK MemoryIsTheFile EverySurvivorLoads AckedIsDurable NoTempLeft
PROPERTIES NoDirtyRead ImplementsContract EveryMutationReturns
