--------------------------- MODULE RegistryStore ---------------------------
(***************************************************************************)
(* internal/registry: the Store of store.go (a map under a sync.RWMutex)   *)
(* with the persistence of persist.go (a temporary file, fsync, rename,    *)
(* fsync of the directory), run by concurrent request goroutines, with     *)
(* failing system calls and power loss at any step.                        *)
(***************************************************************************)
EXTENDS Naturals, FiniteSets

CONSTANTS
    Ids,            \* application ids
    Manifests,      \* validated (canonical) manifest contents
    Raw,            \* manifest contents as a caller may pass them
    Canon,          \* Canon[m]: what Validate makes of m, or Invalid
    Procs,          \* goroutines that call the Store
    MaxCrashes,     \* bound: how many power losses a behaviour has
    DirSyncMayFail, \* may the fsync of the parent directory fail?
    Absent, Invalid, NoFile, Torn, Free   \* values outside the sets above

ASSUME ManifestsAssumption ==
    /\ Manifests \subseteq Raw
    /\ Absent \notin Raw /\ Invalid \notin Raw
ASSUME CanonAssumption ==      \* Validate is idempotent
    /\ Canon \in [Raw -> Manifests \cup {Invalid}]
    /\ \A m \in Manifests : Canon[m] = m
ASSUME BoundAssumption == MaxCrashes \in Nat /\ DirSyncMayFail \in BOOLEAN
ASSUME ValuesAssumption ==
    /\ Free \notin Procs
    /\ NoFile # Torn
    /\ {NoFile, Torn} \cap [Ids -> Manifests \cup {Absent}] = {}

VARIABLES
    manifests,      \* Store.manifests; Absent where the map has no key
    prev,           \* the prev/existed snapshot of the goroutine in the lock
    file,           \* registry.json as the running system sees it
    survivors,      \* what registry.json may be after a power loss
    tmp,            \* the temporary file of persistLocked
    writer,         \* who holds mu in write mode
    pc,             \* how far each goroutine's mutation got
    req,            \* what the mutation sets, Absent for a Delete
    answer,         \* what the latest mutation returned
    view,           \* what the latest read returned
    status,         \* "up", "down", "failed" (NewStore refused the file)
    crashes

mem  == <<manifests, prev, writer>>
disk == <<file, survivors, tmp>>
caller == <<pc, req, answer>>
run  == <<status, crashes>>
vars == <<mem, disk, caller, view, run>>
-----------------------------------------------------------------------------
Registry == [Ids -> Manifests \cup {Absent}]
NoManifests == [i \in Ids |-> Absent]

\* A file is its content and whether an fsync covers it.
Contents == Registry \cup {NoFile, Torn}
Files == [data : Contents, synced : BOOLEAN]
Missing == [data |-> NoFile, synced |-> TRUE]

\* An unsynced file may come back truncated after a power loss.
Survives(f) == IF f.synced THEN {f.data} ELSE {f.data, Torn}

\* What loadFromFile and NewStore read: every manifest is validated again.
Loads(d) == /\ d # Torn
            /\ d # NoFile => \A i \in Ids : d[i] # Absent => Canon[d[i]] # Invalid
Loaded(d) == IF d = NoFile THEN NoManifests
             ELSE [i \in Ids |-> IF d[i] = Absent THEN Absent ELSE Canon[d[i]]]

InLock == {"mutated", "created", "encoded", "synced", "closed", "renamed",
           "failed"}
BeforeRename == InLock \ {"renamed"}

TypeOK ==
    /\ manifests \in Registry
    /\ prev \in Manifests \cup {Absent}
    /\ file \in Files /\ tmp \in Files
    /\ survivors \in SUBSET Contents
    /\ writer \in Procs \cup {Free}
    /\ pc \in [Procs -> {"idle", "waiting"} \cup InLock]
    /\ req \in [Procs -> [id : Ids, body : Manifests \cup {Absent}]]
    /\ answer \in [Procs -> {"none", "ok", "notfound", "unchanged", "invalid"}]
    /\ view \in UNION {[S -> Manifests \cup {Absent}] : S \in SUBSET Ids}
    /\ status \in {"up", "down", "failed"}
    /\ crashes \in 0..MaxCrashes

Init ==
    /\ manifests = NoManifests /\ prev = Absent /\ writer = Free
    /\ file = Missing /\ survivors = {NoFile} /\ tmp = Missing
    /\ pc = [p \in Procs |-> "idle"]
    /\ \E i \in Ids : req = [p \in Procs |-> [id |-> i, body |-> Absent]]
    /\ answer = [p \in Procs |-> "none"]
    /\ view = NoManifests
    /\ status = "up" /\ crashes = 0
-----------------------------------------------------------------------------
\* p goes from one step of a mutation to the next.
Goto(p, from, to) ==
    /\ status = "up" /\ pc[p] = from
    /\ pc' = [pc EXCEPT ![p] = to]

Return(p, from, a) ==
    /\ Goto(p, from, "idle")
    /\ answer' = [answer EXCEPT ![p] = a]

\* (Mutants.  Definitions named ...Mutant are faulty forms of the definition
\* that follows them; no run's specification uses them.)
UpsertMutant(p, i, m) ==      \* the error of Validate is dropped
    /\ Goto(p, "idle", "waiting")
    /\ req' = [req EXCEPT ![p] = [id |-> i, body |-> m]]
    /\ answer' = [answer EXCEPT ![p] = "none"]
    /\ UNCHANGED <<mem, disk, view, run>>

\* Upsert validates before it takes the lock.
Upsert(p, i, m) ==
    /\ Canon[m] # Invalid
    /\ Goto(p, "idle", "waiting")
    /\ req' = [req EXCEPT ![p] = [id |-> i, body |-> Canon[m]]]
    /\ answer' = [answer EXCEPT ![p] = "none"]
    /\ UNCHANGED <<mem, disk, view, run>>

UpsertInvalid(p, m) ==
    /\ Canon[m] = Invalid
    /\ Return(p, "idle", "invalid")
    /\ UNCHANGED <<mem, disk, req, view, run>>

Delete(p, i) ==
    /\ Goto(p, "idle", "waiting")
    /\ req' = [req EXCEPT ![p] = [id |-> i, body |-> Absent]]
    /\ answer' = [answer EXCEPT ![p] = "none"]
    /\ UNCHANGED <<mem, disk, view, run>>

Deletes(p) == req[p].body = Absent
Missed(p) == manifests[req[p].id] = Absent

LockAndMutateMutant(p) ==      \* no mutual exclusion
    /\ ~(Deletes(p) /\ Missed(p))
    /\ Goto(p, "waiting", "mutated")
    /\ writer' = p
    /\ prev' = manifests[req[p].id]
    /\ manifests' = [manifests EXCEPT ![req[p].id] = req[p].body]
    /\ UNCHANGED <<disk, req, answer, view, run>>

\* mu.Lock() and the change of the map, prev and existed kept aside.
LockAndMutate(p) ==
    /\ ~(Deletes(p) /\ Missed(p))
    /\ writer = Free
    /\ Goto(p, "waiting", "mutated")
    /\ writer' = p
    /\ prev' = manifests[req[p].id]
    /\ manifests' = [manifests EXCEPT ![req[p].id] = req[p].body]
    /\ UNCHANGED <<disk, req, answer, view, run>>

\* Delete of an unknown id: lock, look, unlock, no disk write.
DeleteMissing(p) ==
    /\ Deletes(p) /\ Missed(p)
    /\ writer = Free
    /\ Return(p, "waiting", "notfound")
    /\ UNCHANGED <<mem, disk, req, view, run>>
-----------------------------------------------------------------------------
\* The steps of persistLocked.
CreateTemp(p) ==
    /\ Goto(p, "mutated", "created")
    /\ tmp' = [data |-> Torn, synced |-> FALSE]
    /\ UNCHANGED <<mem, file, survivors, req, answer, view, run>>

EncodeMutant(p) ==      \* the snapshot is taken before the mutation
    /\ Goto(p, "created", "encoded")
    /\ tmp' = [data |-> [manifests EXCEPT ![req[p].id] = prev], synced |-> FALSE]
    /\ UNCHANGED <<mem, file, survivors, req, answer, view, run>>

Encode(p) ==
    /\ Goto(p, "created", "encoded")
    /\ tmp' = [data |-> manifests, synced |-> FALSE]
    /\ UNCHANGED <<mem, file, survivors, req, answer, view, run>>

SyncTempMutant(p) ==      \* tmp.Sync() is left out
    /\ Goto(p, "encoded", "synced")
    /\ UNCHANGED <<mem, disk, req, answer, view, run>>

SyncTemp(p) ==
    /\ Goto(p, "encoded", "synced")
    /\ tmp' = [tmp EXCEPT !.synced = TRUE]
    /\ UNCHANGED <<mem, file, survivors, req, answer, view, run>>

CloseTemp(p) ==
    /\ Goto(p, "synced", "closed")
    /\ UNCHANGED <<mem, disk, req, answer, view, run>>

\* The rename is atomic, but until the directory is synced a power loss may
\* still bring back any earlier file.
Rename(p) ==
    /\ Goto(p, "closed", "renamed")
    /\ file' = tmp
    /\ survivors' = survivors \cup Survives(tmp)
    /\ tmp' = Missing
    /\ UNCHANGED <<mem, req, answer, view, run>>

SyncDirAndReturnMutant(p) ==      \* the directory is not synced
    /\ Return(p, "renamed", "ok")
    /\ writer' = Free
    /\ UNCHANGED <<manifests, prev, disk, req, view, run>>

\* The last step, and the return of Upsert or Delete with the lock released.
\* The error of the directory's open or Sync is dropped.
SyncDirAndReturn(p) ==
    /\ Return(p, "renamed", "ok")
    /\ writer' = Free
    /\ \/ survivors' = Survives(file)
       \/ DirSyncMayFail /\ UNCHANGED survivors
    /\ UNCHANGED <<manifests, prev, file, tmp, req, view, run>>

PersistFailsMutant(p) ==      \* the temporary file is not removed
    /\ \E s \in {"mutated", "created", "encoded", "synced", "closed"} :
         Goto(p, s, "failed")
    /\ UNCHANGED <<mem, disk, req, answer, view, run>>

\* Any other system call fails: the deferred Remove clears the temporary file.
PersistFails(p) ==
    /\ \E s \in {"mutated", "created", "encoded", "synced", "closed"} :
         Goto(p, s, "failed")
    /\ tmp' = Missing
    /\ UNCHANGED <<mem, file, survivors, req, answer, view, run>>

RollbackMutant(p) ==      \* the map keeps the change
    /\ Return(p, "failed", "unchanged")
    /\ writer' = Free
    /\ UNCHANGED <<manifests, prev, disk, req, view, run>>

RollbackLockedMutant(p) ==      \* the error return keeps the lock
    /\ Return(p, "failed", "unchanged")
    /\ manifests' = [manifests EXCEPT ![req[p].id] = prev]
    /\ UNCHANGED <<prev, writer, disk, req, view, run>>

\* The rollback of the map, and the error return with the lock released.
Rollback(p) ==
    /\ Return(p, "failed", "unchanged")
    /\ writer' = Free
    /\ manifests' = [manifests EXCEPT ![req[p].id] = prev]
    /\ UNCHANGED <<prev, disk, req, view, run>>
-----------------------------------------------------------------------------
ReadMutant(S) ==      \* no read lock
    /\ status = "up"
    /\ view' = [i \in S |-> manifests[i]]
    /\ UNCHANGED <<mem, disk, caller, run>>

\* Get (one id), List and Capabilities (all ids), under the read lock.
Read(S) ==
    /\ status = "up" /\ writer = Free
    /\ view' = [i \in S |-> manifests[i]]
    /\ UNCHANGED <<mem, disk, caller, run>>

\* Power loss: memory is gone, one of the survivors is the file.  A temporary
\* file may stay in the directory, but no later one has its name and NewStore
\* does not look at it: to the Store it is gone.
Crash ==
    /\ status = "up" /\ crashes < MaxCrashes
    /\ \E d \in survivors :
         /\ file' = [data |-> d, synced |-> TRUE]
         /\ survivors' = {d}
    /\ tmp' = Missing
    /\ manifests' = NoManifests /\ prev' = Absent /\ writer' = Free
    /\ pc' = [p \in Procs |-> "idle"]
    /\ answer' = [p \in Procs |-> "none"]
    /\ status' = "down" /\ crashes' = crashes + 1
    /\ UNCHANGED <<req, view>>

\* NewStore: a file that does not load is fatal.
NewStore ==
    /\ status = "down"
    /\ status' = IF Loads(file.data) THEN "up" ELSE "failed"
    /\ manifests' = IF Loads(file.data) THEN Loaded(file.data) ELSE manifests
    /\ UNCHANGED <<prev, writer, disk, caller, view, crashes>>

Mutation(p) == LockAndMutate(p) \/ DeleteMissing(p)
Step(p) ==
    \/ CreateTemp(p) \/ Encode(p) \/ SyncTemp(p) \/ CloseTemp(p)
    \/ Rename(p) \/ SyncDirAndReturn(p) \/ PersistFails(p) \/ Rollback(p)

Next ==
    \/ \E p \in Procs :
         \/ \E i \in Ids, m \in Raw : Upsert(p, i, m)
         \/ \E m \in Raw : UpsertInvalid(p, m)
         \/ \E i \in Ids : Delete(p, i)
         \/ Mutation(p) \/ Step(p)
    \/ Read(Ids) \/ \E i \in Ids : Read({i})
    \/ Crash \/ NewStore

Spec == Init /\ [][Next]_vars

\* A goroutine in the lock is scheduled; sync.RWMutex starves no writer.
FairSpec == Spec /\ \A p \in Procs : WF_vars(Step(p)) /\ SF_vars(Mutation(p))
-----------------------------------------------------------------------------
(* Correctness.                                                            *)

\* Whenever no mutation holds the lock, memory is what the file would load
\* to: a failed persist was rolled back, a persisted one was kept.
MemoryIsTheFile ==
    status = "up" /\ writer = Free =>
        Loads(file.data) /\ manifests = Loaded(file.data)

\* Whatever file a power loss leaves, the server starts from it
\* (temp file synced before the rename, only canonical manifests written).
EverySurvivorLoads == \A d \in survivors : Loads(d)

\* Outside a mutation a power loss loses nothing: only the current file can
\* be there afterwards, so every mutation answered "ok" is durable
\* (persist.go:84, "durable across crash"; store.go:11).
AckedIsDurable == status = "up" /\ writer = Free => survivors = {file.data}

\* No temporary file outlives the mutation that made it, whichever step failed
\* (persist.go:91, the deferred Remove), as long as the process lives.
NoTempLeft == status = "up" /\ writer = Free => tmp = Missing

\* A reader is never shown a manifest that a power loss could still take
\* back, nor one that a rollback will undo.
NoDirtyRead ==
    [][view' # view =>
        \A d \in survivors : \A i \in DOMAIN view' : view'[i] = Loaded(d)[i]]_vars

\* Every mutation returns, whatever fails and whoever else is writing.
EveryMutationReturns == \A p \in Procs : pc[p] # "idle" ~> pc[p] = "idle"
-----------------------------------------------------------------------------
(* The registry the callers see: the change of a mutation counts once its  *)
(* rename is done.                                                         *)
Committed ==
    IF status # "up" THEN Loaded(file.data)
    ELSE IF writer # Free /\ pc[writer] \in BeforeRename
    THEN [manifests EXCEPT ![req[writer].id] = prev]
    ELSE manifests

CallOf(p) ==
    [phase  |-> IF pc[p] = "idle" THEN "idle"
                ELSE IF pc[p] = "renamed" THEN "done" ELSE "asked",
     id     |-> req[p].id,
     body   |-> req[p].body,
     answer |-> answer[p]]

Contract == INSTANCE RegistryContract WITH
    SyncMayFail <- DirSyncMayFail,
    reg         <- Committed,
    survivors   <- {Loaded(d) : d \in survivors},
    call        <- [p \in Procs |-> CallOf(p)],
    up          <- status = "up"

\* The Store implements the contract: its mutations are linearizable at the
\* rename, failed ones are invisible, reads see one committed registry.
ImplementsContract == Contract!CSpec
=============================================================================
