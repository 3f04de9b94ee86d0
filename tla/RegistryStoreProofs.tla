------------------------ MODULE RegistryStoreProofs ------------------------
(***************************************************************************)
(* Proofs about RegistryStore, for every set of ids, manifests and         *)
(* goroutines, any number of power losses and both outcomes of the fsync   *)
(* of the directory.                                                       *)
(***************************************************************************)
EXTENDS RegistryStore, TLAPS

\* Who is in the lock is who stands at one of its steps.
LockInv ==
    /\ \A p \in Procs : pc[p] \in InLock <=> writer = p
    /\ status # "up" => writer = Free

\* registry.json, now or after a power loss, is never half written.
FileInv ==
    /\ file.synced /\ file.data # Torn
    /\ Torn \notin survivors /\ file.data \in survivors

\* What the temporary file holds at each step of persistLocked.
TempInv ==
    /\ writer = Free => tmp = Missing
    /\ \A p \in Procs :
         /\ pc[p] \in {"mutated", "renamed", "failed"} => tmp = Missing
         /\ pc[p] \in {"encoded", "synced", "closed"} => tmp.data = manifests
         /\ pc[p] \in {"synced", "closed"} => tmp.synced

\* The file is the committed registry, whoever is in the lock.
CommittedInv ==
    status = "up" =>
        /\ writer = Free => Loaded(file.data) = manifests
        /\ \A p \in Procs :
             /\ pc[p] = "renamed" => Loaded(file.data) = manifests
             /\ pc[p] \in BeforeRename =>
                  Loaded(file.data) = [manifests EXCEPT ![req[p].id] = prev]

\* The map in memory has the change of whoever is in the lock.
ChangeInv ==
    \A p \in Procs : pc[p] \in InLock => manifests[req[p].id] = req[p].body

\* With a reliable fsync only the file itself can survive, save right after
\* a rename.
DurableInv ==
    ~DirSyncMayFail => \/ survivors = {file.data}
                       \/ \E p \in Procs : pc[p] = "renamed"

IInv == /\ TypeOK /\ LockInv /\ FileInv /\ TempInv
        /\ CommittedInv /\ ChangeInv /\ DurableInv
-----------------------------------------------------------------------------
\* A registry of canonical manifests loads, and loads to itself.
LEMMA RegistryLoads ==
    ASSUME NEW d \in Registry
    PROVE  Loads(d) /\ Loaded(d) = d
<1>1. d # Torn /\ d # NoFile
  BY ValuesAssumption DEF Registry
<1>2. \A i \in Ids : d[i] # Absent => Canon[d[i]] = d[i] /\ d[i] # Invalid
  BY ManifestsAssumption, CanonAssumption DEF Registry
<1>3. Loaded(d) = [i \in Ids |-> d[i]]
  BY <1>1, <1>2 DEF Loaded
<1> QED BY <1>1, <1>2, <1>3 DEF Loads, Registry

\* So does every content but a torn one.
LEMMA ContentLoads ==
    ASSUME NEW d \in Contents, d # Torn
    PROVE  Loads(d) /\ Loaded(d) \in Registry
<1>1. CASE d = NoFile
  BY <1>1 DEF Loads, Loaded, NoManifests, Registry
<1>2. CASE d \in Registry
  BY <1>2, RegistryLoads
<1> QED BY <1>1, <1>2 DEF Contents

\* NewStore on a missing file establishes the inductive invariant.
LEMMA InitIInv == Init => IInv
<1> SUFFICES ASSUME Init PROVE IInv
  OBVIOUS
<1>1. Loaded(file.data) = manifests
  BY DEF Init, Loaded, Missing
<1>2. TypeOK
  <2>1. view \in UNION {[S -> Manifests \cup {Absent}] : S \in SUBSET Ids}
    BY DEF Init, NoManifests
  <2> QED BY BoundAssumption DEF Init, TypeOK, NoManifests, Registry,
              Missing, Files, Contents
<1>3. LockInv /\ TempInv
  BY ValuesAssumption DEF Init, LockInv, TempInv, InLock
<1>4. FileInv
  BY ValuesAssumption DEF Init, FileInv, Missing
<1>5. CommittedInv /\ ChangeInv /\ DurableInv
  BY <1>1 DEF Init, CommittedInv, ChangeInv, DurableInv, BeforeRename,
      InLock, Missing
<1> QED BY <1>2, <1>3, <1>4, <1>5 DEF IInv
-----------------------------------------------------------------------------
\* Every step of a mutation, reader, crash or restart keeps it.
LEMMA StepIInv == IInv /\ [Next]_vars => IInv'
<1> SUFFICES ASSUME IInv, [Next]_vars PROVE IInv'
  OBVIOUS
<1>1. ASSUME NEW p \in Procs, NEW i \in Ids, NEW m \in Raw, Upsert(p, i, m) PROVE IInv'
  <2>1. TypeOK'
    BY <1>1, CanonAssumption DEF Upsert, Goto, IInv, TypeOK, mem, disk, run
  <2>2. LockInv' /\ FileInv' /\ TempInv' /\ CommittedInv' /\ ChangeInv'
       /\ DurableInv'
    BY <1>1 DEF Upsert, Goto, IInv, LockInv, FileInv, TempInv, CommittedInv,
        ChangeInv, DurableInv, InLock, BeforeRename, mem, disk, run
  <2> QED BY <2>1, <2>2 DEF IInv
<1>2. ASSUME NEW p \in Procs, NEW m \in Raw, UpsertInvalid(p, m) PROVE IInv'
  <2>1. TypeOK'
    BY <1>2 DEF UpsertInvalid, Return, Goto, IInv, TypeOK, mem, disk, run
  <2>2. LockInv' /\ FileInv' /\ TempInv' /\ CommittedInv' /\ ChangeInv'
       /\ DurableInv'
    BY <1>2 DEF UpsertInvalid, Return, Goto, IInv, LockInv, FileInv, TempInv,
        CommittedInv, ChangeInv, DurableInv, mem, disk, run
  <2> QED BY <2>1, <2>2 DEF IInv
<1>3. ASSUME NEW p \in Procs, NEW i \in Ids, Delete(p, i) PROVE IInv'
  <2>1. TypeOK'
    BY <1>3 DEF Delete, Goto, IInv, TypeOK, mem, disk, run
  <2>2. LockInv' /\ FileInv' /\ TempInv' /\ CommittedInv' /\ ChangeInv'
       /\ DurableInv'
    BY <1>3 DEF Delete, Goto, IInv, LockInv, FileInv, TempInv, CommittedInv,
        ChangeInv, DurableInv, InLock, BeforeRename, mem, disk, run
  <2> QED BY <2>1, <2>2 DEF IInv
<1>4. ASSUME NEW p \in Procs, LockAndMutate(p) PROVE IInv'
  <2>1. TypeOK'
    BY <1>4 DEF LockAndMutate, Goto, IInv, TypeOK, Registry, InLock, disk,
        run
  <2>2. LockInv'
    BY <1>4, ValuesAssumption DEF LockAndMutate, Goto, IInv, TypeOK, LockInv,
        InLock, run
  <2>3. FileInv'
    BY <1>4 DEF LockAndMutate, IInv, FileInv, disk
  <2>4. TempInv'
    BY <1>4, ValuesAssumption DEF LockAndMutate, Goto, IInv, TempInv,
        LockInv, InLock, disk
  <2>5. CommittedInv' /\ ChangeInv'
    BY <1>4, ValuesAssumption DEF LockAndMutate, Goto, IInv, TypeOK,
        CommittedInv, ChangeInv, LockInv, Registry, BeforeRename, disk
  <2>6. DurableInv'
    BY <1>4, ValuesAssumption DEF LockAndMutate, IInv, DurableInv, LockInv,
        InLock, disk
  <2> QED BY <2>1, <2>2, <2>3, <2>4, <2>5, <2>6 DEF IInv
<1>5. ASSUME NEW p \in Procs, DeleteMissing(p) PROVE IInv'
  <2>1. TypeOK'
    BY <1>5 DEF DeleteMissing, Return, Goto, IInv, TypeOK, mem, disk, run
  <2>2. LockInv' /\ FileInv' /\ TempInv' /\ CommittedInv' /\ ChangeInv'
       /\ DurableInv'
    BY <1>5 DEF DeleteMissing, Return, Goto, IInv, LockInv, FileInv, TempInv,
        CommittedInv, ChangeInv, DurableInv, InLock, BeforeRename, mem, disk
  <2> QED BY <2>1, <2>2 DEF IInv
<1>6. ASSUME NEW p \in Procs, CreateTemp(p) PROVE IInv'
  <2>1. TypeOK'
    BY <1>6 DEF CreateTemp, Goto, IInv, TypeOK, Files, Contents, InLock, mem,
        run
  <2>2. LockInv'
    BY <1>6 DEF CreateTemp, Goto, IInv, LockInv, InLock, mem, run
  <2>3. FileInv'
    BY <1>6 DEF CreateTemp, IInv, FileInv
  <2>4. TempInv'
    BY <1>6, ValuesAssumption DEF CreateTemp, Goto, IInv, TypeOK, TempInv,
        LockInv, mem
  <2>5. CommittedInv' /\ ChangeInv'
    BY <1>6 DEF CreateTemp, Goto, IInv, CommittedInv, ChangeInv, InLock,
        BeforeRename, mem
  <2>6. DurableInv'
    BY <1>6 DEF CreateTemp, Goto, IInv, DurableInv
  <2> QED BY <2>1, <2>2, <2>3, <2>4, <2>5, <2>6 DEF IInv
<1>7. ASSUME NEW p \in Procs, Encode(p) PROVE IInv'
  <2>1. TypeOK'
    BY <1>7 DEF Encode, Goto, IInv, TypeOK, Files, Contents, InLock, mem, run
  <2>2. LockInv'
    BY <1>7 DEF Encode, Goto, IInv, LockInv, InLock, mem, run
  <2>3. FileInv'
    BY <1>7 DEF Encode, IInv, FileInv
  <2>4. TempInv'
    BY <1>7, ValuesAssumption DEF Encode, Goto, IInv, TempInv, LockInv,
        InLock, mem
  <2>5. CommittedInv' /\ ChangeInv'
    BY <1>7 DEF Encode, Goto, IInv, CommittedInv, ChangeInv, InLock,
        BeforeRename, mem
  <2>6. DurableInv'
    BY <1>7 DEF Encode, Goto, IInv, DurableInv
  <2> QED BY <2>1, <2>2, <2>3, <2>4, <2>5, <2>6 DEF IInv
<1>8. ASSUME NEW p \in Procs, SyncTemp(p) PROVE IInv'
  <2>1. TypeOK'
    BY <1>8 DEF SyncTemp, Goto, IInv, TypeOK, Files, InLock, mem, run
  <2>2. LockInv'
    BY <1>8 DEF SyncTemp, Goto, IInv, LockInv, InLock, mem, run
  <2>3. FileInv'
    BY <1>8 DEF SyncTemp, IInv, FileInv
  <2>4. TempInv'
    BY <1>8, ValuesAssumption DEF SyncTemp, Goto, IInv, TempInv, LockInv,
        InLock, mem
  <2>5. CommittedInv' /\ ChangeInv'
    BY <1>8 DEF SyncTemp, Goto, IInv, CommittedInv, ChangeInv, InLock,
        BeforeRename, mem
  <2>6. DurableInv'
    BY <1>8 DEF SyncTemp, Goto, IInv, DurableInv
  <2> QED BY <2>1, <2>2, <2>3, <2>4, <2>5, <2>6 DEF IInv
<1>9. ASSUME NEW p \in Procs, CloseTemp(p) PROVE IInv'
  <2>1. TypeOK'
    BY <1>9 DEF CloseTemp, Goto, IInv, TypeOK, InLock, mem, disk, run
  <2>2. LockInv'
    BY <1>9 DEF CloseTemp, Goto, IInv, LockInv, InLock, mem, run
  <2>3. FileInv'
    BY <1>9 DEF CloseTemp, IInv, FileInv, disk
  <2>4. TempInv'
    BY <1>9 DEF CloseTemp, Goto, IInv, TempInv, mem, disk
  <2>5. CommittedInv' /\ ChangeInv'
    BY <1>9 DEF CloseTemp, Goto, IInv, CommittedInv, ChangeInv, InLock,
        BeforeRename, mem, disk
  <2>6. DurableInv'
    BY <1>9 DEF CloseTemp, Goto, IInv, DurableInv, disk
  <2> QED BY <2>1, <2>2, <2>3, <2>4, <2>5, <2>6 DEF IInv
<1>10. ASSUME NEW p \in Procs, Rename(p) PROVE IInv'
  <2>1. TypeOK'
    BY <1>10 DEF Rename, Goto, IInv, TypeOK, Missing, Files, Contents,
        Survives, InLock, mem, run
  <2>2. LockInv'
    BY <1>10 DEF Rename, Goto, IInv, LockInv, InLock, mem, run
  <2>3. FileInv'
    BY <1>10, ValuesAssumption DEF Rename, Goto, IInv, TypeOK, FileInv,
        TempInv, Survives, Registry
  <2>4. TempInv'
    BY <1>10 DEF Rename, Goto, IInv, TypeOK, TempInv, LockInv
  <2>5. CommittedInv' /\ ChangeInv'
    BY <1>10, RegistryLoads DEF Rename, Goto, IInv, TypeOK, CommittedInv,
        ChangeInv, LockInv, TempInv, BeforeRename, mem
  <2>6. DurableInv'
    BY <1>10 DEF Rename, Goto, IInv, TypeOK, DurableInv
  <2> QED BY <2>1, <2>2, <2>3, <2>4, <2>5, <2>6 DEF IInv
<1>11. ASSUME NEW p \in Procs, SyncDirAndReturn(p) PROVE IInv'
  <2>1. TypeOK'
    BY <1>11 DEF SyncDirAndReturn, Return, Goto, IInv, TypeOK, Survives,
        FileInv, run
  <2>2. LockInv'
    BY <1>11, ValuesAssumption DEF SyncDirAndReturn, Return, Goto, IInv,
        TypeOK, LockInv, InLock
  <2>3. FileInv'
    BY <1>11 DEF SyncDirAndReturn, IInv, FileInv, Survives
  <2>4. TempInv'
    BY <1>11 DEF SyncDirAndReturn, Return, Goto, IInv, TempInv
  <2>5. CommittedInv' /\ ChangeInv'
    BY <1>11 DEF SyncDirAndReturn, Return, Goto, IInv, TypeOK, CommittedInv,
        ChangeInv, InLock, BeforeRename
  <2>6. DurableInv'
    BY <1>11 DEF SyncDirAndReturn, IInv, DurableInv, Survives, FileInv
  <2> QED BY <2>1, <2>2, <2>3, <2>4, <2>5, <2>6 DEF IInv
<1>12. ASSUME NEW p \in Procs, PersistFails(p) PROVE IInv'
  <2>1. TypeOK'
    BY <1>12 DEF PersistFails, Goto, IInv, TypeOK, Missing, Files, Contents,
        InLock, mem, run
  <2>2. LockInv'
    BY <1>12 DEF PersistFails, Goto, IInv, LockInv, InLock, mem, run
  <2>3. FileInv'
    BY <1>12 DEF PersistFails, IInv, FileInv
  <2>4. TempInv'
    BY <1>12 DEF PersistFails, Goto, IInv, TypeOK, TempInv, LockInv
  <2>5. CommittedInv' /\ ChangeInv'
    BY <1>12, ValuesAssumption DEF PersistFails, Goto, IInv, TypeOK,
        CommittedInv, ChangeInv, LockInv, InLock, BeforeRename, mem, disk, caller, run
  <2>6. DurableInv'
    BY <1>12, ValuesAssumption DEF PersistFails, Goto, IInv, TypeOK,
        DurableInv, LockInv, InLock, BeforeRename, mem, disk, caller, run
  <2> QED BY <2>1, <2>2, <2>3, <2>4, <2>5, <2>6 DEF IInv
<1>13. ASSUME NEW p \in Procs, Rollback(p) PROVE IInv'
  <2>1. TypeOK'
    BY <1>13 DEF Rollback, Return, Goto, IInv, TypeOK, Registry, InLock, mem,
        disk, caller, run
  <2>2. LockInv'
    BY <1>13, ValuesAssumption DEF Rollback, Return, Goto, IInv, TypeOK,
        LockInv, InLock, BeforeRename, mem, disk, caller, run
  <2>3. FileInv'
    BY <1>13 DEF Rollback, Return, Goto, IInv, TypeOK, FileInv, InLock,
        BeforeRename, mem, disk, caller, run
  <2>4. TempInv'
    BY <1>13, ValuesAssumption DEF Rollback, Return, Goto, IInv, TypeOK,
        TempInv, LockInv, InLock, BeforeRename, mem, disk, caller, run
  <2>5. CommittedInv' /\ ChangeInv'
    BY <1>13, ValuesAssumption DEF Rollback, Return, Goto, IInv, TypeOK,
        CommittedInv, ChangeInv, LockInv, Registry, InLock, BeforeRename, mem, disk,
        caller, run
  <2>6. DurableInv'
    BY <1>13, ValuesAssumption DEF Rollback, Return, Goto, IInv, TypeOK,
        DurableInv, LockInv, InLock, BeforeRename, mem, disk, caller, run
  <2> QED BY <2>1, <2>2, <2>3, <2>4, <2>5, <2>6 DEF IInv
<1>14. ASSUME NEW S \in SUBSET Ids, Read(S) PROVE IInv'
  <2>1. TypeOK'
    <3>1. view' \in [S -> Manifests \cup {Absent}]
      BY <1>14 DEF Read, IInv, TypeOK, Registry
    <3> QED BY <1>14, <3>1 DEF Read, IInv, TypeOK, mem, disk, caller, run
  <2>2. LockInv' /\ FileInv' /\ TempInv' /\ CommittedInv' /\ ChangeInv'
       /\ DurableInv'
    BY <1>14 DEF Read, IInv, TypeOK, LockInv, FileInv, TempInv, CommittedInv,
        ChangeInv, DurableInv, InLock, BeforeRename, mem, disk, caller, run
  <2> QED BY <2>1, <2>2 DEF IInv
<1>15. ASSUME Crash PROVE IInv'
  <2>1. TypeOK'
    BY <1>15, BoundAssumption DEF Crash, IInv, TypeOK, NoManifests, Registry,
        Missing, Files, Contents, InLock, mem, disk, caller, run
  <2>2. LockInv'
    BY <1>15, ValuesAssumption DEF Crash, IInv, TypeOK, LockInv, InLock,
        BeforeRename, mem, disk, caller, run
  <2>3. FileInv'
    BY <1>15 DEF Crash, IInv, TypeOK, FileInv, InLock, BeforeRename, mem,
        disk, caller, run
  <2>4. TempInv'
    BY <1>15, ValuesAssumption DEF Crash, IInv, TypeOK, TempInv, LockInv,
        InLock, BeforeRename, mem, disk, caller, run
  <2>5. CommittedInv' /\ ChangeInv'
    BY <1>15, ValuesAssumption DEF Crash, IInv, TypeOK, CommittedInv,
        ChangeInv, LockInv, InLock, BeforeRename, mem, disk, caller, run
  <2>6. DurableInv'
    BY <1>15, ValuesAssumption DEF Crash, IInv, TypeOK, DurableInv, LockInv,
        InLock, BeforeRename, mem, disk, caller, run
  <2> QED BY <2>1, <2>2, <2>3, <2>4, <2>5, <2>6 DEF IInv
<1>16. ASSUME NewStore PROVE IInv'
  <2>1. TypeOK'
    <3>1. Loads(file.data) => Loaded(file.data) \in Registry
      BY ContentLoads DEF IInv, TypeOK, FileInv, Files
    <3> QED BY <1>16, <3>1 DEF NewStore, IInv, TypeOK, disk, caller
  <2>2. LockInv'
    BY <1>16, ValuesAssumption DEF NewStore, IInv, TypeOK, LockInv, InLock,
        BeforeRename, mem, disk, caller, run
  <2>3. FileInv'
    BY <1>16 DEF NewStore, IInv, TypeOK, FileInv, InLock, BeforeRename, mem,
        disk, caller, run
  <2>4. TempInv'
    BY <1>16, ValuesAssumption DEF NewStore, IInv, TypeOK, TempInv, LockInv,
        InLock, BeforeRename, mem, disk, caller, run
  <2>5. CommittedInv' /\ ChangeInv'
    BY <1>16, ValuesAssumption DEF NewStore, IInv, TypeOK, CommittedInv,
        ChangeInv, LockInv, InLock, BeforeRename, mem, disk, caller, run
  <2>6. DurableInv'
    BY <1>16, ValuesAssumption DEF NewStore, IInv, TypeOK, DurableInv,
        LockInv, InLock, BeforeRename, mem, disk, caller, run
  <2> QED BY <2>1, <2>2, <2>3, <2>4, <2>5, <2>6 DEF IInv
<1>17. ASSUME UNCHANGED vars PROVE IInv'
  BY <1>17 DEF IInv, TypeOK, LockInv, FileInv, TempInv, CommittedInv,
      ChangeInv, DurableInv, vars, mem, disk, caller, run
<1>18. ASSUME NEW p \in Procs, Mutation(p) \/ Step(p) PROVE IInv'
  BY <1>4, <1>5, <1>6, <1>7, <1>8, <1>9, <1>10, <1>11, <1>12, <1>13, <1>18
      DEF Mutation, Step
<1> QED BY <1>1, <1>2, <1>3, <1>14, <1>15, <1>16, <1>17, <1>18 DEF Next
-----------------------------------------------------------------------------
\* It holds in every reachable state.
THEOREM Invariance == Spec => []IInv
<1> QED BY InitIInv, StepIInv, PTL DEF Spec

\* The variables of the Store keep their types.
THEOREM TypeCorrect == Spec => []TypeOK
<1>1. IInv => TypeOK
  BY DEF IInv
<1> QED BY <1>1, Invariance, PTL

\* Between mutations, memory is what registry.json loads to.
THEOREM MemoryAgrees == Spec => []MemoryIsTheFile
<1>1. IInv => MemoryIsTheFile
  <2> SUFFICES ASSUME IInv, status = "up", writer = Free
               PROVE  Loads(file.data) /\ manifests = Loaded(file.data)
    BY DEF MemoryIsTheFile
  <2> QED BY ContentLoads DEF IInv, TypeOK, Files, FileInv, CommittedInv
<1> QED BY <1>1, Invariance, PTL

\* A power loss at any step leaves a file NewStore accepts.
THEOREM SurvivorsLoad == Spec => []EverySurvivorLoads
<1>1. IInv => EverySurvivorLoads
  BY ContentLoads DEF IInv, TypeOK, FileInv, EverySurvivorLoads
<1> QED BY <1>1, Invariance, PTL

\* If the fsync of the directory never fails, what was acknowledged is
\* durable.
THEOREM Durability == ~DirSyncMayFail => (Spec => []AckedIsDurable)
<1> SUFFICES ASSUME ~DirSyncMayFail PROVE Spec => []AckedIsDurable
  OBVIOUS
<1>1. IInv => AckedIsDurable
  BY ValuesAssumption DEF IInv, LockInv, DurableInv, AckedIsDurable, InLock
<1> QED BY <1>1, Invariance, PTL

\* A mutation removes its temporary file, also when it fails.
THEOREM TempCleaned == Spec => []NoTempLeft
<1>1. IInv => NoTempLeft
  BY DEF IInv, TempInv, NoTempLeft
<1> QED BY <1>1, Invariance, PTL

\* If the fsync of the directory never fails, readers see durable manifests.
THEOREM ReadsAreClean == ~DirSyncMayFail => (Spec => NoDirtyRead)
<1> DEFINE Clean == view' # view =>
             \A d \in survivors : \A i \in DOMAIN view' : view'[i] = Loaded(d)[i]
<1> SUFFICES ASSUME ~DirSyncMayFail PROVE Spec => [][Clean]_vars
  BY DEF NoDirtyRead
<1>1. IInv /\ [Next]_vars => [Clean]_vars
  <2> SUFFICES ASSUME IInv, Next, view' # view PROVE Clean
    BY DEF vars
  <2>1. PICK S \in SUBSET Ids : Read(S)
    <3>1. UNCHANGED view \/ Read(Ids) \/ \E i \in Ids : Read({i})
      BY DEF Next, Upsert, UpsertInvalid, Delete, Mutation, LockAndMutate,
          DeleteMissing, Step, CreateTemp, Encode, SyncTemp, CloseTemp, Rename,
          SyncDirAndReturn, PersistFails, Rollback, Crash, NewStore
    <3> QED BY <3>1
  <2>2. survivors = {file.data} /\ Loaded(file.data) = manifests
    BY <2>1, ValuesAssumption DEF Read, IInv, LockInv, DurableInv,
        CommittedInv, InLock
  <2> QED BY <2>1, <2>2 DEF Read
<1> QED BY <1>1, Invariance, PTL DEF Spec
=============================================================================
