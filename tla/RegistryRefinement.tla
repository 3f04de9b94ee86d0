------------------------- MODULE RegistryRefinement -------------------------
(***************************************************************************)
(* RegistryStore implements RegistryContract: every step of the Store is a *)
(* step of the contract or leaves the callers' registry alone.             *)
(***************************************************************************)
EXTENDS RegistryStoreProofs

\* Outside the stages before the rename the map in memory is the committed one.
LEMMA CommittedIsMemory ==
    ASSUME IInv, status = "up",
           writer = Free \/ \E p \in Procs : pc[p] = "renamed"
    PROVE  Committed = manifests
<1>1. CASE writer = Free
  BY <1>1 DEF Committed
<1>2. ASSUME NEW p \in Procs, pc[p] = "renamed" PROVE Committed = manifests
  BY DEF Committed, BeforeRename, InLock, IInv, LockInv
<1> QED BY <1>1, <1>2

\* In the stages before it, the map without the change under way.
LEMMA CommittedBeforeRename ==
    ASSUME IInv, status = "up", NEW p \in Procs, pc[p] \in BeforeRename
    PROVE  Committed = [manifests EXCEPT ![req[p].id] = prev]
BY ValuesAssumption DEF Committed, BeforeRename, IInv, LockInv

\* At any moment it is what registry.json loads to.
LEMMA CommittedIsTheFile == IInv => Committed = Loaded(file.data)
<1> SUFFICES ASSUME IInv PROVE Committed = Loaded(file.data)
  OBVIOUS
<1>1. CASE status # "up"
  BY <1>1 DEF Committed
<1>2. CASE status = "up" /\ writer = Free
  BY <1>2, CommittedIsMemory DEF IInv, CommittedInv
<1>3. CASE status = "up" /\ writer # Free
  <2>1. PICK p \in Procs : p = writer
    BY <1>3 DEF IInv, TypeOK
  <2>2. pc[p] \in InLock
    BY <2>1 DEF IInv, LockInv
  <2>3. CASE pc[p] = "renamed"
    BY <1>3, <2>3, CommittedIsMemory DEF IInv, CommittedInv
  <2>4. CASE pc[p] \in BeforeRename
    BY <1>3, <2>4, CommittedBeforeRename DEF IInv, CommittedInv
  <2> QED BY <2>2, <2>3, <2>4 DEF BeforeRename
<1> QED BY <1>1, <1>2, <1>3
-----------------------------------------------------------------------------
\* An empty store is an empty registry with idle callers.
LEMMA InitRefines == Init => Contract!CInit
<1> SUFFICES ASSUME Init PROVE Contract!CInit
  OBVIOUS
<1>1. Committed = Contract!NoManifests
  BY DEF Init, Committed, Contract!NoManifests, NoManifests
<1>2. {Loaded(d) : d \in survivors} = {Contract!NoManifests}
  BY DEF Init, Loaded, Contract!NoManifests, NoManifests
<1>3. \E i \in Ids :
        [p \in Procs |-> CallOf(p)] =
        [p \in Procs |-> [phase |-> "idle", id |-> i, body |-> Absent,
                          answer |-> "none"]]
  BY DEF Init, CallOf
<1>4. view = Contract!NoManifests /\ (status = "up") = TRUE
  BY DEF Init, Contract!NoManifests, NoManifests
<1> QED BY <1>1, <1>2, <1>3, <1>4 DEF Contract!CInit

\* The rename is the commit; every other step is a stutter, an answer or a
\* crash of the contract.
LEMMA StepRefines == IInv /\ IInv' /\ [Next]_vars => [Contract!CNext]_(Contract!cvars)
<1> SUFFICES ASSUME IInv, IInv', [Next]_vars
             PROVE  Contract!CNext \/ UNCHANGED Contract!cvars
  OBVIOUS
<1>0. Committed = Loaded(file.data) /\ Committed' = Loaded(file.data)'
  <2>1. Committed = Loaded(file.data)
    BY CommittedIsTheFile
  <2>2. (IInv => Committed = Loaded(file.data))'
    BY CommittedIsTheFile, PTL
  <2> QED BY <2>1, <2>2
<1>1. ASSUME NEW p \in Procs, NEW i \in Ids, NEW m \in Raw, Upsert(p, i, m)
      PROVE  Contract!Ask(p, i, Canon[m])
  BY <1>0, <1>1, ManifestsAssumption DEF Upsert, Goto, CallOf, IInv, TypeOK,
      mem, disk, caller, run, Contract!Ask
<1>2. ASSUME NEW p \in Procs, NEW m \in Raw, UpsertInvalid(p, m)
      PROVE  Contract!Refuse(p)
  BY <1>0, <1>2, ManifestsAssumption, CanonAssumption, ValuesAssumption DEF
      UpsertInvalid, Return, Goto, CallOf, IInv, TypeOK, mem, disk, caller,
      run, InLock, Contract!cvars, Contract!Answered, Contract!Refuse
<1>3. ASSUME NEW p \in Procs, NEW i \in Ids, Delete(p, i)
      PROVE  Contract!Ask(p, i, Absent)
  BY <1>0, <1>3 DEF Delete, Goto, CallOf, IInv, TypeOK, mem, disk, caller,
      run, Contract!Ask
<1>4. ASSUME NEW p \in Procs, LockAndMutate(p)
      PROVE  UNCHANGED Contract!cvars
  BY <1>0, <1>4 DEF LockAndMutate, Goto, CallOf, disk, run, Contract!cvars
<1>5. ASSUME NEW p \in Procs, DeleteMissing(p)
      PROVE  Contract!NothingThere(p)
  <2>1. Committed = manifests
    BY <1>5, CommittedIsMemory DEF DeleteMissing, Return, Goto
  <2>2. UNCHANGED <<Committed, survivors, view, status>>
    BY <1>0, <1>5 DEF DeleteMissing, disk, run
  <2>3. CallOf(p).phase = "asked" /\ status = "up"
    BY <1>5 DEF DeleteMissing, Return, Goto, CallOf
  <2>4. [q \in Procs |-> CallOf(q)]' =
          [[q \in Procs |-> CallOf(q)] EXCEPT ![p].phase = "idle",
                                              ![p].answer = "notfound"]
    BY <1>5 DEF DeleteMissing, Return, Goto, CallOf, IInv, TypeOK
  <2> QED BY <1>5, <2>1, <2>2, <2>3, <2>4 DEF DeleteMissing, Deletes, Missed,
              CallOf, Contract!NothingThere, Contract!Answered
<1>6. ASSUME NEW p \in Procs, CreateTemp(p)
      PROVE  UNCHANGED Contract!cvars
  BY <1>0, <1>6 DEF CreateTemp, Goto, CallOf, run, Contract!cvars
<1>7. ASSUME NEW p \in Procs, Encode(p)
      PROVE  UNCHANGED Contract!cvars
  BY <1>0, <1>7 DEF Encode, Goto, CallOf, run, Contract!cvars
<1>8. ASSUME NEW p \in Procs, SyncTemp(p)
      PROVE  UNCHANGED Contract!cvars
  BY <1>0, <1>8 DEF SyncTemp, Goto, CallOf, run, Contract!cvars
<1>9. ASSUME NEW p \in Procs, CloseTemp(p)
      PROVE  UNCHANGED Contract!cvars
  BY <1>0, <1>9 DEF CloseTemp, Goto, CallOf, disk, run, Contract!cvars
<1>10. ASSUME NEW p \in Procs, Rename(p)
       PROVE  Contract!Commit(p)
  <2>1. Committed' = [Committed EXCEPT ![req[p].id] = req[p].body]
    <3>1. Committed = [manifests EXCEPT ![req[p].id] = prev]
      BY <1>10, CommittedBeforeRename DEF Rename, Goto, BeforeRename, InLock
    <3>2. manifests[req[p].id] = req[p].body /\ manifests \in Registry
      BY <1>10 DEF Rename, Goto, IInv, TypeOK, ChangeInv
    <3>3. file'.data = manifests
      BY <1>10 DEF Rename, Goto, IInv, TempInv
    <3> QED BY <1>0, <3>1, <3>2, <3>3, RegistryLoads DEF Registry
  <2>2. survivors' = survivors \cup {file'.data}
    BY <1>10 DEF Rename, Goto, Survives, IInv, TempInv
  <2>3. {Loaded(d) : d \in survivors}' =
          {Loaded(d) : d \in survivors} \cup {Committed'}
    BY <1>0, <2>2
  <2>4. UNCHANGED <<view, status>> /\ status = "up" /\ CallOf(p).phase = "asked"
    BY <1>10 DEF Rename, Goto, CallOf, run
  <2>5. [q \in Procs |-> CallOf(q)]' =
          [[q \in Procs |-> CallOf(q)] EXCEPT ![p].phase = "done"]
    BY <1>10 DEF Rename, Goto, CallOf, IInv, TypeOK
  <2> QED BY <2>1, <2>3, <2>4, <2>5 DEF CallOf, Contract!Commit
<1>11. ASSUME NEW p \in Procs, SyncDirAndReturn(p)
       PROVE  Contract!Acknowledge(p)
  <2>1. UNCHANGED <<Committed, view, status>>
    BY <1>0, <1>11 DEF SyncDirAndReturn, run
  <2>2. CallOf(p).phase = "done" /\ status = "up"
    BY <1>11 DEF SyncDirAndReturn, Return, Goto, CallOf
  <2>3. [q \in Procs |-> CallOf(q)]' =
          [[q \in Procs |-> CallOf(q)] EXCEPT ![p].phase = "idle",
                                              ![p].answer = "ok"]
    BY <1>11 DEF SyncDirAndReturn, Return, Goto, CallOf, IInv, TypeOK
  <2>4. \/ survivors' = {file.data}
        \/ DirSyncMayFail /\ survivors' = survivors
    BY <1>11 DEF SyncDirAndReturn, Survives, IInv, FileInv
  <2>5. \/ {Loaded(d) : d \in survivors}' = {Committed}
        \/ /\ DirSyncMayFail
           /\ {Loaded(d) : d \in survivors}' = {Loaded(d) : d \in survivors}
    BY <1>0, <2>4
  <2> QED BY <2>1, <2>2, <2>3, <2>5 DEF Contract!Acknowledge,
              Contract!Answered
<1>12. ASSUME NEW p \in Procs, PersistFails(p)
      PROVE  UNCHANGED Contract!cvars
  BY <1>0, <1>12 DEF PersistFails, Goto, CallOf, run, Contract!cvars
<1>13. ASSUME NEW p \in Procs, Rollback(p)
      PROVE  Contract!GiveUp(p)
  BY <1>0, <1>13, ManifestsAssumption, CanonAssumption, ValuesAssumption DEF
      Rollback, Return, Goto, CallOf, IInv, TypeOK, mem, disk, caller, run,
      InLock, Contract!cvars, Contract!Answered, Contract!GiveUp
<1>14. ASSUME NEW S \in SUBSET Ids, Read(S)
       PROVE  Contract!ReadIds(S)
  <2>1. Committed = manifests
    BY <1>14, CommittedIsMemory DEF Read
  <2>2. UNCHANGED <<Committed, survivors, status, caller>>
    BY <1>0, <1>14 DEF Read, disk, run
  <2> QED BY <1>14, <2>1, <2>2 DEF Read, caller, CallOf, Contract!ReadIds
<1>15. ASSUME Crash
       PROVE  \E r \in {Loaded(d) : d \in survivors} : Contract!CrashTo(r)
  <2>1. PICK d \in survivors : file'.data = d /\ survivors' = {d}
    BY <1>15 DEF Crash
  <2>2. Committed' = Loaded(d)
    BY <1>0, <2>1
  <2>3. {Loaded(e) : e \in survivors}' = {Loaded(d)}
    BY <2>1
  <2>4. [q \in Procs |-> CallOf(q)]' =
          [q \in Procs |-> [[r \in Procs |-> CallOf(r)][q]
                              EXCEPT !.phase = "idle", !.answer = "none"]]
    BY <1>15 DEF Crash, CallOf
  <2>5. Contract!CrashTo(Loaded(d))
    BY <1>15, <2>2, <2>3, <2>4 DEF Crash, Contract!CrashTo
  <2> QED BY <2>5
<1>16. ASSUME NewStore
       PROVE  Contract!Restarted \/ UNCHANGED Contract!cvars
  <2>1. Committed' = Committed /\ UNCHANGED <<survivors, view, disk, caller>>
    BY <1>0, <1>16 DEF NewStore, disk
  <2>2. CASE Loads(file.data)
    BY <1>16, <2>1, <2>2 DEF NewStore, caller, CallOf, Contract!Restarted
  <2>3. CASE ~Loads(file.data)
    BY <1>16, <2>1, <2>3 DEF NewStore, caller, CallOf, Contract!cvars
  <2> QED BY <2>2, <2>3
<1>17. ASSUME UNCHANGED vars PROVE UNCHANGED Contract!cvars
  BY <1>0, <1>17 DEF vars, disk, caller, run, CallOf, Contract!cvars
<1>18. \A p \in Procs, i \in Ids, m \in Raw : Upsert(p, i, m) => Contract!CNext
  <2> SUFFICES ASSUME NEW p \in Procs, NEW i \in Ids, NEW m \in Raw,
                      Upsert(p, i, m)
               PROVE  Contract!CNext
    OBVIOUS
  <2>1. Canon[m] \in Manifests
    BY CanonAssumption DEF Upsert
  <2> QED BY <1>1, <2>1 DEF Contract!CNext
<1>19. ASSUME NEW p \in Procs, Mutation(p) \/ Step(p)
       PROVE  Contract!CNext \/ UNCHANGED Contract!cvars
  BY <1>4, <1>5, <1>6, <1>7, <1>8, <1>9, <1>10, <1>11, <1>12, <1>13, <1>19
      DEF Mutation, Step, Contract!CNext
<1>20. ASSUME Read(Ids) \/ \E i \in Ids : Read({i}) PROVE Contract!CNext
  BY <1>14, <1>20 DEF Contract!CNext
<1>21. CASE Crash
  BY <1>15, <1>21 DEF Contract!CNext
<1>22. CASE NewStore
  BY <1>16, <1>22 DEF Contract!CNext
<1>23. ASSUME NEW p \in Procs, NEW m \in Raw, UpsertInvalid(p, m)
       PROVE  Contract!CNext
  BY <1>2, <1>23 DEF Contract!CNext
<1>24. ASSUME NEW p \in Procs, NEW i \in Ids, Delete(p, i)
       PROVE  Contract!CNext
  BY <1>3, <1>24 DEF Contract!CNext
<1> QED BY <1>17, <1>18, <1>19, <1>20, <1>21, <1>22, <1>23, <1>24 DEF Next

\* The Store implements the contract its callers rely on, with every power
\* loss and failing system call, whatever the fsync of the directory does.
THEOREM Refinement == Spec => ImplementsContract
<1> QED BY InitRefines, StepRefines, Invariance, PTL
        DEF Spec, ImplementsContract, Contract!CSpec
=============================================================================
