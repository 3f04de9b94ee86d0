-------------------------- MODULE RegistryContract --------------------------
(***************************************************************************)
(* What internal/registry promises its callers, without locks, temporary   *)
(* files or stages: a map of manifests on which every mutation takes       *)
(* effect at one instant or not at all, every read returns the map of one  *)
(* instant, a mutation answered "ok" survives a crash and a mutation       *)
(* answered "unchanged" never shows.  RegistryStore implements it.         *)
(***************************************************************************)
EXTENDS Naturals

CONSTANTS
    Ids,            \* application ids
    Manifests,      \* validated manifest contents
    Absent,         \* the value of an id that is not registered
    Procs,          \* goroutines that call the Store
    SyncMayFail     \* may the fsync of the parent directory fail unnoticed?

VARIABLES
    reg,            \* the committed registry
    survivors,      \* the registries a crash may leave on disk
    call,           \* call[p]: what p asked for and how far it got
    view,           \* the answer of the latest read
    up              \* is the process running?

cvars == <<reg, survivors, call, view, up>>

Registry == [Ids -> Manifests \cup {Absent}]

\* A registry without any manifest.
NoManifests == [i \in Ids |-> Absent]

\* What a caller gets back from a mutation.
Answers == {"none", "ok", "notfound", "unchanged", "invalid"}

\* phase: "idle", or "asked" (not yet in effect), or "done" (in effect).
Calls == [phase : {"idle", "asked", "done"}, id : Ids,
          body : Manifests \cup {Absent}, answer : Answers]

CTypeOK ==
    /\ reg \in Registry
    /\ survivors \in SUBSET Registry
    /\ call \in [Procs -> Calls]
    /\ view \in UNION {[S -> Manifests \cup {Absent}] : S \in SUBSET Ids}
    /\ up \in BOOLEAN

CInit ==
    /\ reg = NoManifests
    /\ survivors = {NoManifests}
    /\ \E i \in Ids :
         call = [p \in Procs |-> [phase |-> "idle", id |-> i,
                                  body |-> Absent, answer |-> "none"]]
    /\ view = NoManifests
    /\ up = TRUE

\* A mutation with this answer is over, whatever it did.
Answered(p, a) == call' = [call EXCEPT ![p].phase = "idle", ![p].answer = a]

\* p asks to set id to body; Absent asks for its removal.
Ask(p, i, b) ==
    /\ up /\ call[p].phase = "idle"
    /\ call' = [call EXCEPT ![p] = [phase |-> "asked", id |-> i,
                                    body |-> b, answer |-> "none"]]
    /\ UNCHANGED <<reg, survivors, view, up>>

\* A manifest that does not validate is refused on the spot.
Refuse(p) ==
    /\ up /\ call[p].phase = "idle"
    /\ Answered(p, "invalid")
    /\ UNCHANGED <<reg, survivors, view, up>>

\* The mutation takes effect; until it is answered a crash may undo it.
Commit(p) ==
    /\ up /\ call[p].phase = "asked"
    /\ reg' = [reg EXCEPT ![call[p].id] = call[p].body]
    /\ survivors' = survivors \cup {reg'}
    /\ call' = [call EXCEPT ![p].phase = "done"]
    /\ UNCHANGED <<view, up>>

\* "ok" is answered only once nothing but the current registry can survive.
Acknowledge(p) ==
    /\ up /\ call[p].phase = "done"
    /\ Answered(p, "ok")
    /\ \/ survivors' = {reg}
       \/ SyncMayFail /\ UNCHANGED survivors
    /\ UNCHANGED <<reg, view, up>>

\* The mutation did not and will not take effect.
GiveUp(p) ==
    /\ up /\ call[p].phase = "asked"
    /\ Answered(p, "unchanged")
    /\ UNCHANGED <<reg, survivors, view, up>>

\* There was nothing to remove.
NothingThere(p) ==
    /\ up /\ call[p].phase = "asked" /\ call[p].body = Absent
    /\ reg[call[p].id] = Absent
    /\ Answered(p, "notfound")
    /\ UNCHANGED <<reg, survivors, view, up>>

\* A read of the ids in S answers from one committed registry.
ReadIds(S) ==
    /\ up
    /\ view' = [i \in S |-> reg[i]]
    /\ UNCHANGED <<reg, survivors, call, up>>

\* The process dies: one of the survivors is the registry from now on.
CrashTo(r) ==
    /\ up
    /\ reg' = r /\ survivors' = {r}
    /\ call' = [p \in Procs |-> [call[p] EXCEPT !.phase = "idle",
                                                !.answer = "none"]]
    /\ up' = FALSE
    /\ UNCHANGED view

Restarted ==
    /\ ~up /\ up' = TRUE
    /\ UNCHANGED <<reg, survivors, call, view>>

CNext ==
    \/ \E p \in Procs :
         \/ \E i \in Ids, b \in Manifests \cup {Absent} : Ask(p, i, b)
         \/ Refuse(p) \/ Commit(p) \/ Acknowledge(p)
         \/ GiveUp(p) \/ NothingThere(p)
    \/ \E S \in SUBSET Ids : ReadIds(S)
    \/ \E r \in survivors : CrashTo(r)
    \/ Restarted

CSpec == CInit /\ [][CNext]_cvars
=============================================================================
