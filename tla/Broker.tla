------------------------------- MODULE Broker -------------------------------
(***************************************************************************)
(* internal/httpapi: the handlers that wire the registry to the hub.  The  *)
(* Store and the hub appear as their contracts, RegistryContract and       *)
(* BroadcastContract; a request goroutine and a WebSocket handler stop     *)
(* between any two calls of them.  The observer at the other end of a      *)
(* WebSocket is the one events.go:84-91 describes: it takes the snapshot   *)
(* as its state and reads the REST endpoint again on every event.          *)
(***************************************************************************)
EXTENDS Naturals, Sequences, FiniteSets

CONSTANTS
    Ids, Manifests, Absent,     \* as in RegistryContract
    Handlers,                   \* request goroutines
    Clients,                    \* WebSocket connections
    MaxRequests                 \* bound: how many mutations are requested

ASSUME BrokerAssumption == MaxRequests \in Nat /\ Absent \notin Manifests

VARIABLES
    reg, survivors, call, view, up,     \* the registry
    sent, member, due, got,             \* the hub
    requests,   \* number of mutations requested so far
    stage,      \* stage[h]: where the handler of a mutation is
    job,        \* job[h]: the id and the manifest, Absent for a DELETE
    existed,    \* existed[h]: alreadyExisted of handleRegistryUpsert
    seen,       \* seen[h]: how many mutations had taken effect by then
    events,     \* the events given to the hub; message n is events[n]
    commits,    \* the mutations in the order they took effect
    ws,         \* ws[c]: where handleCapabilitiesWS is
    snapshot,   \* snapshot[c]: the full state c is sent first
    snapAt,     \* snapAt[c]: events published when it was read
    state,      \* state[c]: what the observer takes the registry to be
    refetch     \* refetch[c]: an event came in, the observer must read again

R == INSTANCE RegistryContract WITH Procs <- Handlers, SyncMayFail <- FALSE
B == INSTANCE BroadcastContract WITH Subs <- Clients, MaxMsgs <- MaxRequests

registry == <<reg, survivors, call, view, up>>
hub == <<sent, member, due, got>>
lookup == <<existed, seen>>
handler == <<requests, stage, job, lookup>>
history == <<events, commits>>
socket == <<ws, snapshot, snapAt>>
observer == <<state, refetch>>
vars == <<registry, hub, handler, history, socket, observer>>
-----------------------------------------------------------------------------
Changes == {"ADDED", "UPDATED", "REMOVED"}
Event == [id : Ids, change : Changes]

TypeOK ==
    /\ R!CTypeOK /\ B!BTypeOK
    /\ requests \in 0..MaxRequests
    /\ stage \in [Handlers -> {"idle", "get", "store", "storing", "publish"}]
    /\ job \in [Handlers -> [id : Ids, body : Manifests \cup {Absent}]]
    /\ existed \in [Handlers -> BOOLEAN]
    /\ events \in Seq(Event) /\ Len(events) = sent
    /\ seen \in [Handlers -> 0..MaxRequests]
    /\ commits \in Seq([id : Ids, change : Changes, seen : 0..MaxRequests])
    /\ ws \in [Clients -> {"none", "accepted", "read", "written", "served", "over"}]
    /\ snapshot \in [Clients -> R!Registry]
    /\ snapAt \in [Clients -> 0..MaxRequests]
    /\ state \in [Clients -> R!Registry]
    /\ refetch \in [Clients -> BOOLEAN]

Init ==
    /\ R!CInit /\ B!BInit
    /\ requests = 0
    /\ stage = [h \in Handlers |-> "idle"]
    /\ \E i \in Ids : job = [h \in Handlers |-> [id |-> i, body |-> Absent]]
    /\ existed = [h \in Handlers |-> FALSE] /\ seen = [h \in Handlers |-> 0]
    /\ events = <<>> /\ commits = <<>>
    /\ ws = [c \in Clients |-> "none"]
    /\ snapshot = [c \in Clients |-> R!NoManifests]
    /\ snapAt = [c \in Clients |-> 0]
    /\ state = [c \in Clients |-> R!NoManifests]
    /\ refetch = [c \in Clients |-> FALSE]
-----------------------------------------------------------------------------
(* handleRegistryUpsert and handleRegistryDelete.  Requests turned down    *)
(* before the Store is called (401, 400) change nothing.                   *)

Goto(h, from, to) ==
    /\ stage[h] = from
    /\ stage' = [stage EXCEPT ![h] = to]

\* A decoded and validated POST, or a DELETE.
Receive(h, i, b) ==
    /\ requests < MaxRequests
    /\ Goto(h, "idle", IF b = Absent THEN "store" ELSE "get")
    /\ requests' = requests + 1
    /\ job' = [job EXCEPT ![h] = [id |-> i, body |-> b]]
    /\ UNCHANGED <<registry, hub, lookup, history, socket, observer>>

LookUpMutant(h) ==      \* the answer is not looked at
    /\ Goto(h, "get", "store")
    /\ R!ReadIds({job[h].id})
    /\ seen' = [seen EXCEPT ![h] = Len(commits)]
    /\ UNCHANGED <<hub, requests, job, existed, history, socket, observer>>

\* _, alreadyExisted := s.store.Get(manifest.ID)
LookUp(h) ==
    /\ Goto(h, "get", "store")
    /\ R!ReadIds({job[h].id})
    /\ existed' = [existed EXCEPT ![h] = view'[job[h].id] # Absent]
    /\ seen' = [seen EXCEPT ![h] = Len(commits)]
    /\ UNCHANGED <<hub, requests, job, history, socket, observer>>

ChangeMutant(h) == IF job[h].body = Absent THEN "SNAPSHOT"
                   ELSE IF existed[h] THEN "UPDATED" ELSE "ADDED"

Change(h) == IF job[h].body = Absent THEN "REMOVED"
             ELSE IF existed[h] THEN "UPDATED" ELSE "ADDED"

\* The call of store.Upsert or store.Delete...
CallStore(h) ==
    /\ Goto(h, "store", "storing")
    /\ R!Ask(h, job[h].id, job[h].body)
    /\ UNCHANGED <<hub, requests, job, lookup, history, socket, observer>>

\* ... its effect...
StoreCommits(h) ==
    /\ R!Commit(h)
    /\ commits' = Append(commits,
                         [id |-> job[h].id, change |-> Change(h), seen |-> seen[h]])
    /\ UNCHANGED <<hub, handler, events, socket, observer>>

StoreReturnsMutant(h) ==      \* announces what was rolled back too
    /\ \/ (R!Acknowledge(h) \/ R!GiveUp(h)) /\ Goto(h, "storing", "publish")
       \/ R!NothingThere(h) /\ Goto(h, "storing", "idle")
    /\ UNCHANGED <<hub, requests, job, lookup, history, socket, observer>>

StoreReturnsSilentMutant(h) ==      \* no event for a DELETE
    /\ \/ R!Acknowledge(h) /\ Goto(h, "storing", IF job[h].body = Absent
                                                 THEN "idle" ELSE "publish")
       \/ (R!GiveUp(h) \/ R!NothingThere(h)) /\ Goto(h, "storing", "idle")
    /\ UNCHANGED <<hub, requests, job, lookup, history, socket, observer>>

\* ... and its return: on an error (500) or an unknown id (404) the handler
\* is done.
StoreReturns(h) ==
    /\ \/ R!Acknowledge(h) /\ Goto(h, "storing", "publish")
       \/ (R!GiveUp(h) \/ R!NothingThere(h)) /\ Goto(h, "storing", "idle")
    /\ UNCHANGED <<hub, requests, job, lookup, history, socket, observer>>

PublishMutant(h) ==      \* an UPDATED event is not broadcast
    /\ Goto(h, "publish", "idle")
    /\ IF Change(h) = "UPDATED" THEN UNCHANGED <<hub, events>>
       ELSE /\ \E cut \in SUBSET B!Members, spared \in SUBSET B!CutOnes :
                 B!Broadcast(cut, spared)
            /\ events' = Append(events, [id |-> job[h].id, change |-> Change(h)])
    /\ UNCHANGED <<registry, requests, job, lookup, commits, socket, observer>>

\* s.hub.Publish and the answer (201, 200, 204).  Which members are cut
\* depends on their buffers.
Publish(h) ==
    /\ Goto(h, "publish", "idle")
    /\ \E cut \in SUBSET B!Members, spared \in SUBSET B!CutOnes :
         B!Broadcast(cut, spared)
    /\ events' = Append(events, [id |-> job[h].id, change |-> Change(h)])
    /\ UNCHANGED <<registry, requests, job, lookup, commits, socket, observer>>
-----------------------------------------------------------------------------
(* handleCapabilitiesWS.                                                   *)

Step(c, from, to) ==
    /\ ws[c] = from /\ member[c] = "out"
    /\ ws' = [ws EXCEPT ![c] = to]

Accept(c) ==
    /\ Step(c, "none", "accepted")
    /\ UNCHANGED <<registry, hub, handler, history, snapshot, snapAt, observer>>

\* snapshot := s.buildFullStateSnapshot()
ReadSnapshot(c) ==
    /\ Step(c, "accepted", "read")
    /\ R!ReadIds(Ids)
    /\ snapshot' = [snapshot EXCEPT ![c] = view']
    /\ snapAt' = [snapAt EXCEPT ![c] = Len(events)]
    /\ UNCHANGED <<hub, handler, history, observer>>

\* conn.Write; if it fails the connection is closed and the handler returns.
WriteSnapshot(c) ==
    /\ Step(c, "read", "written")
    /\ state' = [state EXCEPT ![c] = snapshot[c]]
    /\ UNCHANGED <<registry, hub, handler, history, snapshot, snapAt, refetch>>

WriteSnapshotFails(c) ==
    /\ Step(c, "read", "over")
    /\ B!Leave(c)
    /\ UNCHANGED <<registry, handler, history, snapshot, snapAt, observer>>

\* s.hub.Subscribe
HandOff(c) ==
    /\ Step(c, "written", "served")
    /\ B!Join(c)
    /\ UNCHANGED <<registry, handler, history, snapshot, snapAt, observer>>

\* The hub serves c, cuts it or loses it.
Deliver(c) ==
    /\ B!Deliver(c)
    /\ refetch' = [refetch EXCEPT ![c] = TRUE]
    /\ UNCHANGED <<registry, handler, history, socket, state>>

Disconnect(c) ==
    /\ ws[c] \in {"written", "served"}
    /\ B!Leave(c)
    /\ ws' = [ws EXCEPT ![c] = "over"]
    /\ UNCHANGED <<registry, handler, history, snapshot, snapAt, observer>>

\* The observer reads GET /api/v1/capabilities.
Refetch(c) ==
    /\ refetch[c] /\ member[c] # "gone"
    /\ R!ReadIds(Ids)
    /\ state' = [state EXCEPT ![c] = view']
    /\ refetch' = [refetch EXCEPT ![c] = FALSE]
    /\ UNCHANGED <<hub, handler, history, socket>>

Handle(h) == LookUp(h) \/ CallStore(h) \/ StoreCommits(h) \/ StoreReturns(h)
                \/ Publish(h)
Serve(c) == Accept(c) \/ ReadSnapshot(c) \/ WriteSnapshot(c)
                \/ WriteSnapshotFails(c) \/ HandOff(c)

Next ==
    \/ \E h \in Handlers : \/ \E i \in Ids, b \in Manifests \cup {Absent} :
                                Receive(h, i, b)
                           \/ Handle(h)
    \/ \E c \in Clients : Serve(c) \/ Deliver(c) \/ Disconnect(c) \/ Refetch(c)

Spec == Init /\ [][Next]_vars

\* Goroutines run, the hub delivers or disconnects, the observer reads.
Fairness ==
    /\ \A h \in Handlers : WF_vars(Handle(h))
    /\ \A c \in Clients :
         /\ WF_vars(Deliver(c) \/ (Disconnect(c) /\ due[c] # <<>>))
         /\ WF_vars(Disconnect(c) /\ member[c] = "cut")
         /\ WF_vars(Refetch(c))

FairSpec == Spec /\ Fairness
-----------------------------------------------------------------------------
(* Correctness.                                                            *)

\* Handlers whose mutation took effect but was not yet announced.
Unannounced == {h \in Handlers : call[h].phase = "done" \/ stage[h] = "publish"}

ToSay(i, ch) == {h \in Unannounced : job[h].id = i /\ Change(h) = ch}
Places(s, i, ch) == {n \in 1..Len(s) : s[n].id = i /\ s[n].change = ch}

\* Every mutation that took effect is announced exactly once, with its label,
\* after it took effect, and nothing else is: no phantom and no lost event
\* (handlers_registry.go:64-67, "phantom event").
EveryCommitHasItsEvent ==
    \A i \in Ids, ch \in Changes :
        Cardinality(Places(commits, i, ch))
            = Cardinality(Places(events, i, ch)) + Cardinality(ToSay(i, ch))

\* Was there a manifest of id i after the first n mutations?
There(i, n) ==
    \E k \in 1..n : /\ commits[k].id = i /\ commits[k].change # "REMOVED"
                    /\ \A l \in (k + 1)..n : commits[l].id # i

\* ADDED and UPDATED are told apart by a look-up before the mutation takes
\* effect.  It is "advisory" (handlers_registry.go:49-53), but wrong only when
\* another mutation of that id took effect after the look-up.
LabelsAreRight ==
    \A n \in 1..Len(commits) :
        \/ commits[n].change = "REMOVED"
        \/ commits[n].change = "UPDATED" <=> There(commits[n].id, n - 1)
        \/ \E k \in (commits[n].seen + 1)..(n - 1) : commits[k].id = commits[n].id

\* Ids on which the registry differs from what c was sent as a snapshot.
Changed(c) == {i \in Ids : reg[i] # snapshot[c][i]}
Pending == {job[h].id : h \in Unannounced}
Named(s) == {s[n].id : n \in 1..Len(s)}
Stream(c) == [n \in 1..Len(got[c] \o due[c]) |-> events[(got[c] \o due[c])[n]]]

\* The snapshot, then every later change as an event: a served observer can
\* account for all of the registry (handlers_caps.go:96-98, "eliminates the
\* connect-then-fetch race").
SnapshotThenEvents ==
    \A c \in Clients : member[c] = "in" =>
        Changed(c) \subseteq Named(Stream(c)) \cup Pending

\* Events published between the read of the snapshot and the hand-off.
Window(c) == {n \in 1..Len(events) : n > snapAt[c]}
                 \ {(got[c] \o due[c])[k] : k \in 1..Len(got[c] \o due[c])}

\* It can, but for the ids of events published in that window.
SnapshotThenEventsButWindow ==
    \A c \in Clients : member[c] = "in" =>
        Changed(c) \subseteq Named(Stream(c)) \cup Pending
                                 \cup {events[n].id : n \in Window(c)}

\* An observer that was handed off without such an event and that stays ends
\* up with the registry as it is, once no more mutations come.
EventuallyCurrent ==
    \A c \in Clients :
        <>[](member[c] = "in" /\ Window(c) = {} => state[c] = reg)
=============================================================================
