----------------------------- MODULE BrokerProofs -----------------------------
(***************************************************************************)
(* Proofs about Broker, for any ids, manifests, handlers and clients and   *)
(* any number of requests: what the handlers make of the two contracts.    *)
(***************************************************************************)
EXTENDS Broker, FiniteSetTheorems, SequenceTheorems, TLAPS

\* A handler is in a call of the Store just when its stage says so, with the
\* job it was given; the process stays up.
CallInv ==
    /\ up
    /\ \A h \in Handlers :
         /\ call[h].phase # "idle" <=> stage[h] = "storing"
         /\ stage[h] = "storing" => call[h].id = job[h].id /\ call[h].body = job[h].body
         /\ stage[h] = "get" => job[h].body # Absent

\* Every commit was requested: seen never passes its bound.
Underway == {h \in Handlers : stage[h] \in {"get", "store"} \/ call[h].phase = "asked"}
BoundInv == /\ IsFiniteSet(Underway)
            /\ Len(commits) + Cardinality(Underway) <= requests

EventInv == IsFiniteSet(Unannounced) /\ EveryCommitHasItsEvent

\* The registry is what the commits say, and so was a look-up when it was made.
LookedUp == {h \in Handlers : stage[h] = "store" \/ call[h].phase = "asked"}
RegInv ==
    /\ \A i \in Ids : reg[i] # Absent <=> There(i, Len(commits))
    /\ \A h \in Handlers : seen[h] <= Len(commits)
    /\ \A h \in LookedUp : job[h].body # Absent
                             => (existed[h] <=> There(job[h].id, seen[h]))

\* What changed since c's snapshot was announced since, or will be.
Accounted(c) == {events[n].id : n \in (snapAt[c] + 1)..Len(events)}
SnapInv == \A c \in Clients : /\ snapAt[c] <= Len(events)
                              /\ Changed(c) \subseteq Accounted(c) \cup Pending

IInv == /\ TypeOK /\ CallInv /\ BoundInv /\ EventInv
        /\ RegInv /\ LabelsAreRight /\ SnapInv
-----------------------------------------------------------------------------
(* Types of the two contracts.                                             *)

\* A read returns a part of the registry and leaves the registry alone.
LEMMA ReadTypes ==
    ASSUME R!CTypeOK, NEW S \in SUBSET Ids, R!ReadIds(S)
    PROVE  /\ R!CTypeOK' /\ UNCHANGED <<reg, survivors, call, up>>
           /\ view' = [i \in S |-> reg[i]] /\ view' \in [S -> Manifests \cup {Absent}]
<1>1. view' = [i \in S |-> reg[i]] /\ UNCHANGED <<reg, survivors, call, up>>
  BY DEF R!ReadIds
<1>2. view' \in [S -> Manifests \cup {Absent}]
  BY <1>1 DEF R!CTypeOK, R!Registry
<1>3. view' \in UNION {[T -> Manifests \cup {Absent}] : T \in SUBSET Ids}
  BY <1>2
<1> QED BY <1>1, <1>3 DEF R!CTypeOK

\* The calls of a mutation keep the types of the registry's contract.
LEMMA CallTypes ==
    ASSUME R!CTypeOK, NEW h \in Handlers
    PROVE  /\ \A i \in Ids, b \in Manifests \cup {Absent} : R!Ask(h, i, b) => R!CTypeOK'
           /\ R!Commit(h) => R!CTypeOK'
           /\ R!Acknowledge(h) \/ R!GiveUp(h) \/ R!NothingThere(h) => R!CTypeOK'
<1> USE DEF R!CTypeOK, R!Calls, R!Answers
<1>1. ASSUME NEW i \in Ids, NEW b \in Manifests \cup {Absent}, R!Ask(h, i, b)
      PROVE  R!CTypeOK'
  BY <1>1 DEF R!Ask
<1>2. ASSUME R!Commit(h) PROVE R!CTypeOK'
  BY <1>2 DEF R!Commit, R!Registry
<1>3. ASSUME R!Acknowledge(h) PROVE R!CTypeOK'
  BY <1>3 DEF R!Acknowledge, R!Answered
<1>4. ASSUME R!GiveUp(h) \/ R!NothingThere(h) PROVE R!CTypeOK'
  BY <1>4 DEF R!GiveUp, R!NothingThere, R!Answered
<1> QED BY <1>1, <1>2, <1>3, <1>4

\* Every step of the hub's contract keeps its types.
LEMMA HubTypes ==
    ASSUME B!BTypeOK
    PROVE  /\ \A c \in Clients : B!Join(c) \/ B!Leave(c) \/ B!Deliver(c) => B!BTypeOK'
           /\ \A cut, spared : B!Broadcast(cut, spared) => B!BTypeOK'
<1> USE DEF B!BTypeOK
<1>1. ASSUME NEW c \in Clients, B!Join(c) PROVE B!BTypeOK'
  BY <1>1 DEF B!Join
<1>2. ASSUME NEW c \in Clients, B!Leave(c) PROVE B!BTypeOK'
  <2>1. <<>> \in Seq(1..MaxRequests)
    OBVIOUS
  <2> QED BY <1>2 DEF B!Leave
<1>3. ASSUME NEW c \in Clients, B!Deliver(c) PROVE B!BTypeOK'
  <2>1. /\ Head(due[c]) \in 1..MaxRequests /\ Tail(due[c]) \in Seq(1..MaxRequests)
        /\ got[c] \in Seq(1..MaxRequests)
    BY <1>3, HeadTailProperties DEF B!Deliver
  <2>2. Append(got[c], Head(due[c])) \in Seq(1..MaxRequests)
    BY <2>1
  <2> QED BY <1>3, <2>2 DEF B!Deliver
<1>4. ASSUME NEW cut, NEW spared, B!Broadcast(cut, spared) PROVE B!BTypeOK'
  <2>1. sent + 1 \in 1..MaxRequests /\ sent' \in 0..MaxRequests
    BY <1>4, BrokerAssumption DEF B!Broadcast
  <2>2. \A c \in Clients : Append(due[c], sent + 1) \in Seq(1..MaxRequests)
    BY <2>1
  <2>3. /\ member' = [s \in Clients |-> IF s \in cut THEN "cut" ELSE member[s]]
        /\ due' = [s \in Clients |-> IF s \in (B!Members \ cut) \cup spared
                                     THEN Append(due[s], sent + 1) ELSE due[s]]
        /\ got' = got
    BY <1>4 DEF B!Broadcast
  <2> QED BY <2>1, <2>2, <2>3
<1> QED BY <1>1, <1>2, <1>3, <1>4
-----------------------------------------------------------------------------
(* What a step leaves alone.                                               *)

\* The handlers between commit and publication are the same, and so is what
\* they will announce.
SameToSay ==
    /\ Unannounced' = Unannounced
    /\ \A h \in Unannounced : job'[h] = job[h] /\ existed'[h] = existed[h]

\* A step that neither commits nor publishes keeps what is said of events,
\* and the ids whose event is still to come, if it keeps what is still to say.
LEMMA SameEvents ==
    ASSUME IInv, SameToSay, UNCHANGED history
    PROVE  EventInv' /\ Pending' = Pending
<1>1. ASSUME NEW i \in Ids, NEW ch \in Changes PROVE ToSay(i, ch)' = ToSay(i, ch)
  BY DEF SameToSay, ToSay, Change
<1>2. Pending' = Pending
  BY DEF SameToSay, Pending
<1>3. EveryCommitHasItsEvent'
  BY <1>1 DEF IInv, EventInv, EveryCommitHasItsEvent, history
<1> QED BY <1>2, <1>3 DEF IInv, EventInv, SameToSay

\* What a client's snapshot is worth depends on the registry, the events
\* published and the ids whose event is still to come, and on nothing else.
LEMMA SameSnapshots ==
    ASSUME IInv, Pending' = Pending, UNCHANGED <<reg, snapshot, snapAt, events>>
    PROVE  SnapInv'
BY DEF IInv, SnapInv, Changed, Accounted

\* Labels are judged by the log of commits alone.
LEMMA SameLog ==
    ASSUME IInv, UNCHANGED commits
    PROVE  LabelsAreRight' /\ \A i, n : There(i, n)' = There(i, n)
<1>1. commits' = commits
  OBVIOUS
<1>2. ASSUME NEW i, NEW n PROVE There(i, n)' = There(i, n)
  BY DEF There
<1>3. LabelsAreRight'
  <2> SUFFICES ASSUME NEW n \in 1..Len(commits), commits[n].change # "REMOVED",
                      ~\E k \in (commits[n].seen + 1)..(n - 1) :
                          commits[k].id = commits[n].id
               PROVE  (commits[n].change = "UPDATED" <=> There(commits[n].id, n - 1))'
    BY DEF LabelsAreRight
  <2>1. commits[n].change = "UPDATED" <=> There(commits[n].id, n - 1)
    BY DEF IInv, LabelsAreRight
  <2> QED BY <1>2, <2>1
<1> QED BY <1>2, <1>3

\* The clients and their connections: nothing of the handlers changes.
LEMMA ClientsOnly ==
    ASSUME IInv, UNCHANGED <<reg, call, up, handler, history>>
    PROVE  /\ CallInv' /\ BoundInv' /\ EventInv' /\ RegInv'
           /\ LabelsAreRight' /\ Pending' = Pending
<1>1. CallInv' /\ BoundInv'
  BY DEF IInv, CallInv, BoundInv, Underway, handler, history
<1>2. SameToSay
  BY DEF SameToSay, Unannounced, handler, lookup
<1>3. EventInv' /\ Pending' = Pending
  BY <1>2, SameEvents
<1>4. RegInv'
  BY SameLog DEF IInv, RegInv, LookedUp, handler, lookup, history
<1> QED BY <1>1, <1>3, <1>4, SameLog DEF history
-----------------------------------------------------------------------------
(* Sequences of commits and of events.                                     *)

\* A sequence has finitely many places of one event.
LEMMA PlacesFinite ==
    ASSUME NEW T, NEW s \in Seq(T), NEW i, NEW ch
    PROVE  IsFiniteSet(Places(s, i, ch)) /\ Cardinality(Places(s, i, ch)) \in Nat
<1>1. IsFiniteSet(1..Len(s))
  BY FS_Interval
<1>2. Places(s, i, ch) \in SUBSET (1..Len(s))
  BY DEF Places
<1> QED BY <1>1, <1>2, FS_Subset, FS_CardinalityType

\* Append adds a place to its own event and none to any other.
LEMMA PlacesOfAppend ==
    ASSUME NEW T, NEW s \in Seq(T), NEW e \in T, NEW i, NEW ch
    PROVE  /\ IsFiniteSet(Places(s, i, ch)) /\ Cardinality(Places(s, i, ch)) \in Nat
           /\ IF e.id = i /\ e.change = ch
              THEN Cardinality(Places(Append(s, e), i, ch))
                       = Cardinality(Places(s, i, ch)) + 1
              ELSE Places(Append(s, e), i, ch) = Places(s, i, ch)
<1> DEFINE a == Append(s, e)
<1>1. Len(s) \in Nat /\ Len(a) = Len(s) + 1 /\ a[Len(s) + 1] = e
      /\ \A n \in 1..Len(s) : a[n] = s[n]
  OBVIOUS
<1> HIDE DEF a
<1>2. IsFiniteSet(Places(s, i, ch)) /\ Cardinality(Places(s, i, ch)) \in Nat
  BY PlacesFinite
<1>3. CASE e.id = i /\ e.change = ch
  <2>1. Places(a, i, ch) = Places(s, i, ch) \cup {Len(s) + 1}
    BY <1>1, <1>3 DEF Places
  <2>2. Len(s) + 1 \notin Places(s, i, ch)
    BY DEF Places
  <2>3. Cardinality(Places(a, i, ch)) = Cardinality(Places(s, i, ch)) + 1
    BY <1>2, <2>1, <2>2, FS_AddElement
  <2> QED BY <1>2, <1>3, <2>3 DEF a
<1>4. CASE ~(e.id = i /\ e.change = ch)
  <2>1. Places(a, i, ch) = Places(s, i, ch)
    BY <1>1, <1>4 DEF Places
  <2> QED BY <1>2, <1>4, <2>1 DEF a
<1> QED BY <1>3, <1>4
-----------------------------------------------------------------------------
(* The handlers of a mutation.                                             *)

LEMMA ReceiveKeeps ==
    ASSUME IInv, NEW h \in Handlers, NEW i \in Ids, NEW b \in Manifests \cup {Absent},
           Receive(h, i, b)
    PROVE  IInv'
<1>1. /\ stage[h] = "idle" /\ requests < MaxRequests /\ requests' = requests + 1
      /\ stage' = [stage EXCEPT ![h] = IF b = Absent THEN "store" ELSE "get"]
      /\ job' = [job EXCEPT ![h] = [id |-> i, body |-> b]]
      /\ UNCHANGED <<registry, hub, lookup, history, socket, observer>>
  BY DEF Receive, Goto
<1>2. call[h].phase = "idle"
  BY <1>1 DEF IInv, CallInv
<1>3. TypeOK'
  <2>1. R!CTypeOK' /\ B!BTypeOK'
    BY <1>1 DEF IInv, TypeOK, R!CTypeOK, B!BTypeOK, registry, hub
  <2> QED BY <1>1, <2>1, BrokerAssumption DEF IInv, TypeOK, hub, lookup,
              history, socket, observer
<1>4. CallInv'
  BY <1>1 DEF IInv, CallInv, TypeOK, registry
<1>5. BoundInv'
  <2>1. Underway' = Underway \cup {h} /\ h \notin Underway
    BY <1>1, <1>2 DEF Underway, registry, IInv, TypeOK
  <2>2. IsFiniteSet(Underway') /\ Cardinality(Underway') = Cardinality(Underway) + 1
    BY <2>1, FS_AddElement DEF IInv, BoundInv
  <2>3. /\ Cardinality(Underway) \in Nat /\ Len(commits) \in Nat /\ requests \in Nat
        /\ Len(commits) + Cardinality(Underway) <= requests
    BY FS_CardinalityType DEF IInv, BoundInv, TypeOK
  <2> QED BY <1>1, <2>2, <2>3 DEF BoundInv, history
<1>6. SameToSay
  BY <1>1, <1>2 DEF SameToSay, Unannounced, registry, lookup
<1>7. EventInv' /\ Pending' = Pending
  BY <1>1, <1>6, SameEvents
<1>8. RegInv'
  <2>1. \A g \in LookedUp' : job'[g].body # Absent => g \in LookedUp /\ job'[g] = job[g]
    BY <1>1, <1>2 DEF LookedUp, registry, IInv, TypeOK
  <2> QED BY <1>1, <2>1, SameLog DEF IInv, RegInv, registry, lookup, history
<1>9. LabelsAreRight' /\ SnapInv'
  BY <1>1, <1>7, SameLog, SameSnapshots DEF registry, history, socket
<1> QED BY <1>3, <1>4, <1>5, <1>7, <1>8, <1>9 DEF IInv

\* The answer of the look-up is what the commits so far say.
LEMMA LookUpKeeps ==
    ASSUME IInv, NEW h \in Handlers, LookUp(h)
    PROVE  IInv'
<1>1. /\ stage[h] = "get" /\ stage' = [stage EXCEPT ![h] = "store"]
      /\ R!ReadIds({job[h].id})
      /\ existed' = [existed EXCEPT ![h] = view'[job[h].id] # Absent]
      /\ seen' = [seen EXCEPT ![h] = Len(commits)]
      /\ UNCHANGED <<hub, requests, job, history, socket, observer>>
  BY DEF LookUp, Goto
<1>2. job[h].id \in Ids /\ R!CTypeOK
  BY DEF IInv, TypeOK
<1>3. /\ R!CTypeOK' /\ UNCHANGED <<reg, survivors, call, up>>
      /\ view'[job[h].id] = reg[job[h].id]
  BY <1>1, <1>2, ReadTypes
<1>4. call[h].phase = "idle"
  BY <1>1 DEF IInv, CallInv
<1>5. Len(commits) \in 0..MaxRequests
  <2>1. /\ Cardinality(Underway) \in Nat /\ Len(commits) \in Nat
        /\ requests \in 0..MaxRequests
        /\ Len(commits) + Cardinality(Underway) <= requests
    BY FS_CardinalityType DEF IInv, BoundInv, TypeOK
  <2> QED BY <2>1, BrokerAssumption
<1>6. TypeOK'
  <2>1. B!BTypeOK'
    BY <1>1 DEF IInv, TypeOK, B!BTypeOK, hub
  <2>2. existed' \in [Handlers -> BOOLEAN] /\ seen' \in [Handlers -> 0..MaxRequests]
    BY <1>1, <1>5 DEF IInv, TypeOK
  <2> QED BY <1>1, <1>3, <2>1, <2>2 DEF IInv, TypeOK, hub, history, socket,
              observer
<1>7. CallInv'
  BY <1>1, <1>3 DEF IInv, CallInv
<1>8. BoundInv'
  <2>1. Underway' = Underway
    BY <1>1, <1>3 DEF Underway
  <2> QED BY <1>1, <2>1 DEF IInv, BoundInv, history
<1>9. SameToSay
  BY <1>1, <1>3, <1>4 DEF SameToSay, Unannounced
<1>10. EventInv' /\ Pending' = Pending
  BY <1>1, <1>9, SameEvents
<1>11. RegInv'
  <2>1. LookedUp' = LookedUp \cup {h}
    BY <1>1, <1>3 DEF LookedUp, IInv, TypeOK
  <2>2. existed'[h] <=> There(job[h].id, Len(commits))
    BY <1>1, <1>3 DEF IInv, RegInv, TypeOK
  <2>3. seen'[h] = Len(commits) /\ Len(commits) \in Int
    BY <1>1 DEF IInv, TypeOK
  <2>4. \A g \in Handlers \ {h} : seen'[g] = seen[g] /\ existed'[g] = existed[g]
    BY <1>1
  <2>5. UNCHANGED <<reg, commits, job>>
    BY <1>1, <1>3 DEF history
  <2>6. \A i \in Ids : (reg[i] # Absent <=> There(i, Len(commits)))'
    BY <2>5, SameLog DEF IInv, RegInv
  <2>7. \A g \in Handlers : seen'[g] <= Len(commits)
    BY <2>3, <2>4 DEF IInv, RegInv
  <2>8. ASSUME NEW g \in LookedUp', job[g].body # Absent
        PROVE  existed'[g] <=> There(job[g].id, seen'[g])
    <3>1. CASE g = h
      BY <2>2, <2>3, <3>1
    <3>2. CASE g # h
      <4>1. g \in LookedUp /\ g \in Handlers \ {h}
        BY <2>1, <3>2 DEF LookedUp
      <4> QED BY <2>4, <2>8, <4>1 DEF IInv, RegInv
    <3> QED BY <3>1, <3>2
  <2>9. \A i, n : There(i, n)' = There(i, n)
    BY <2>5, SameLog
  <2> QED BY <2>5, <2>6, <2>7, <2>8, <2>9 DEF RegInv
<1>12. LabelsAreRight' /\ SnapInv'
  BY <1>1, <1>3, <1>10, SameLog, SameSnapshots DEF history, socket
<1> QED BY <1>6, <1>7, <1>8, <1>10, <1>11, <1>12 DEF IInv

\* CallStore: the mutation enters the store; nothing is decided yet.
LEMMA CallStoreKeeps ==
    ASSUME IInv, NEW h \in Handlers, CallStore(h)
    PROVE  IInv'
<1>1. /\ stage[h] = "store" /\ stage' = [stage EXCEPT ![h] = "storing"]
      /\ R!Ask(h, job[h].id, job[h].body)
      /\ UNCHANGED <<hub, requests, job, lookup, history, socket, observer>>
  BY DEF CallStore, Goto
<1>2. job[h].id \in Ids /\ job[h].body \in Manifests \cup {Absent}
  BY DEF IInv, TypeOK
<1>3. /\ call[h].phase = "idle" /\ UNCHANGED <<reg, survivors, view, up>>
      /\ call' = [call EXCEPT ![h] = [phase |-> "asked", id |-> job[h].id,
                                      body |-> job[h].body, answer |-> "none"]]
      /\ call \in [Handlers -> R!Calls]
  BY <1>1 DEF R!Ask, IInv, TypeOK, R!CTypeOK
<1>4. TypeOK'
  <2>1. R!CTypeOK'
    BY <1>1, CallTypes DEF IInv, TypeOK
  <2>2. B!BTypeOK'
    BY <1>1 DEF IInv, TypeOK, B!BTypeOK, hub
  <2> QED BY <1>1, <2>1, <2>2 DEF IInv, TypeOK, hub, lookup, history, socket,
              observer
<1>5. CallInv'
  BY <1>1, <1>3 DEF IInv, CallInv, TypeOK
<1>6. BoundInv'
  <2>1. Underway' = Underway
    BY <1>1, <1>3 DEF Underway
  <2> QED BY <1>1, <2>1 DEF IInv, BoundInv, history
<1>7. SameToSay
  BY <1>1, <1>3 DEF SameToSay, Unannounced, lookup
<1>8. EventInv' /\ Pending' = Pending
  BY <1>1, <1>7, SameEvents
<1>9. RegInv'
  <2>1. LookedUp' = LookedUp
    BY <1>1, <1>3 DEF LookedUp
  <2> QED BY <1>1, <1>3, <2>1, SameLog DEF IInv, RegInv, lookup, history
<1>10. LabelsAreRight' /\ SnapInv'
  BY <1>1, <1>3, <1>8, SameLog, SameSnapshots DEF history, socket
<1> QED BY <1>4, <1>5, <1>6, <1>8, <1>9, <1>10 DEF IInv

\* What one more commit says of the ids.
LEMMA ThereAfter ==
    ASSUME NEW T, commits \in Seq(T), NEW e \in T, commits' = Append(commits, e)
    PROVE  /\ \A i, m : m \in 0..Len(commits) => There(i, m)' = There(i, m)
           /\ \A i : There(i, Len(commits))' <=>
                       IF e.id = i THEN e.change # "REMOVED" ELSE There(i, Len(commits))
<1>0. PICK n \in Nat : n = Len(commits) + 1
  OBVIOUS
<1>1. /\ Len(commits) \in Nat /\ commits'[n] = e /\ Len(commits)' = n
      /\ \A k \in 1..Len(commits) : commits'[k] = commits[k]
  BY <1>0
<1>2. ASSUME NEW i, NEW m \in 0..Len(commits) PROVE There(i, m)' = There(i, m)
  <2>1. \A k \in 1..m : k \in 1..Len(commits) /\ \A l \in (k + 1)..m : l \in 1..Len(commits)
    BY <1>1
  <2> QED BY DEF There
<1>3. ASSUME NEW i, e.id = i PROVE There(i, n)' <=> e.change # "REMOVED"
  <2>1. n \in 1..n /\ \A k \in 1..n : k # n => n \in (k + 1)..n
    BY <1>1
  <2>2. (n + 1)..n = {}
    BY <1>1
  <2>3. ASSUME e.change # "REMOVED" PROVE There(i, n)'
    <3>1. /\ n \in 1..n /\ commits'[n].id = i /\ commits'[n].change # "REMOVED"
          /\ \A l \in (n + 1)..n : commits'[l].id # i
      BY <1>1, <1>3, <2>3
    <3> QED BY <3>1 DEF There
  <2>4. ASSUME There(i, n)' PROVE e.change # "REMOVED"
    <3>1. PICK k \in 1..n : /\ commits'[k].change # "REMOVED"
                            /\ \A l \in (k + 1)..n : commits'[l].id # i
      BY <2>4 DEF There
    <3>2. k = n
      BY <1>1, <1>3, <3>1
    <3> QED BY <1>1, <3>1, <3>2
  <2> QED BY <2>3, <2>4
<1>4. ASSUME NEW i, e.id # i PROVE There(i, n)' <=> There(i, Len(commits))
  <2>1. \A k \in 1..n : k = n \/ k \in 1..Len(commits)
    BY <1>1
  <2>2. \A k \in 1..Len(commits) :
           /\ k \in 1..n
           /\ (\A l \in (k + 1)..n : commits'[l].id # i)
                <=> \A l \in (k + 1)..Len(commits) : commits[l].id # i
    <3> SUFFICES ASSUME NEW k \in 1..Len(commits)
                 PROVE  (\A l \in (k + 1)..n : commits'[l].id # i)
                          <=> \A l \in (k + 1)..Len(commits) : commits[l].id # i
      BY <1>1
    <3>1. \A l : l \in (k + 1)..n <=> l = n \/ l \in (k + 1)..Len(commits)
      BY <1>1
    <3>2. \A l \in (k + 1)..Len(commits) : commits'[l] = commits[l]
      BY <1>1
    <3> QED BY <1>1, <1>4
  <2>3. There(i, n)' <=> \E k \in 1..n : /\ commits'[k].id = i
                                         /\ commits'[k].change # "REMOVED"
                                         /\ \A l \in (k + 1)..n : commits'[l].id # i
    BY DEF There
  <2>4. There(i, Len(commits)) <=>
          \E k \in 1..Len(commits) : /\ commits[k].id = i /\ commits[k].change # "REMOVED"
                                     /\ \A l \in (k + 1)..Len(commits) : commits[l].id # i
    BY DEF There
  <2> QED BY <1>0, <1>4, <2>3, <2>4
<1> QED BY <1>1, <1>2, <1>3, <1>4

\* Mutations of other ids tell nothing about i.
LEMMA ThereUntil ==
    ASSUME NEW i, NEW m \in Nat, NEW n \in Nat, m <= n,
           \A k \in (m + 1)..n : commits[k].id # i
    PROVE  There(i, m) <=> There(i, n)
<1>1. ASSUME There(i, m) PROVE There(i, n)
  <2>1. PICK k \in 1..m : /\ commits[k].id = i /\ commits[k].change # "REMOVED"
                          /\ \A l \in (k + 1)..m : commits[l].id # i
    BY <1>1 DEF There
  <2>2. k \in 1..n /\ \A l \in (k + 1)..n : l \in (k + 1)..m \/ l \in (m + 1)..n
    OBVIOUS
  <2> QED BY <2>1 DEF There
<1>2. ASSUME There(i, n) PROVE There(i, m)
  <2>1. PICK k \in 1..n : /\ commits[k].id = i /\ commits[k].change # "REMOVED"
                          /\ \A l \in (k + 1)..n : commits[l].id # i
    BY <1>2 DEF There
  <2>2. k \in 1..m
    <3>1. k \notin (m + 1)..n
      BY <2>1
    <3> QED BY <3>1
  <2>3. \A l \in (k + 1)..m : l \in (k + 1)..n
    BY <2>2
  <2> QED BY <2>1 DEF There
<1> QED BY <1>1, <1>2

\* A mutation takes effect: one more commit, to be announced by its handler.
LEMMA StoreCommitsKeeps ==
    ASSUME IInv, NEW h \in Handlers, StoreCommits(h)
    PROVE  IInv'
<1> DEFINE e == [id |-> job[h].id, change |-> Change(h), seen |-> seen[h]]
           Commit == [id : Ids, change : Changes, seen : 0..MaxRequests]
<1>1. R!Commit(h) /\ commits' = Append(commits, e)
      /\ UNCHANGED <<hub, handler, events, socket, observer>>
  BY DEF StoreCommits
<1>2. /\ call[h].phase = "asked" /\ UNCHANGED <<view, up>>
      /\ reg' = [reg EXCEPT ![call[h].id] = call[h].body]
      /\ call' = [call EXCEPT ![h].phase = "done"]
      /\ call \in [Handlers -> R!Calls] /\ reg \in R!Registry
  BY <1>1 DEF R!Commit, IInv, TypeOK, R!CTypeOK
<1>3. stage[h] = "storing" /\ call[h].id = job[h].id /\ call[h].body = job[h].body
  BY <1>2 DEF IInv, CallInv
<1>4. /\ commits \in Seq(Commit) /\ Len(commits) \in Nat /\ Len(commits') = Len(commits) + 1
      /\ e \in Commit /\ e.id \in Ids /\ e.change \in Changes
      /\ e.change # "REMOVED" <=> job[h].body # Absent
      /\ e.change = "UPDATED" <=> job[h].body # Absent /\ existed[h]
  <2>1. commits \in Seq(Commit)
    BY DEF IInv, TypeOK
  <2>2. e \in Commit /\ e.id \in Ids /\ e.change \in Changes
    BY DEF IInv, TypeOK, Change, Changes
  <2>3. /\ e.change # "REMOVED" <=> job[h].body # Absent
        /\ e.change = "UPDATED" <=> job[h].body # Absent /\ existed[h]
    BY DEF Change
  <2> HIDE DEF e
  <2> QED BY <1>1, <2>1, <2>2, <2>3
<1>5. e.id = job[h].id /\ e.seen = seen[h] /\ e.change = Change(h)
  OBVIOUS
<1> HIDE DEF e, Commit
<1>6. TypeOK'
  <2>1. R!CTypeOK'
    BY <1>1, CallTypes DEF IInv, TypeOK
  <2>2. B!BTypeOK' /\ commits' \in Seq(Commit)
    BY <1>1, <1>4 DEF IInv, TypeOK, B!BTypeOK, hub
  <2> QED BY <1>1, <2>1, <2>2 DEF IInv, TypeOK, hub, handler, lookup, socket,
              observer, Commit
<1>7. CallInv'
  BY <1>1, <1>2 DEF IInv, CallInv, handler
<1>8. BoundInv'
  <2>1. Underway' = Underway \ {h} /\ h \in Underway
    BY <1>1, <1>2, <1>3 DEF Underway, handler
  <2>2. IsFiniteSet(Underway') /\ Cardinality(Underway') = Cardinality(Underway) - 1
    BY <2>1, FS_RemoveElement DEF IInv, BoundInv
  <2>3. /\ Cardinality(Underway) \in Nat /\ requests \in Nat
        /\ Len(commits) + Cardinality(Underway) <= requests
    BY FS_CardinalityType DEF IInv, BoundInv, TypeOK
  <2> QED BY <1>1, <2>2, <2>3 DEF BoundInv, handler
<1>9. Unannounced' = Unannounced \cup {h} /\ h \notin Unannounced
  BY <1>1, <1>2, <1>3 DEF Unannounced, handler
<1>10. EventInv'
  <2>1. IsFiniteSet(Unannounced')
    BY <1>9, FS_AddElement DEF IInv, EventInv
  <2>2. ASSUME NEW i \in Ids, NEW ch \in Changes
        PROVE  Cardinality(Places(commits', i, ch))
                 = Cardinality(Places(events', i, ch)) + Cardinality(ToSay(i, ch)')
    <3>1. /\ IsFiniteSet(ToSay(i, ch)) /\ Cardinality(ToSay(i, ch)) \in Nat
          /\ h \notin ToSay(i, ch)
      <4>1. ToSay(i, ch) \in SUBSET Unannounced
        BY DEF ToSay
      <4> QED BY <1>9, <4>1, FS_Subset, FS_CardinalityType DEF IInv, EventInv
    <3>2. ToSay(i, ch)' = IF e.id = i /\ e.change = ch THEN ToSay(i, ch) \cup {h}
                                                        ELSE ToSay(i, ch)
      BY <1>1, <1>5, <1>9 DEF ToSay, Change, handler, lookup
    <3>3. /\ Cardinality(Places(commits, i, ch)) \in Nat
          /\ IF e.id = i /\ e.change = ch
             THEN Cardinality(Places(commits', i, ch))
                       = Cardinality(Places(commits, i, ch)) + 1
             ELSE Places(commits', i, ch) = Places(commits, i, ch)
      BY <1>1, <1>4, PlacesOfAppend
    <3>4. Cardinality(Places(events, i, ch)) \in Nat
      <4>1. events \in Seq(Event)
        BY DEF IInv, TypeOK
      <4> QED BY <4>1, PlacesFinite
    <3>5. Cardinality(Places(commits, i, ch))
            = Cardinality(Places(events, i, ch)) + Cardinality(ToSay(i, ch))
      BY DEF IInv, EventInv, EveryCommitHasItsEvent
    <3>6. Cardinality(ToSay(i, ch) \cup {h}) = Cardinality(ToSay(i, ch)) + 1
      BY <3>1, FS_AddElement
    <3>7. events' = events
      BY <1>1
    <3>8. CASE e.id = i /\ e.change = ch
      BY <3>1, <3>2, <3>3, <3>4, <3>5, <3>6, <3>7
    <3>9. CASE ~(e.id = i /\ e.change = ch)
      BY <3>2, <3>3, <3>5, <3>7, <3>9
    <3> QED BY <3>8, <3>9
  <2> QED BY <2>1, <2>2 DEF EventInv, EveryCommitHasItsEvent
<1>11. /\ \A i, m : m \in 0..Len(commits) => There(i, m)' = There(i, m)
       /\ \A i : There(i, Len(commits))' <=>
                    IF e.id = i THEN e.change # "REMOVED" ELSE There(i, Len(commits))
  BY <1>1, <1>4, ThereAfter
<1>12. RegInv'
  <2>1. \A i \in Ids : (reg[i] # Absent <=> There(i, Len(commits)))'
    BY <1>2, <1>3, <1>4, <1>5, <1>11 DEF IInv, RegInv, R!Registry
  <2>2. seen' = seen /\ job' = job /\ existed' = existed /\ LookedUp' \subseteq LookedUp
    BY <1>1, <1>2 DEF handler, lookup, LookedUp
  <2>3. \A g \in Handlers : seen[g] <= Len(commits) /\ seen[g] \in Nat
    BY DEF IInv, RegInv, TypeOK
  <2>4. \A g \in Handlers : seen'[g] <= Len(commits')
    BY <1>4, <2>2, <2>3
  <2>5. ASSUME NEW g \in LookedUp', job'[g].body # Absent
        PROVE  existed'[g] <=> There(job[g].id, seen[g])'
    <3>1. g \in LookedUp /\ g \in Handlers /\ seen[g] \in 0..Len(commits)
      BY <2>2, <2>3 DEF LookedUp
    <3>2. existed[g] <=> There(job[g].id, seen[g])
      BY <2>2, <2>5 DEF IInv, RegInv
    <3>3. There(job[g].id, seen[g])' = There(job[g].id, seen[g])
      BY <1>11, <2>2, <3>1
    <3> QED BY <2>2, <3>2, <3>3
  <2> QED BY <2>1, <2>4, <2>5 DEF RegInv
<1>13. /\ commits'[Len(commits) + 1] = e
       /\ \A k \in 1..Len(commits) : commits'[k] = commits[k]
  BY <1>1
<1>14. ASSUME NEW n \in 1..Len(commits)
       PROVE  \/ commits'[n].change = "REMOVED"
              \/ (commits[n].change = "UPDATED" <=> There(commits[n].id, n - 1))'
              \/ \E k \in (commits'[n].seen + 1)..(n - 1) : commits'[k].id = commits'[n].id
  <2>1. commits'[n] = commits[n] /\ n - 1 \in 0..Len(commits)
    BY <1>13
  <2>2. There(commits[n].id, n - 1)' <=> There(commits[n].id, n - 1)
    <3>1. PICK i : i = commits[n].id
      OBVIOUS
    <3>2. There(i, n - 1)' = There(i, n - 1)
      BY <1>11
    <3>3. There(commits[n].id, n - 1)' <=> There(i, n - 1)'
      BY <2>1, <3>1
    <3>4. There(i, n - 1) <=> There(commits[n].id, n - 1)
      BY <3>1
    <3> QED BY <3>2, <3>3, <3>4
  <2>3. PICK s \in Nat : s = commits[n].seen
    <3>1. commits[n] \in Commit
      BY <1>4
    <3> QED BY <3>1 DEF Commit
  <2>4. \A k \in (s + 1)..(n - 1) : commits'[k] = commits[k]
    BY <1>13
  <2> QED BY <2>1, <2>2, <2>3, <2>4 DEF IInv, LabelsAreRight
<1>15. \/ e.change = "REMOVED"
       \/ (e.change = "UPDATED" <=> There(e.id, Len(commits)))
       \/ \E k \in (e.seen + 1)..Len(commits) : commits[k].id = e.id
  <2> SUFFICES ASSUME job[h].body # Absent,
                      \A k \in (seen[h] + 1)..Len(commits) : commits[k].id # job[h].id
               PROVE  existed[h] <=> There(job[h].id, Len(commits))
    BY <1>4, <1>5
  <2>1. existed[h] <=> There(job[h].id, seen[h])
    BY <1>2 DEF IInv, RegInv, LookedUp
  <2>2. seen[h] \in Nat /\ seen[h] <= Len(commits)
    BY DEF IInv, RegInv, TypeOK
  <2> QED BY <1>4, <2>1, <2>2, ThereUntil
<1>16. LabelsAreRight'
  <2> SUFFICES ASSUME NEW n \in 1..Len(commits')
               PROVE  \/ commits'[n].change = "REMOVED"
                      \/ (commits[n].change = "UPDATED" <=> There(commits[n].id, n - 1))'
                      \/ \E k \in (commits'[n].seen + 1)..(n - 1) :
                            commits'[k].id = commits'[n].id
    BY DEF LabelsAreRight
  <2>1. CASE n \in 1..Len(commits)
    BY <1>14, <2>1
  <2>2. CASE n = Len(commits) + 1
    <3>1. n - 1 = Len(commits) /\ n - 1 \in 0..Len(commits) /\ commits'[n] = e
      BY <1>13, <2>2
    <3>2. There(commits[n].id, n - 1)' = There(e.id, Len(commits))
      <4>1. PICK i : i = e.id
        OBVIOUS
      <4>2. There(i, n - 1)' = There(i, n - 1)
        BY <1>11, <3>1
      <4>3. There(commits[n].id, n - 1)' <=> There(i, n - 1)'
        BY <3>1, <4>1
      <4> QED BY <3>1, <4>1, <4>2
    <3>3. \A k \in (e.seen + 1)..Len(commits) : commits'[k] = commits[k]
      <4>1. e.seen \in Nat
        BY <1>4 DEF Commit
      <4> QED BY <1>13, <4>1
    <3> QED BY <1>15, <3>1, <3>2, <3>3
  <2> QED BY <1>4, <2>1, <2>2
<1>17. SnapInv'
  <2>1. Pending' = Pending \cup {job[h].id}
    BY <1>1, <1>9 DEF Pending, handler
  <2> SUFFICES ASSUME NEW c \in Clients
               PROVE  /\ snapAt'[c] <= Len(events')
                      /\ Changed(c)' \subseteq Accounted(c)' \cup Pending'
    BY DEF SnapInv
  <2>2. Changed(c)' \subseteq Changed(c) \cup {job[h].id}
    BY <1>1, <1>2, <1>3 DEF Changed, socket
  <2>3. UNCHANGED <<snapAt, events>> /\ Accounted(c)' = Accounted(c)
    BY <1>1 DEF Accounted, socket
  <2> QED BY <2>1, <2>2, <2>3 DEF IInv, SnapInv
<1> QED BY <1>6, <1>7, <1>8, <1>10, <1>12, <1>16, <1>17 DEF IInv

\* The call returns: the handler goes on to announce, or is done.
LEMMA StoreReturnsKeeps ==
    ASSUME IInv, NEW h \in Handlers, StoreReturns(h)
    PROVE  IInv'
<1>1. /\ stage[h] = "storing"
      /\ R!Acknowledge(h) \/ R!GiveUp(h) \/ R!NothingThere(h)
      /\ UNCHANGED <<hub, requests, job, lookup, history, socket, observer>>
  BY DEF StoreReturns, Goto
<1>2. \/ /\ call[h].phase = "done" /\ stage' = [stage EXCEPT ![h] = "publish"]
      \/ /\ call[h].phase = "asked" /\ stage' = [stage EXCEPT ![h] = "idle"]
  BY DEF StoreReturns, Goto, R!Acknowledge, R!GiveUp, R!NothingThere
<1>3. UNCHANGED <<reg, view, up>> /\ R!CTypeOK'
  BY <1>1, CallTypes DEF R!Acknowledge, R!GiveUp, R!NothingThere, IInv,
      TypeOK
<1>4. /\ call'[h].phase = "idle" /\ \A g \in Handlers \ {h} : call'[g] = call[g]
  <2>1. call \in [Handlers -> R!Calls]
    BY DEF IInv, TypeOK, R!CTypeOK
  <2> QED BY <1>1, <2>1 DEF R!Acknowledge, R!GiveUp, R!NothingThere,
              R!Answered, R!Calls
<1>5. \A g \in Handlers \ {h} : stage'[g] = stage[g]
  BY <1>2 DEF IInv, TypeOK
<1>6. stage'[h] \in {"publish", "idle"} /\ stage' \in
        [Handlers -> {"idle", "get", "store", "storing", "publish"}]
  BY <1>2 DEF IInv, TypeOK
<1>7. TypeOK'
  <2>1. B!BTypeOK'
    BY <1>1 DEF IInv, TypeOK, B!BTypeOK, hub
  <2> QED BY <1>1, <1>3, <1>6, <2>1 DEF IInv, TypeOK, hub, lookup, history,
              socket, observer
<1>8. CallInv'
  BY <1>1, <1>3, <1>4, <1>5, <1>6 DEF IInv, CallInv
<1>9. BoundInv'
  <2>1. Underway' \in SUBSET Underway
    BY <1>4, <1>5, <1>6 DEF Underway
  <2>2. /\ IsFiniteSet(Underway') /\ Cardinality(Underway') <= Cardinality(Underway)
        /\ Cardinality(Underway') \in Nat /\ Cardinality(Underway) \in Nat
    BY <2>1, FS_Subset, FS_CardinalityType DEF IInv, BoundInv
  <2>3. Len(commits) \in Nat /\ requests \in Nat
        /\ Len(commits) + Cardinality(Underway) <= requests
    BY DEF IInv, BoundInv, TypeOK
  <2> QED BY <1>1, <2>2, <2>3 DEF BoundInv, history
<1>10. SameToSay
  <2>1. h \in Unannounced' <=> h \in Unannounced
    BY <1>1, <1>2, <1>4 DEF Unannounced, IInv, TypeOK
  <2>2. Unannounced' = Unannounced
    BY <1>4, <1>5, <2>1 DEF Unannounced
  <2> QED BY <1>1, <2>2 DEF SameToSay, lookup
<1>11. EventInv' /\ Pending' = Pending
  BY <1>1, <1>10, SameEvents
<1>12. RegInv'
  <2>1. LookedUp' \subseteq LookedUp
    BY <1>4, <1>5, <1>6 DEF LookedUp
  <2> QED BY <1>1, <1>3, <2>1, SameLog DEF IInv, RegInv, lookup, history
<1>13. LabelsAreRight' /\ SnapInv'
  BY <1>1, <1>3, <1>11, SameLog, SameSnapshots DEF history, socket
<1> QED BY <1>7, <1>8, <1>9, <1>11, <1>12, <1>13 DEF IInv

\* The event leaves the handler for the log of events.
LEMMA PublishKeeps ==
    ASSUME IInv, NEW h \in Handlers, Publish(h)
    PROVE  IInv'
<1> DEFINE e == [id |-> job[h].id, change |-> Change(h)]
<1>1. /\ stage[h] = "publish" /\ stage' = [stage EXCEPT ![h] = "idle"]
      /\ events' = Append(events, e)
      /\ UNCHANGED <<registry, requests, job, lookup, commits, socket, observer>>
  BY DEF Publish, Goto
<1>2. B!BTypeOK' /\ sent' = sent + 1
  <2>1. PICK cut, spared : B!Broadcast(cut, spared)
    BY DEF Publish
  <2>2. B!BTypeOK
    BY DEF IInv, TypeOK
  <2>3. B!BTypeOK'
    BY <2>1, <2>2, HubTypes
  <2> QED BY <2>1, <2>3 DEF B!Broadcast
<1>3. /\ events \in Seq(Event) /\ Len(events) \in Nat /\ Len(events) = sent
      /\ e \in Event /\ e.id = job[h].id /\ e.change = Change(h)
  BY DEF IInv, TypeOK, Change, Changes, Event
<1> HIDE DEF e
<1>4. /\ events' \in Seq(Event) /\ Len(events') = Len(events) + 1
      /\ events'[Len(events) + 1] = e /\ \A n \in 1..Len(events) : events'[n] = events[n]
  BY <1>1, <1>3
<1>5. call[h].phase = "idle"
  BY <1>1 DEF IInv, CallInv
<1>6. TypeOK'
  <2>1. R!CTypeOK'
    BY <1>1 DEF IInv, TypeOK, R!CTypeOK, registry
  <2> QED BY <1>1, <1>2, <1>4, <2>1 DEF IInv, TypeOK, lookup, socket,
              observer
<1>7. CallInv'
  BY <1>1 DEF IInv, CallInv, registry
<1>8. BoundInv'
  <2>1. Underway' = Underway
    BY <1>1 DEF Underway, registry
  <2> QED BY <1>1, <2>1 DEF IInv, BoundInv
<1>9. Unannounced' = Unannounced \ {h} /\ h \in Unannounced
  BY <1>1, <1>5 DEF Unannounced, registry, IInv, TypeOK
<1>10. EventInv'
  <2>1. IsFiniteSet(Unannounced')
    BY <1>9, FS_RemoveElement DEF IInv, EventInv
  <2>2. ASSUME NEW i \in Ids, NEW ch \in Changes
        PROVE  Cardinality(Places(commits', i, ch))
                 = Cardinality(Places(events', i, ch)) + Cardinality(ToSay(i, ch)')
    <3>1. IsFiniteSet(ToSay(i, ch)) /\ Cardinality(ToSay(i, ch)) \in Nat
      <4>1. ToSay(i, ch) \in SUBSET Unannounced
        BY DEF ToSay
      <4> QED BY <4>1, FS_Subset, FS_CardinalityType DEF IInv, EventInv
    <3>2. /\ ToSay(i, ch)' = ToSay(i, ch) \ {h}
          /\ h \in ToSay(i, ch) <=> e.id = i /\ e.change = ch
      BY <1>1, <1>3, <1>9 DEF ToSay, Change, lookup
    <3>3. Cardinality(ToSay(i, ch)') = IF e.id = i /\ e.change = ch
                                       THEN Cardinality(ToSay(i, ch)) - 1
                                       ELSE Cardinality(ToSay(i, ch))
      BY <3>1, <3>2, FS_RemoveElement
    <3>4. /\ Cardinality(Places(events, i, ch)) \in Nat
          /\ IF e.id = i /\ e.change = ch
             THEN Cardinality(Places(events', i, ch))
                       = Cardinality(Places(events, i, ch)) + 1
             ELSE Places(events', i, ch) = Places(events, i, ch)
      BY <1>1, <1>3, PlacesOfAppend
    <3>5. Cardinality(Places(commits, i, ch))
            = Cardinality(Places(events, i, ch)) + Cardinality(ToSay(i, ch))
      BY DEF IInv, EventInv, EveryCommitHasItsEvent
    <3>6. commits' = commits
      BY <1>1
    <3>7. CASE e.id = i /\ e.change = ch
      BY <3>1, <3>3, <3>4, <3>5, <3>6
    <3>8. CASE ~(e.id = i /\ e.change = ch)
      BY <3>3, <3>4, <3>5, <3>6, <3>8
    <3> QED BY <3>7, <3>8
  <2> QED BY <2>1, <2>2 DEF EventInv, EveryCommitHasItsEvent
<1>11. RegInv'
  <2>1. LookedUp' = LookedUp
    BY <1>1 DEF LookedUp, registry
  <2> QED BY <1>1, <2>1, SameLog DEF IInv, RegInv, registry, lookup
<1>12. LabelsAreRight'
  BY <1>1, SameLog
<1>13. SnapInv'
  <2> SUFFICES ASSUME NEW c \in Clients
               PROVE  /\ snapAt'[c] <= Len(events')
                      /\ Changed(c)' \subseteq Accounted(c)' \cup Pending'
    BY DEF SnapInv
  <2>1. snapAt[c] \in Nat /\ snapAt[c] <= Len(events) /\ snapAt' = snapAt
    BY <1>1 DEF IInv, SnapInv, TypeOK, socket
  <2>2. Pending \subseteq Pending' \cup {e.id}
    BY <1>1, <1>3, <1>9 DEF Pending
  <2>3. Accounted(c) \cup {e.id} \subseteq Accounted(c)'
    <3> DEFINE a == snapAt[c]
    <3>1. /\ Len(events) + 1 \in (a + 1)..Len(events')
          /\ \A n \in (a + 1)..Len(events) :
                n \in (a + 1)..Len(events') /\ events'[n] = events[n]
      <4> HIDE DEF a
      <4> QED BY <1>4, <2>1 DEF a
    <3> QED BY <1>4, <2>1 DEF Accounted
  <2>4. Changed(c)' = Changed(c)
    BY <1>1 DEF Changed, registry, socket
  <2>5. Changed(c) \subseteq Accounted(c) \cup Pending
    BY DEF IInv, SnapInv
  <2> QED BY <1>4, <2>1, <2>2, <2>3, <2>4, <2>5
<1> QED BY <1>6, <1>7, <1>8, <1>10, <1>11, <1>12, <1>13 DEF IInv
-----------------------------------------------------------------------------
(* The clients.                                                            *)

\* The snapshot is the registry as it is.
LEMMA ReadSnapshotKeeps ==
    ASSUME IInv, NEW c \in Clients, ReadSnapshot(c)
    PROVE  IInv'
<1>1. /\ ws' = [ws EXCEPT ![c] = "read"] /\ R!ReadIds(Ids)
      /\ snapshot' = [snapshot EXCEPT ![c] = view']
      /\ snapAt' = [snapAt EXCEPT ![c] = Len(events)]
      /\ UNCHANGED <<hub, handler, history, observer>>
  BY DEF ReadSnapshot, Step
<1>2. /\ R!CTypeOK' /\ UNCHANGED <<reg, survivors, call, up>>
      /\ view' = [i \in Ids |-> reg[i]] /\ view' \in R!Registry
  BY <1>1, ReadTypes DEF IInv, TypeOK, R!Registry
<1>3. Len(events) \in 0..MaxRequests
  BY DEF IInv, TypeOK, B!BTypeOK
<1>4. TypeOK'
  <2>1. B!BTypeOK'
    BY <1>1 DEF IInv, TypeOK, B!BTypeOK, hub
  <2> QED BY <1>1, <1>2, <1>3, <2>1 DEF IInv, TypeOK, hub, handler, lookup,
              history, observer
<1>5. CallInv' /\ BoundInv' /\ EventInv' /\ RegInv' /\ LabelsAreRight' /\ Pending' = Pending
  BY <1>1, <1>2, ClientsOnly
<1>6. SnapInv'
  <2> SUFFICES ASSUME NEW d \in Clients
               PROVE  /\ snapAt'[d] <= Len(events')
                      /\ Changed(d)' \subseteq Accounted(d)' \cup Pending'
    BY DEF SnapInv
  <2>1. UNCHANGED <<reg, events>>
    BY <1>1, <1>2 DEF history
  <2>2. CASE d = c
    <3>1. Changed(d)' = {}
      BY <1>1, <1>2, <2>2 DEF Changed, IInv, TypeOK
    <3>2. snapAt'[d] = Len(events)
      BY <1>1, <2>2 DEF IInv, TypeOK
    <3> QED BY <2>1, <3>1, <3>2
  <2>3. CASE d # c
    <3>1. snapAt'[d] = snapAt[d] /\ snapshot'[d] = snapshot[d]
      BY <1>1, <2>3
    <3>2. Changed(d)' = Changed(d) /\ Accounted(d)' = Accounted(d)
      BY <2>1, <3>1 DEF Changed, Accounted
    <3> QED BY <1>5, <2>1, <3>1, <3>2 DEF IInv, SnapInv
  <2> QED BY <2>2, <2>3
<1> QED BY <1>4, <1>5, <1>6 DEF IInv

\* The other steps of a connection, and the reads of its observer.
LEMMA ConnectionKeeps ==
    ASSUME IInv, NEW c \in Clients,
           \/ Accept(c) \/ WriteSnapshot(c) \/ WriteSnapshotFails(c) \/ HandOff(c)
           \/ Deliver(c) \/ Disconnect(c) \/ Refetch(c)
    PROVE  IInv'
<1>1. UNCHANGED <<handler, history, snapshot, snapAt>>
  BY DEF Accept, WriteSnapshot, WriteSnapshotFails, HandOff, Deliver,
      Disconnect, Refetch, socket
<1>2. R!CTypeOK /\ B!BTypeOK
  BY DEF IInv, TypeOK
<1>3. R!CTypeOK' /\ UNCHANGED <<reg, call, up>>
  <2>1. CASE UNCHANGED registry
    BY <1>2, <2>1 DEF R!CTypeOK, registry
  <2>2. CASE R!ReadIds(Ids)
    BY <1>2, <2>2, ReadTypes
  <2> QED BY <2>1, <2>2 DEF Accept, WriteSnapshot, WriteSnapshotFails,
              HandOff, Deliver, Disconnect, Refetch
<1>4. B!BTypeOK' /\ sent' = sent
  <2>1. CASE UNCHANGED hub
    BY <1>2, <2>1 DEF B!BTypeOK, hub
  <2>2. CASE B!Join(c) \/ B!Leave(c) \/ B!Deliver(c)
    BY <1>2, <2>2, HubTypes DEF B!Join, B!Leave, B!Deliver
  <2> QED BY <2>1, <2>2 DEF Accept, WriteSnapshot, WriteSnapshotFails,
              HandOff, Deliver, Disconnect, Refetch
<1>5. ws' \in [Clients -> {"none", "accepted", "read", "written", "served", "over"}]
  BY DEF Accept, WriteSnapshot, WriteSnapshotFails, HandOff, Deliver,
      Disconnect, Refetch, Step, socket, IInv, TypeOK
<1>6. state' \in [Clients -> R!Registry] /\ refetch' \in [Clients -> BOOLEAN]
  <2>1. CASE WriteSnapshot(c)
    BY <2>1 DEF WriteSnapshot, IInv, TypeOK
  <2>2. CASE Refetch(c)
    <3>1. view' \in R!Registry
      BY <1>2, <2>2, ReadTypes DEF Refetch, R!Registry
    <3> QED BY <2>2, <3>1 DEF Refetch, IInv, TypeOK
  <2>3. CASE Deliver(c)
    BY <2>3 DEF Deliver, IInv, TypeOK
  <2>4. CASE UNCHANGED observer
    BY <2>4 DEF observer, IInv, TypeOK
  <2> QED BY <2>1, <2>2, <2>3, <2>4 DEF Accept, WriteSnapshotFails, HandOff,
              Disconnect
<1>7. TypeOK'
  BY <1>1, <1>3, <1>4, <1>5, <1>6 DEF IInv, TypeOK, handler, lookup, history
<1>8. CallInv' /\ BoundInv' /\ EventInv' /\ RegInv' /\ LabelsAreRight' /\ Pending' = Pending
  BY <1>1, <1>3, ClientsOnly
<1>9. SnapInv'
  BY <1>1, <1>3, <1>8, SameSnapshots DEF history
<1> QED BY <1>7, <1>8, <1>9 DEF IInv
-----------------------------------------------------------------------------
\* No request, no event and no client: the invariant holds at the start.
LEMMA InitIInv == Init => IInv
<1> SUFFICES ASSUME Init PROVE IInv
  OBVIOUS
<1>1. R!CTypeOK
  <2>1. R!NoManifests \in R!Registry
    BY DEF R!NoManifests, R!Registry
  <2>2. R!NoManifests \in [Ids -> Manifests \cup {Absent}]
    BY DEF R!NoManifests
  <2> QED BY <2>1, <2>2 DEF Init, R!CInit, R!CTypeOK, R!Calls, R!Answers
<1>2. B!BTypeOK
  BY BrokerAssumption DEF Init, B!BInit, B!BTypeOK
<1>3. /\ events = <<>> /\ commits = <<>> /\ requests = 0 /\ sent = 0
      /\ stage = [h \in Handlers |-> "idle"] /\ \A h \in Handlers : call[h].phase = "idle"
      /\ up /\ reg = R!NoManifests /\ snapshot = [c \in Clients |-> R!NoManifests]
  BY DEF Init, R!CInit, B!BInit
<1>4. TypeOK
  <2>1. R!NoManifests \in R!Registry
    BY DEF R!NoManifests, R!Registry
  <2>2. 0 \in 0..MaxRequests
    BY BrokerAssumption
  <2> HIDE DEF Changes
  <2> QED BY <1>1, <1>2, <1>3, <2>1, <2>2 DEF Init, TypeOK
<1>5. CallInv
  BY <1>3 DEF CallInv
<1>6. Underway = {} /\ Unannounced = {} /\ LookedUp = {}
  BY <1>3 DEF Underway, Unannounced, LookedUp
<1>7. BoundInv
  BY <1>3, <1>6, FS_EmptySet DEF BoundInv
<1>8. EventInv
  <2>1. \A i, ch : /\ ToSay(i, ch) = {}
                   /\ Places(commits, i, ch) = {} /\ Places(events, i, ch) = {}
    BY <1>3, <1>6 DEF ToSay, Places
  <2> QED BY <1>6, <2>1, FS_EmptySet DEF EventInv, EveryCommitHasItsEvent
<1>9. RegInv
  <2>1. \A i : ~There(i, Len(commits))
    BY <1>3 DEF There
  <2> QED BY <1>3, <1>6, <2>1 DEF RegInv, Init, R!NoManifests
<1>10. LabelsAreRight
  BY <1>3 DEF LabelsAreRight
<1>11. SnapInv
  BY <1>3 DEF SnapInv, Changed, Init
<1> QED BY <1>4, <1>5, <1>7, <1>8, <1>9, <1>10, <1>11 DEF IInv

\* The invariant is inductive: one lemma for each action above.
LEMMA StepIInv == IInv /\ [Next]_vars => IInv'
<1> SUFFICES ASSUME IInv, [Next]_vars PROVE IInv'
  OBVIOUS
<1>1. ASSUME NEW h \in Handlers, NEW i \in Ids, NEW b \in Manifests \cup {Absent},
             Receive(h, i, b)
      PROVE  IInv'
  BY <1>1, ReceiveKeeps
<1>2. ASSUME NEW h \in Handlers, Handle(h) PROVE IInv'
  BY <1>2, LookUpKeeps, CallStoreKeeps, StoreCommitsKeeps, StoreReturnsKeeps,
      PublishKeeps DEF Handle
<1>3. ASSUME NEW c \in Clients, Serve(c) \/ Deliver(c) \/ Disconnect(c) \/ Refetch(c)
      PROVE  IInv'
  BY <1>3, ReadSnapshotKeeps, ConnectionKeeps DEF Serve
<1>4. CASE UNCHANGED vars
  <2>1. /\ CallInv' /\ BoundInv' /\ EventInv' /\ RegInv'
        /\ LabelsAreRight' /\ Pending' = Pending
    BY <1>4, ClientsOnly DEF vars, registry
  <2>2. SnapInv'
    BY <1>4, <2>1, SameSnapshots DEF vars, registry, history, socket
  <2>3. TypeOK'
    BY <1>4 DEF IInv, TypeOK, R!CTypeOK, B!BTypeOK, vars, registry, hub,
        handler, lookup, history, socket, observer
  <2> QED BY <2>1, <2>2, <2>3 DEF IInv
<1> QED BY <1>1, <1>2, <1>3, <1>4 DEF Next

\* The inductive invariant holds in every state of the handlers, the registry
\* and the hub.
THEOREM Invariance == Spec => []IInv
BY InitIInv, StepIInv, PTL DEF Spec

\* Every variable keeps its type, those of the two contracts included.
THEOREM TypeCorrect == Spec => []TypeOK
<1>1. IInv => TypeOK
  BY DEF IInv
<1> QED BY <1>1, Invariance, PTL

\* handlers_registry.go: one event for every mutation that took effect, with
\* its label, and none for one that did not.
THEOREM NoPhantomNoLoss == Spec => []EveryCommitHasItsEvent
<1>1. IInv => EveryCommitHasItsEvent
  BY DEF IInv, EventInv
<1> QED BY <1>1, Invariance, PTL

\* handlers_registry.go:49-53: ADDED or UPDATED is wrong only when another
\* mutation of the id came between the look-up and the effect.
THEOREM LabelsTell == Spec => []LabelsAreRight
<1>1. IInv => LabelsAreRight
  BY DEF IInv
<1> QED BY <1>1, Invariance, PTL

\* handlers_caps.go: what an observer cannot account for was published between
\* the read of its snapshot and its hand-off to the hub.
THEOREM OnlyTheWindow == Spec => []SnapshotThenEventsButWindow
<1>1. ASSUME IInv PROVE SnapshotThenEventsButWindow
  <2> SUFFICES ASSUME NEW c \in Clients
               PROVE  Changed(c) \subseteq Named(Stream(c)) \cup Pending
                                             \cup {events[n].id : n \in Window(c)}
    BY DEF SnapshotThenEventsButWindow
  <2> DEFINE q == got[c] \o due[c]
  <2>1. /\ Len(q) \in Nat /\ snapAt[c] \in Nat
    <3>1. q \in Seq(1..MaxRequests)
      BY <1>1 DEF IInv, TypeOK, B!BTypeOK
    <3>2. snapAt[c] \in Nat
      BY <1>1 DEF IInv, TypeOK
    <3> HIDE DEF q
    <3> QED BY <3>2
  <2>2. Stream(c) = [n \in 1..Len(q) |-> events[q[n]]]
    BY DEF Stream
  <2>3. Window(c) = {n \in 1..Len(events) : n > snapAt[c]} \ {q[k] : k \in 1..Len(q)}
    BY DEF Window
  <2> HIDE DEF q
  <2>4. ASSUME NEW k \in 1..Len(q) PROVE events[q[k]].id \in Named(Stream(c))
    <3>1. Len(Stream(c)) = Len(q) /\ Stream(c)[k] = events[q[k]]
      BY <2>2
    <3> QED BY <3>1 DEF Named
  <2>5. ASSUME NEW n \in (snapAt[c] + 1)..Len(events)
        PROVE  events[n].id \in Named(Stream(c)) \cup {events[m].id : m \in Window(c)}
    <3>1. n \in 1..Len(events) /\ n > snapAt[c]
      BY <2>1
    <3> QED BY <2>3, <2>4, <3>1
  <2>6. Changed(c) \subseteq Accounted(c) \cup Pending
    BY <1>1 DEF IInv, SnapInv
  <2> QED BY <2>5, <2>6 DEF Accounted
<1> QED BY <1>1, Invariance, PTL

\* The handlers use the Store and the hub as their contracts allow: what was
\* proved of the contracts' implementations is about these steps.
THEOREM WithinTheContracts == Spec => R!CSpec /\ B!BSpec
<1>1. Init => R!CInit /\ B!BInit
  BY DEF Init
<1>2. ASSUME TypeOK, [Next]_vars PROVE [R!CNext]_(R!cvars) /\ [B!BNext]_(B!bvars)
  <2>1. ASSUME NEW h \in Handlers, NEW i \in Ids, NEW b \in Manifests \cup {Absent},
               Receive(h, i, b)
        PROVE  UNCHANGED R!cvars /\ UNCHANGED B!bvars
    BY <2>1 DEF Receive, registry, hub, R!cvars, B!bvars
  <2>2. ASSUME NEW h \in Handlers, LookUp(h) PROVE R!CNext /\ UNCHANGED B!bvars
    BY <1>2, <2>2 DEF LookUp, hub, TypeOK, R!CNext, B!bvars
  <2>3. ASSUME NEW h \in Handlers, CallStore(h) PROVE R!CNext /\ UNCHANGED B!bvars
    BY <1>2, <2>3 DEF CallStore, hub, TypeOK, R!CNext, B!bvars
  <2>4. ASSUME NEW h \in Handlers, StoreCommits(h) \/ StoreReturns(h)
        PROVE  R!CNext /\ UNCHANGED B!bvars
    BY <2>4 DEF StoreCommits, StoreReturns, hub, R!CNext, B!bvars
  <2>5. ASSUME NEW h \in Handlers, Publish(h) PROVE UNCHANGED R!cvars /\ B!BNext
    BY <2>5 DEF Publish, registry, R!cvars, B!BNext
  <2>6. ASSUME NEW c \in Clients, ReadSnapshot(c) \/ Refetch(c)
        PROVE  R!CNext /\ UNCHANGED B!bvars
    BY <2>6 DEF ReadSnapshot, Refetch, hub, R!CNext, B!bvars
  <2>7. ASSUME NEW c \in Clients, Accept(c) \/ WriteSnapshot(c)
        PROVE  UNCHANGED R!cvars /\ UNCHANGED B!bvars
    BY <2>7 DEF Accept, WriteSnapshot, registry, hub, R!cvars, B!bvars
  <2>8. ASSUME NEW c \in Clients,
               WriteSnapshotFails(c) \/ HandOff(c) \/ Deliver(c) \/ Disconnect(c)
        PROVE  UNCHANGED R!cvars /\ B!BNext
    BY <2>8 DEF WriteSnapshotFails, HandOff, Deliver, Disconnect, registry,
        R!cvars, B!BNext
  <2>9. CASE UNCHANGED vars
    BY <2>9 DEF vars, registry, hub, R!cvars, B!bvars
  <2> QED BY <1>2, <2>1, <2>2, <2>3, <2>4, <2>5, <2>6, <2>7, <2>8, <2>9 DEF
              Next, Handle, Serve
<1> QED BY <1>1, <1>2, TypeCorrect, PTL DEF Spec, R!CSpec, B!BSpec
=============================================================================
