------------------------- MODULE CapabilityCacheProofs -------------------------
(***************************************************************************)
(* Proofs about CapabilityCache, for any number of calls, of changes of    *)
(* the registry and of attempts to connect.                                *)
(***************************************************************************)
EXTENDS CapabilityCache, SequenceTheorems, TLAPS

\* Until destroy there is one fetch at most, and inflightFetch is that one.
SingleFlight ==
    \A c \in Calls : ~destroyed /\ fetch[c] # "none" => inflight = {c}

\* Nothing held or answered is from the future, and the answer on its way is
\* at least as new as what is held.
AnswersAreNewer ==
    /\ capabilities <= version
    /\ \A c \in Calls :
         /\ reply[c] <= version
         /\ ~destroyed /\ fetch[c] = "answered" => capabilities <= reply[c]

Connected == socket \in {"connecting", "open"}

\* Without a listener there is neither socket nor timer, and until destroy none
\* has ever tried; one that is connected, or will try again, has attempts left.
ListenerInv ==
    /\ ~listener => socket = "none" /\ ~timer
    /\ ~listener /\ ~destroyed => attempt = 0
    /\ timer \/ Connected => attempt < MaxAttempts

FetchInv == SingleFlight /\ AnswersAreNewer
WsInv == ListenerInv /\ OneConnection /\ NothingAfterDestroy
IInv == TypeOK /\ FetchInv /\ WsInv

CallTypes ==
    /\ inflight \in SUBSET Calls
    /\ fetch \in [Calls -> {"none", "asked", "answered"}]
    /\ reply \in [Calls -> Versions]
    /\ state \in [Calls -> {"idle", "waiting", "ok", "rejected"}]
    /\ force \in [Calls -> BOOLEAN]
    /\ awaits \in [Calls -> Calls]
    /\ given \in [Calls -> Versions]

WsTypes ==
    /\ listener \in BOOLEAN
    /\ socket \in {"none", "connecting", "open", "closed"}
    /\ attempt \in 0..MaxAttempts
    /\ timer \in BOOLEAN /\ stopped \in BOOLEAN

-----------------------------------------------------------------------------
(* The fetch.                                                              *)

\* ensureCapabilities: whether it starts a fetch, joins one or needs none.
LEMMA EnsureKeeps ==
    ASSUME IInv, NEW c \in Calls, NEW f \in BOOLEAN, Ensure(c, f),
           UNCHANGED <<version, client>>
    PROVE  /\ CallTypes' /\ FetchInv'
           /\ destroyed => inflight' = inflight
<1> USE DEF IInv, FetchInv, SingleFlight, AnswersAreNewer, client, TypeOK
<1>1. CASE Refuse(c) \/ ReturnHeld(c, f)
  BY <1>1 DEF Ensure, Refuse, ReturnHeld, flight, CallTypes
<1>2. CASE ~destroyed /\ Fetch(c)
  <2>1. /\ inflight' = {c} /\ fetch' = [fetch EXCEPT ![c] = "asked"] /\ reply' = reply
        /\ inflight = {} /\ CallTypes'
    BY <1>2, CacheAssumption DEF Ensure, Fetch, StartFetch, CallTypes,
        Versions
  <2>2. \A d \in Calls : fetch[d] = "none"
    BY <1>2, <2>1
  <2> QED BY <1>2, <2>1
<1>3. ASSUME NEW l \in inflight, Join(c, l)
      PROVE  CallTypes' /\ FetchInv' /\ (destroyed => inflight' = inflight)
  BY <1>3, CacheAssumption DEF Ensure, Join, flight, CallTypes, Versions
<1> QED BY <1>1, <1>2, <1>3 DEF Ensure

\* Whatever l's fetch came to, it is over.
LEMMA SettleKeeps ==
    ASSUME IInv, NEW l \in Calls, NEW ok \in BOOLEAN, NEW v \in Versions, Settle(l, ok, v)
    PROVE  /\ CallTypes' /\ inflight' = {} /\ fetch' = [fetch EXCEPT ![l] = "none"]
           /\ reply' = [reply EXCEPT ![l] = 0]
<1> DEFINE Refreshes == {c \in Waiting(l) : ok /\ force[c]}
           Rejected == {c \in Waiting(l) : ~ok \/ (destroyed /\ ~force[c])}
<1>1. /\ inflight' = {} /\ fetch' = [fetch EXCEPT ![l] = "none"]
      /\ reply' = [reply EXCEPT ![l] = 0]
  BY DEF Settle
<1>2. /\ state' = [c \in Calls |-> IF c \notin Waiting(l) THEN state[c]
                        ELSE IF c \in Rejected THEN "rejected" ELSE "ok"]
      /\ given' = [c \in Calls |-> IF c \in Refreshes THEN v ELSE given[c]]
      /\ force' = [c \in Calls |-> force[c] /\ (c \in Waiting(l) => c \in Refreshes)]
      /\ awaits' = [c \in Calls |-> IF c \in Waiting(l) THEN c ELSE awaits[c]]
  BY DEF Settle
<1> HIDE DEF Refreshes, Rejected
<1>3. /\ state' \in [Calls -> {"idle", "waiting", "ok", "rejected"}]
      /\ given' \in [Calls -> Versions] /\ awaits' \in [Calls -> Calls]
  BY <1>2 DEF IInv, TypeOK
<1>4. force' \in [Calls -> BOOLEAN]
  BY <1>2
<1>5. /\ fetch' \in [Calls -> {"none", "asked", "answered"}]
      /\ reply' \in [Calls -> Versions]
  BY <1>1, CacheAssumption DEF IInv, TypeOK, Versions
<1> QED BY <1>1, <1>3, <1>4, <1>5 DEF CallTypes

\* A call of the application.
LEMMA CallKeeps ==
    ASSUME IInv, NEW c \in Calls, NEW f \in BOOLEAN, Call(c, f)
    PROVE  IInv'
<1>1. Ensure(c, f) /\ UNCHANGED <<server, client, ws>>
  BY DEF Call
<1>2. CallTypes' /\ FetchInv' /\ (destroyed => inflight' = inflight)
  BY <1>1, EnsureKeeps DEF server
<1>3. TypeOK'
  BY <1>1, <1>2 DEF IInv, server, client, ws, TypeOK, CallTypes
<1>4. WsInv'
  BY <1>1, <1>2 DEF IInv, WsInv, ListenerInv, Connected, OneConnection,
      NothingAfterDestroy, client, ws
<1> QED BY <1>2, <1>3, <1>4 DEF IInv

\* The refresh made for an event is a call like the others.
LEMMA UpdateArrivesKeeps ==
    ASSUME IInv, UpdateArrives
    PROVE  IInv'
<1>1. Head(inbox) \in Versions /\ Tail(inbox) \in Seq(Versions)
  BY DEF UpdateArrives, IInv, TypeOK
<1>2. /\ inbox' = Tail(inbox) /\ Ensure(Head(inbox), TRUE)
      /\ UNCHANGED <<version, served, client, ws>>
  BY DEF UpdateArrives
<1>3. CallTypes' /\ FetchInv' /\ (destroyed => inflight' = inflight)
  BY <1>1, <1>2, EnsureKeeps DEF Calls
<1>4. TypeOK'
  BY <1>1, <1>2, <1>3 DEF IInv, client, ws, TypeOK, CallTypes
<1>5. WsInv'
  BY <1>2, <1>3 DEF IInv, WsInv, ListenerInv, Connected, OneConnection,
      NothingAfterDestroy, client, ws
<1> QED BY <1>3, <1>4, <1>5 DEF IInv

\* The answer is read from the registry as it is then.
LEMMA ServerAnswersKeeps ==
    ASSUME IInv, NEW c \in Calls, ServerAnswers(c)
    PROVE  IInv'
<1>1. /\ fetch[c] = "asked" /\ fetch' = [fetch EXCEPT ![c] = "answered"]
      /\ reply' = [reply EXCEPT ![c] = version]
      /\ UNCHANGED <<server, client, calls, inflight, ws>>
  BY DEF ServerAnswers
<1>2. TypeOK'
  BY <1>1 DEF IInv, TypeOK, server, client, calls, ws
<1>3. FetchInv'
  BY <1>1 DEF IInv, TypeOK, FetchInv, SingleFlight, AnswersAreNewer, server,
      client, Versions
<1>4. WsInv'
  BY <1>1 DEF IInv, WsInv, ListenerInv, Connected, OneConnection,
      NothingAfterDestroy, client, ws
<1> QED BY <1>2, <1>3, <1>4 DEF IInv

\* The listener is started once, from nothing.
LEMMA StartKeeps ==
    ASSUME IInv, NEW h \in BOOLEAN, MaybeStartWsListener(h), UNCHANGED destroyed,
           destroyed => inflight' = {}
    PROVE  WsTypes' /\ WsInv'
<1> USE DEF IInv, WsInv, ListenerInv, Connected, OneConnection, NothingAfterDestroy, ws,
            WsTypes, TypeOK
<1>1. CASE h /\ ~listener /\ ~destroyed
  BY <1>1, CacheAssumption DEF MaybeStartWsListener, StartListener
<1>2. CASE ~(h /\ ~listener /\ ~destroyed)
  BY <1>2 DEF MaybeStartWsListener
<1> QED BY <1>1, <1>2

\* No other fetch can be out, so what is stored is the newest list there is.
LEMMA FetchSucceedsKeeps ==
    ASSUME IInv, NEW l \in Calls, FetchSucceeds(l)
    PROVE  IInv'
<1>1. /\ fetch[l] = "answered" /\ capabilities' = reply[l] /\ Settle(l, TRUE, reply[l])
      /\ UNCHANGED <<server, destroyed, aborted>> /\ reply[l] \in Versions
  BY DEF FetchSucceeds, IInv, TypeOK
<1>2. PICK h \in BOOLEAN : MaybeStartWsListener(h)
  BY DEF FetchSucceeds
<1>3. /\ CallTypes' /\ inflight' = {} /\ fetch' = [fetch EXCEPT ![l] = "none"]
      /\ reply' = [reply EXCEPT ![l] = 0]
  BY <1>1, SettleKeeps
<1>4. WsTypes' /\ WsInv'
  BY <1>1, <1>2, <1>3, StartKeeps
<1>5. TypeOK'
  BY <1>1, <1>3, <1>4 DEF IInv, server, TypeOK, CallTypes, WsTypes
<1>6. \A c \in Calls : c # l /\ fetch[c] # "none" => destroyed
  <2> SUFFICES ASSUME NEW c \in Calls, c # l, fetch[c] # "none", ~destroyed PROVE FALSE
    BY DEF TypeOK
  <2>1. inflight = {c} /\ inflight = {l}
    BY <1>1 DEF IInv, FetchInv, SingleFlight
  <2> QED BY <2>1
<1>7. SingleFlight'
  BY <1>1, <1>3, <1>6 DEF IInv, TypeOK, SingleFlight
<1>8. AnswersAreNewer'
  BY <1>1, <1>3, <1>6 DEF IInv, TypeOK, FetchInv, AnswersAreNewer, server,
      Versions
<1> QED BY <1>4, <1>5, <1>7, <1>8 DEF IInv, FetchInv

\* A failed fetch leaves the list as it is.
LEMMA FetchFailsKeeps ==
    ASSUME IInv, NEW l \in Calls, FetchFails(l)
    PROVE  IInv'
<1>1. fetch[l] # "none" /\ Settle(l, FALSE, 0) /\ UNCHANGED <<server, client, ws>>
  BY DEF FetchFails
<1>2. /\ CallTypes' /\ inflight' = {} /\ fetch' = [fetch EXCEPT ![l] = "none"]
      /\ reply' = [reply EXCEPT ![l] = 0]
  <2>1. 0 \in Versions /\ FALSE \in BOOLEAN
    BY CacheAssumption DEF Versions
  <2> QED BY <1>1, <2>1, SettleKeeps
<1>3. TypeOK'
  BY <1>1, <1>2 DEF IInv, server, client, ws, TypeOK, CallTypes
<1>4. WsInv'
  BY <1>1, <1>2 DEF IInv, WsInv, ListenerInv, Connected, OneConnection,
      NothingAfterDestroy, client, ws
<1>5. \A c \in Calls : c # l /\ fetch[c] # "none" => destroyed
  <2> SUFFICES ASSUME NEW c \in Calls, c # l, fetch[c] # "none", ~destroyed PROVE FALSE
    BY DEF TypeOK
  <2>1. inflight = {c} /\ inflight = {l}
    BY <1>1 DEF IInv, FetchInv, SingleFlight
  <2> QED BY <2>1
<1>6. SingleFlight'
  BY <1>1, <1>2, <1>5 DEF IInv, TypeOK, SingleFlight, client
<1>7. AnswersAreNewer'
  BY <1>1, <1>2 DEF IInv, TypeOK, FetchInv, AnswersAreNewer, server, client,
      Versions
<1> QED BY <1>3, <1>4, <1>6, <1>7 DEF IInv, FetchInv
-----------------------------------------------------------------------------
(* The listener and the server.                                            *)

\* Steps of the socket and its timer.
LEMMA SocketKeeps ==
    ASSUME IInv,
           SocketOpens \/ SocketCloses \/ TimerFires \/ ServerSnapshot \/ ServerSubscribes
    PROVE  IInv'
<1>1. UNCHANGED <<version, client, calls, flight>>
  BY DEF SocketOpens, SocketCloses, TimerFires, ServerSnapshot,
      ServerSubscribes, server
<1>2. FetchInv'
  BY <1>1 DEF IInv, FetchInv, SingleFlight, AnswersAreNewer, client, flight
<1>3. CallTypes'
  BY <1>1 DEF IInv, CallTypes, calls, flight, TypeOK
<1>4. inbox' \in Seq(Versions) /\ served' \in {"no", "snapshot", "yes"}
  <2>1. <<>> \in Seq(Versions) /\ <<0>> \in Seq(Versions)
    BY CacheAssumption DEF Versions
  <2> QED BY <2>1 DEF SocketOpens, SocketCloses, TimerFires, ServerSnapshot,
              ServerSubscribes, server, IInv, TypeOK
<1>5. WsTypes' /\ WsInv'
  <2> USE DEF IInv, TypeOK, WsInv, ListenerInv, Connected, OneConnection,
              NothingAfterDestroy, WsTypes
  <2>1. CASE SocketOpens
    BY <2>1, CacheAssumption DEF SocketOpens, client
  <2>2. CASE SocketCloses
    BY <2>2, CacheAssumption DEF SocketCloses, client
  <2>3. CASE TimerFires
    <3>1. /\ timer /\ ~timer' /\ (socket' = socket \/ socket' = "connecting")
          /\ UNCHANGED <<listener, attempt, stopped, destroyed, inflight>>
          /\ timer' \in BOOLEAN
      BY <2>3 DEF TimerFires, client, flight
    <3>2. listener /\ attempt < MaxAttempts /\ ~destroyed
      BY <3>1
    <3> QED BY <3>1
  <2>4. CASE ServerSnapshot \/ ServerSubscribes
    BY <2>4 DEF ServerSnapshot, ServerSubscribes, ws, client, flight
  <2> QED BY <2>1, <2>2, <2>3, <2>4
<1>6. TypeOK'
  BY <1>1, <1>3, <1>4, <1>5 DEF IInv, client, TypeOK, CallTypes, WsTypes
<1> QED BY <1>2, <1>5, <1>6 DEF IInv

\* The registry gets newer than all that was answered.
LEMMA RegistryChangesKeeps ==
    ASSUME IInv, RegistryChanges
    PROVE  IInv'
<1>1. /\ version < MaxChanges /\ version' = version + 1
      /\ inbox' = IF served = "yes" THEN Append(inbox, version + 1) ELSE inbox
      /\ UNCHANGED <<served, client, calls, flight, ws>>
  BY DEF RegistryChanges
<1>2. version + 1 \in Versions /\ inbox' \in Seq(Versions)
  <2>1. version + 1 \in Versions
    BY <1>1, CacheAssumption DEF IInv, TypeOK, Versions
  <2>2. inbox \in Seq(Versions)
    BY DEF IInv, TypeOK
  <2> QED BY <1>1, <2>1, <2>2
<1>3. TypeOK'
  BY <1>1, <1>2 DEF IInv, client, calls, flight, ws, TypeOK
<1>4. FetchInv'
  BY <1>1 DEF IInv, TypeOK, FetchInv, SingleFlight, AnswersAreNewer, client,
      flight, Versions
<1>5. WsInv'
  BY <1>1 DEF IInv, WsInv, ListenerInv, Connected, OneConnection,
      NothingAfterDestroy, client, flight, ws
<1> QED BY <1>3, <1>4, <1>5 DEF IInv

\* destroy stops the listener and forgets the fetch.
LEMMA DestroyKeeps ==
    ASSUME IInv, Destroy
    PROVE  IInv'
<1>1. /\ destroyed' = TRUE /\ aborted' = TRUE /\ capabilities' = 0 /\ inflight' = {}
      /\ listener' = FALSE /\ UNCHANGED <<version, calls, fetch, reply, attempt>>
      /\ IF listener
         THEN /\ stopped' = TRUE /\ timer' = FALSE /\ socket' = "none"
              /\ served' = "no" /\ inbox' = <<>>
         ELSE UNCHANGED <<stopped, timer, socket, served, inbox>>
  BY DEF Destroy, TearDown
<1>2. 0 \in Versions /\ <<>> \in Seq(Versions)
  BY CacheAssumption DEF Versions
<1>3. CallTypes' /\ WsTypes'
  BY <1>1 DEF IInv, CallTypes, WsTypes, calls, TypeOK
<1>4. TypeOK'
  BY <1>1, <1>2, <1>3 DEF IInv, TypeOK, CallTypes
<1>5. FetchInv'
  BY <1>1 DEF IInv, TypeOK, FetchInv, SingleFlight, AnswersAreNewer, Versions
<1>6. WsInv'
  BY <1>1 DEF IInv, WsInv, ListenerInv, Connected, OneConnection,
      NothingAfterDestroy
<1> QED BY <1>4, <1>5, <1>6 DEF IInv
-----------------------------------------------------------------------------
\* No call was made and no listener started.
LEMMA InitIInv == Init => IInv
<1> SUFFICES ASSUME Init PROVE IInv
  OBVIOUS
<1>1. 0 \in Versions /\ <<>> \in Seq(Versions)
  BY CacheAssumption DEF Versions
<1>2. TypeOK
  <2>1. 0 \in 0..MaxAttempts
    BY CacheAssumption
  <2>2. [c \in Calls |-> c] \in [Calls -> Calls]
    OBVIOUS
  <2> HIDE DEF Calls
  <2> QED BY <1>1, <2>1 DEF Init, TypeOK
<1> QED BY <1>2, CacheAssumption DEF Init, IInv, FetchInv, SingleFlight,
            AnswersAreNewer, WsInv, ListenerInv, OneConnection,
            NothingAfterDestroy

\* No step of the client, the browser or the server breaks the invariant.
LEMMA StepIInv == IInv /\ [Next]_vars => IInv'
<1> SUFFICES ASSUME IInv, [Next]_vars PROVE IInv'
  OBVIOUS
<1>1. ASSUME NEW c \in Calls, NEW f \in BOOLEAN, Call(c, f) PROVE IInv'
  BY <1>1, CallKeeps
<1>2. ASSUME NEW c \in Calls, ServerAnswers(c) \/ FetchSucceeds(c) \/ FetchFails(c)
      PROVE  IInv'
  BY <1>2, ServerAnswersKeeps, FetchSucceedsKeeps, FetchFailsKeeps
<1>3. CASE \/ SocketOpens \/ SocketCloses \/ TimerFires \/ UpdateArrives
           \/ ServerSnapshot \/ ServerSubscribes \/ RegistryChanges \/ Destroy
  BY <1>3, SocketKeeps, UpdateArrivesKeeps, RegistryChangesKeeps,
      DestroyKeeps
<1>4. CASE UNCHANGED vars
  <2>1. TypeOK'
    BY <1>4 DEF IInv, vars, server, client, calls, flight, ws, TypeOK
  <2> QED BY <1>4, <2>1 DEF IInv, FetchInv, SingleFlight, AnswersAreNewer,
              WsInv, ListenerInv, Connected, OneConnection,
              NothingAfterDestroy, vars, server, client, flight, ws
<1> QED BY <1>1, <1>2, <1>3, <1>4 DEF Next

\* The inductive invariant holds in every state of the client and its server.
THEOREM Invariance == Spec => []IInv
BY InitIInv, StepIInv, PTL DEF Spec

\* Every variable keeps its type; attempt never passes maxAttempts.
THEOREM TypeCorrect == Spec => []TypeOK
<1>1. IInv => TypeOK
  BY DEF IInv
<1> QED BY <1>1, Invariance, PTL

\* ws-listener.ts: no second connection beside one that is there or coming.
THEOREM OneAtATime == Spec => []OneConnection
<1>1. IInv => OneConnection
  BY DEF IInv, WsInv
<1> QED BY <1>1, Invariance, PTL

\* client.ts, destroy: what comes late brings nothing back.
THEOREM StaysDestroyed == Spec => []NothingAfterDestroy
<1>1. IInv => NothingAfterDestroy
  BY DEF IInv, WsInv
<1> QED BY <1>1, Invariance, PTL

\* client.ts, inflightFetch: two fetches never overtake each other, so no list
\* gives way to an older one.
THEOREM NeverGoesBack == Spec => ListNeverGoesBack
<1>1. ASSUME IInv, [Next]_vars PROVE capabilities' < capabilities => destroyed'
  <2> SUFFICES ASSUME capabilities' < capabilities PROVE destroyed'
    OBVIOUS
  <2>1. capabilities \in Nat /\ capabilities' # capabilities
    BY <1>1 DEF IInv, TypeOK, Versions
  <2>2. CASE Destroy
    BY <2>2 DEF Destroy, TearDown
  <2>3. ASSUME NEW l \in Calls, FetchSucceeds(l), ~destroyed PROVE FALSE
    <3>1. fetch[l] = "answered" /\ capabilities' = reply[l] /\ reply[l] \in Versions
      BY <1>1, <2>3 DEF FetchSucceeds, IInv, TypeOK
    <3>2. capabilities <= reply[l]
      BY <1>1, <2>3, <3>1 DEF IInv, FetchInv, AnswersAreNewer
    <3> QED BY <2>1, <3>1, <3>2 DEF Versions
  <2>4. ASSUME NEW l \in Calls, FetchSucceeds(l) PROVE destroyed'
    BY <2>3, <2>4 DEF FetchSucceeds
  <2>5. ASSUME NEW c \in Calls, NEW f \in BOOLEAN, Call(c, f) PROVE FALSE
    BY <2>1, <2>5 DEF Call, client
  <2>6. ASSUME NEW c \in Calls, ServerAnswers(c) \/ FetchFails(c) PROVE FALSE
    BY <2>1, <2>6 DEF ServerAnswers, FetchFails, client
  <2>7. CASE \/ SocketOpens \/ SocketCloses \/ TimerFires \/ UpdateArrives
             \/ ServerSnapshot \/ ServerSubscribes \/ RegistryChanges \/ UNCHANGED vars
    BY <2>1, <2>7 DEF SocketOpens, SocketCloses, TimerFires, UpdateArrives,
        ServerSnapshot, ServerSubscribes, RegistryChanges, client, vars
  <2> QED BY <1>1, <2>2, <2>4, <2>5, <2>6, <2>7 DEF Next
<1> QED BY <1>1, Invariance, PTL DEF Spec, ListNeverGoesBack
-----------------------------------------------------------------------------
(* The refreshes that update events make.                                  *)

Refreshes == Versions \ AppCalls

\* No event announces what has not happened, nor does a refresh wait for it; and
\* the fetch a refresh starts itself is answered with what its event announced.
InboxInv == \A k \in 1..Len(inbox) : inbox[k] <= version
RefreshInv ==
    \A n \in Refreshes :
        /\ state[n] = "waiting" => force[n] /\ n <= version
        /\ fetch[n] # "none" => n <= version
        /\ fetch[n] = "answered" => n <= reply[n]
FreshInv == InboxInv /\ RefreshInv

\* ensureCapabilities, called by the application or for an event.
LEMMA EnsureFresh ==
    ASSUME IInv, RefreshInv, NEW c \in Calls, NEW f \in BOOLEAN, Ensure(c, f),
           UNCHANGED version, c \in Refreshes => f /\ c <= version
    PROVE  RefreshInv'
<1> USE DEF IInv, TypeOK, RefreshInv
<1>1. force' = [force EXCEPT ![c] = f]
  BY DEF Ensure
<1>2. Refreshes \subseteq Calls
  BY DEF Refreshes, Calls
<1>3. CASE Refuse(c) \/ ReturnHeld(c, f)
  BY <1>1, <1>2, <1>3 DEF Refuse, ReturnHeld, flight
<1>4. CASE Fetch(c)
  BY <1>1, <1>2, <1>4 DEF Fetch, StartFetch
<1>5. ASSUME NEW l \in inflight, Join(c, l) PROVE RefreshInv'
  BY <1>1, <1>2, <1>5 DEF Join, flight
<1> QED BY <1>3, <1>4, <1>5 DEF Ensure

\* A fetch that is over leaves nobody waiting for it, and the others as they are.
LEMMA SettleFresh ==
    ASSUME IInv, RefreshInv, NEW l \in Calls, NEW ok \in BOOLEAN, NEW v,
           Settle(l, ok, v), UNCHANGED version
    PROVE  RefreshInv'
<1> USE DEF IInv, TypeOK
<1>1. Refreshes \subseteq Calls
  BY DEF Refreshes, Calls
<1>2. /\ fetch' = [fetch EXCEPT ![l] = "none"] /\ reply' = [reply EXCEPT ![l] = 0]
      /\ \A n \in Calls : state'[n] = "waiting" =>
           n \notin Waiting(l) /\ state[n] = "waiting" /\ force'[n] = force[n]
  BY DEF Settle
<1> QED BY <1>1, <1>2 DEF RefreshInv

\* The empty inbox, and nobody waits.
LEMMA InitFresh == Init => FreshInv
BY DEF Init, FreshInv, InboxInv, RefreshInv, Refreshes, Calls

\* Events are made when the registry changes, answers read it as it is then.
LEMMA StepFresh == IInv /\ FreshInv /\ [Next]_vars => FreshInv'
<1> SUFFICES ASSUME IInv, FreshInv, [Next]_vars PROVE FreshInv'
  OBVIOUS
<1>1. /\ inbox \in Seq(Versions) /\ version \in Nat /\ Versions \subseteq Nat
      /\ Refreshes \subseteq Calls
  BY DEF IInv, TypeOK, Versions, Refreshes, Calls
<1>2. ASSUME NEW c \in Calls, NEW f \in BOOLEAN, Call(c, f) PROVE FreshInv'
  <2>1. Ensure(c, f) /\ UNCHANGED <<version, inbox>> /\ c \notin Refreshes
    BY <1>2 DEF Call, server, Refreshes
  <2> QED BY <2>1, EnsureFresh DEF FreshInv, InboxInv
<1>3. CASE UpdateArrives
  <2>1. /\ inbox # <<>> /\ inbox' = Tail(inbox) /\ UNCHANGED version
        /\ Ensure(Head(inbox), TRUE)
    BY <1>3 DEF UpdateArrives
  <2>2. Head(inbox) \in Versions /\ Head(inbox) <= version
    BY <1>1, <2>1 DEF FreshInv, InboxInv
  <2>3. InboxInv'
    BY <1>1, <2>1 DEF FreshInv, InboxInv
  <2> QED BY <2>1, <2>2, <2>3, EnsureFresh DEF FreshInv, Calls
<1>4. ASSUME NEW c \in Calls, ServerAnswers(c) PROVE FreshInv'
  BY <1>1, <1>4 DEF ServerAnswers, FreshInv, InboxInv, RefreshInv, server, calls, IInv,
      TypeOK
<1>5. ASSUME NEW c \in Calls, FetchSucceeds(c) PROVE FreshInv'
  BY <1>5, SettleFresh DEF FetchSucceeds, FreshInv, InboxInv, server
<1>6. ASSUME NEW c \in Calls, FetchFails(c) PROVE FreshInv'
  BY <1>6, SettleFresh DEF FetchFails, FreshInv, InboxInv, server
<1>7. CASE SocketOpens \/ SocketCloses \/ TimerFires \/ ServerSnapshot \/ ServerSubscribes
  <2>1. UNCHANGED <<version, calls, flight>>
        /\ (inbox' = inbox \/ inbox' = <<>> \/ inbox' = <<0>>)
    BY <1>7 DEF SocketOpens, SocketCloses, TimerFires, ServerSnapshot, ServerSubscribes,
        server
  <2>2. InboxInv'
    BY <1>1, <2>1 DEF FreshInv, InboxInv
  <2> QED BY <2>1, <2>2 DEF FreshInv, RefreshInv, calls, flight
<1>8. CASE RegistryChanges
  <2>1. version' = version + 1 /\ UNCHANGED <<calls, flight>>
    BY <1>8 DEF RegistryChanges
  <2>2. \A n \in Nat : n <= version => n <= version'
    BY <1>1, <2>1
  <2>3. InboxInv'
    <3>1. \A k \in 1..Len(inbox) : inbox[k] \in Nat /\ inbox[k] <= version
      <4>1. \A k \in 1..Len(inbox) : inbox[k] \in Versions
        BY <1>1
      <4> QED BY <1>1, <4>1 DEF FreshInv, InboxInv
    <3>2. CASE inbox' = inbox
      BY <2>2, <3>1, <3>2 DEF InboxInv
    <3>3. CASE inbox' = Append(inbox, version + 1)
      BY <1>1, <2>1, <2>2, <3>1, <3>3 DEF InboxInv
    <3> QED BY <1>8, <3>2, <3>3 DEF RegistryChanges
  <2>4. RefreshInv'
    <3>1. Refreshes \subseteq Nat
      BY <1>1 DEF Refreshes
    <3> QED BY <2>1, <2>2, <3>1 DEF FreshInv, RefreshInv, calls, flight
  <2> QED BY <2>3, <2>4 DEF FreshInv
<1>9. CASE Destroy
  BY <1>9 DEF Destroy, TearDown, FreshInv, InboxInv, RefreshInv, calls
<1>10. CASE UNCHANGED vars
  BY <1>10 DEF vars, server, calls, flight, FreshInv, InboxInv, RefreshInv
<1> QED BY <1>2, <1>3, <1>4, <1>5, <1>6, <1>7, <1>8, <1>9, <1>10 DEF Next

\* What is kept of UpdateIsFetched: the refresh for update n gets the list of the
\* answer it waits for.  If it started that fetch itself, or joined one that was
\* not answered yet, that list has the update; an older one comes only from a fetch
\* that was answered before it was joined.
OnlyAnsweredBefore ==
    [][\A n \in Refreshes : state[n] = "waiting" =>
         LET l == awaits[n]
         IN  /\ state'[n] = "ok" => given'[n] = reply[l] /\ (l = n => n <= given'[n])
             /\ fetch[l] = "asked" /\ fetch'[l] = "answered" => n <= reply'[l]]_vars

\* client.ts:143, inflightFetch: joining is the only way to miss an update.
THEOREM JoinsMiss == Spec => OnlyAnsweredBefore
<1> DEFINE Fresh(n) ==
             /\ state'[n] = "ok" => /\ given'[n] = reply[awaits[n]]
                                    /\ awaits[n] = n => n <= given'[n]
             /\ fetch[awaits[n]] = "asked" /\ fetch'[awaits[n]] = "answered"
                  => n <= reply'[awaits[n]]
<1>1. ASSUME IInv, FreshInv, [Next]_vars, NEW n \in Refreshes, state[n] = "waiting"
      PROVE  Fresh(n)
  <2>1. /\ n \in Calls /\ awaits[n] \in Calls /\ n \in Nat /\ version \in Nat
        /\ force[n] /\ n <= version
        /\ fetch[n] = "answered" => n <= reply[n]
        /\ state \in [Calls -> {"idle", "waiting", "ok", "rejected"}]
        /\ fetch \in [Calls -> {"none", "asked", "answered"}]
        /\ reply \in [Calls -> Versions]
    <3>1. n \in Versions /\ n \in Calls /\ n \in Nat
      BY DEF Refreshes, Calls, Versions
    <3>2. /\ version \in Nat /\ awaits[n] \in Calls
          /\ state \in [Calls -> {"idle", "waiting", "ok", "rejected"}]
          /\ fetch \in [Calls -> {"none", "asked", "answered"}]
          /\ reply \in [Calls -> Versions]
      <4>1. version \in Versions => version \in Nat
        BY DEF Versions
      <4> QED BY <1>1, <3>1, <4>1 DEF IInv, TypeOK
    <3>3. force[n] /\ n <= version /\ (fetch[n] = "answered" => n <= reply[n])
      BY <1>1 DEF FreshInv, RefreshInv
    <3> QED BY <3>1, <3>2, <3>3
  <2>2. ASSUME NEW c \in Calls, NEW f \in BOOLEAN, Ensure(c, f), c = n => f
        PROVE  Fresh(n)
    <3>1. \/ state' = [state EXCEPT ![c] = "rejected"]
          \/ state' = [state EXCEPT ![c] = "waiting"]
          \/ c # n /\ state' = [state EXCEPT ![c] = "ok"]
      BY <2>2 DEF Ensure, Refuse, ReturnHeld, Fetch, StartFetch, Join
    <3>2. fetch' = fetch \/ fetch' = [fetch EXCEPT ![c] = "asked"]
      BY <2>2 DEF Ensure, Refuse, ReturnHeld, Fetch, StartFetch, Join, flight
    <3>3. state'[n] # "ok"
      BY <1>1, <2>1, <3>1
    <3>4. fetch[awaits[n]] = "asked" => fetch'[awaits[n]] # "answered"
      BY <2>1, <3>2
    <3> QED BY <3>3, <3>4
  <2>3. ASSUME NEW c \in Calls, NEW f \in BOOLEAN, Call(c, f) PROVE Fresh(n)
    <3>1. c # n
      BY <2>3 DEF Call, Refreshes
    <3> QED BY <2>2, <2>3, <3>1 DEF Call
  <2>4. CASE UpdateArrives
    <3>1. Head(inbox) \in Calls
      BY <1>1, <2>4 DEF UpdateArrives, IInv, TypeOK, Calls
    <3> QED BY <2>2, <2>4, <3>1 DEF UpdateArrives
  <2>5. ASSUME NEW c \in Calls, ServerAnswers(c) PROVE Fresh(n)
    BY <1>1, <2>1, <2>5 DEF ServerAnswers, calls
  <2>6. ASSUME NEW c \in Calls, NEW ok \in BOOLEAN, NEW v, Settle(c, ok, v),
               ok => fetch[c] = "answered" /\ v = reply[c]
        PROVE  Fresh(n)
    <3>1. fetch' = [fetch EXCEPT ![c] = "none"]
      BY <2>6 DEF Settle
    <3>2. awaits[n] # c => state'[n] = "waiting"
      BY <1>1, <2>1, <2>6 DEF Settle, Waiting
    <3>3. ~ok => state'[n] # "ok"
      BY <1>1, <2>1, <2>6 DEF Settle, Waiting
    <3>4. ok /\ awaits[n] = c => given'[n] = v
      BY <1>1, <2>1, <2>6 DEF Settle, Waiting
    <3> QED BY <1>1, <2>1, <2>6, <3>1, <3>2, <3>3, <3>4
  <2>7. ASSUME NEW c \in Calls, FetchSucceeds(c) \/ FetchFails(c) PROVE Fresh(n)
    BY <2>6, <2>7 DEF FetchSucceeds, FetchFails
  <2>8. CASE UNCHANGED <<state, fetch>>
    BY <1>1, <2>8
  <2>9. CASE \/ SocketOpens \/ SocketCloses \/ TimerFires \/ ServerSnapshot
             \/ ServerSubscribes \/ RegistryChanges \/ Destroy \/ UNCHANGED vars
    <3>1. UNCHANGED <<state, fetch>>
      BY <2>9 DEF SocketOpens, SocketCloses, TimerFires, ServerSnapshot, ServerSubscribes,
          RegistryChanges, Destroy, TearDown, vars, calls, flight
    <3> QED BY <2>8, <3>1
  <2> QED BY <1>1, <2>3, <2>4, <2>5, <2>7, <2>9 DEF Next
<1>2. IInv /\ FreshInv /\ [Next]_vars =>
        [\A n \in Refreshes : state[n] = "waiting" =>
           LET l == awaits[n]
           IN  /\ state'[n] = "ok" => given'[n] = reply[l] /\ (l = n => n <= given'[n])
               /\ fetch[l] = "asked" /\ fetch'[l] = "answered" => n <= reply'[l]]_vars
  BY <1>1
<1>3. Spec => []FreshInv
  BY InitFresh, StepFresh, Invariance, PTL DEF Spec
<1> QED BY <1>2, <1>3, Invariance, PTL DEF Spec, OnlyAnsweredBefore
=============================================================================
