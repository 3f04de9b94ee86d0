---------------------------- MODULE ProcessProofs ----------------------------
(***************************************************************************)
(* Proofs about Requests and Process, for any number of requests, ids and  *)
(* WebSockets: what an answer tells and who may mutate (the chain of       *)
(* middlewares), and what a clean end of the process has not lost.         *)
(***************************************************************************)
EXTENDS Process, TLAPS

AllDone == {"commit", "publish", "audit"}

\* Only mutations go through authBasic, and nothing is done before it.
AuthInv ==
    \A r \in Requests :
        /\ stage[r] \in {"none", "auth", "body", "lookup", "store"} => did[r] = {}
        /\ stage[r] \in {"auth", "body", "lookup", "store", "publish", "audit"}
             => route[r] \in Mutations
        /\ stage[r] \in {"body", "lookup", "store", "publish", "audit"}
             => login[r] = "right"

\* What a request has done when it gets to a stage, and that it is answered by
\* the one step into the log.
ChainInv ==
    \A r \in Requests :
        /\ stage[r] = "publish" => did[r] = {"commit"}
        /\ stage[r] = "audit" => did[r] = {"commit", "publish"}
        /\ stage[r] = "reply" =>
             did[r] = IF route[r] \in Mutations THEN AllDone ELSE {}
        /\ stage[r] = "log" =>
             /\ status[r] # 0
             /\ did[r] = IF route[r] \in Mutations /\ status[r] < 300 THEN AllDone ELSE {}
        /\ stage[r] \notin {"log", "over"} => status[r] = 0

\* Connections are accepted only while run is at its select.
ListenerInv == listener = "on" => main = "serving"

\* hub.Close is the last thing before run returns, and nobody is told before.
HubInv ==
    /\ hubClosed => main \in {"returning", "exited"}
    /\ ~hubClosed => farewells = {} /\ told = {}

\* As long as no error made run return, a drain has left nobody in flight,
\* and no event has met a closed hub.
CleanInv ==
    cause = "none" =>
        /\ main \in {"closing", "returning", "exited"} => InFlight = {}
        /\ lost = {}

RInv == /\ RTypeOK /\ MutationsAreAuthorized /\ AnswerTellsOutcome
        /\ AuthInv /\ ChainInv

IInv == TypeOK /\ RInv /\ ListenerInv /\ HubInv /\ CleanInv
-----------------------------------------------------------------------------
(* The chain of one request.                                               *)

\* A request starts with nothing done and no answer.
LEMMA ArriveKeeps ==
    ASSUME RInv, NEW r \in Requests, Arrive(r)
    PROVE  RInv'
<1>1. PICK to \in Routes :
        /\ Goto(r, "none", IF to \in Mutations THEN "auth" ELSE "reply")
        /\ route' = [route EXCEPT ![r] = to]
  BY DEF Arrive
<1>2. PICK i \in Ids : target' = [target EXCEPT ![r] = i]
  BY DEF Arrive
<1>3. RTypeOK'
  BY DEF Arrive, Goto, RInv, RTypeOK, Stages
<1>4. (MutationsAreAuthorized /\ AnswerTellsOutcome)'
  BY DEF Arrive, Goto, RInv, MutationsAreAuthorized, AnswerTellsOutcome
<1>5. (AuthInv /\ ChainInv)'
  BY DEF Arrive, Goto, RInv, RTypeOK, AuthInv, ChainInv
<1> QED BY <1>3, <1>4, <1>5 DEF RInv

\* Only the right login goes past authBasic.
LEMMA AuthBasicKeeps ==
    ASSUME RInv, NEW r \in Requests, AuthBasic(r)
    PROVE  RInv'
<1>1. RTypeOK'
  BY DEF AuthBasic, input, Goto, Answer, WriteHeader, RInv, RTypeOK, Stages
<1>2. (MutationsAreAuthorized /\ AnswerTellsOutcome)'
  BY DEF AuthBasic, input, Goto, Answer, WriteHeader, RInv, RTypeOK,
      MutationsAreAuthorized, AnswerTellsOutcome, AuthInv
<1>3. (AuthInv /\ ChainInv)'
  BY DEF AuthBasic, input, Goto, Answer, WriteHeader, RInv, RTypeOK, AuthInv,
      ChainInv, Authorized, Found, BcryptMatches
<1> QED BY <1>1, <1>2, <1>3 DEF RInv

\* A refused body is a 400 that did nothing.
LEMMA DecodeBodyKeeps ==
    ASSUME RInv, NEW r \in Requests, DecodeBody(r)
    PROVE  RInv'
<1>1. RTypeOK'
  BY DEF DecodeBody, input, Goto, Answer, WriteHeader, RInv, RTypeOK, Stages
<1>2. (MutationsAreAuthorized /\ AnswerTellsOutcome)'
  BY DEF DecodeBody, input, Goto, Answer, WriteHeader, RInv, RTypeOK,
      MutationsAreAuthorized, AnswerTellsOutcome
<1>3. (AuthInv /\ ChainInv)'
  BY DEF DecodeBody, input, Goto, Answer, WriteHeader, RInv, RTypeOK,
      AuthInv, ChainInv
<1> QED BY <1>1, <1>2, <1>3 DEF RInv

\* The look-up does nothing.
LEMMA LookUpKeeps ==
    ASSUME RInv, NEW r \in Requests, LookUp(r)
    PROVE  RInv'
<1>1. RTypeOK'
  BY DEF LookUp, input, Goto, RInv, RTypeOK, Stages
<1>2. (MutationsAreAuthorized /\ AnswerTellsOutcome)'
  BY DEF LookUp, input, Goto, RInv, MutationsAreAuthorized,
      AnswerTellsOutcome
<1>3. (AuthInv /\ ChainInv)'
  BY DEF LookUp, input, Goto, RInv, AuthInv, ChainInv
<1> QED BY <1>1, <1>2, <1>3 DEF RInv

\* The commit is the first thing done.
LEMMA StoreKeeps ==
    ASSUME RInv, NEW r \in Requests, Store(r)
    PROVE  RInv'
<1>1. RTypeOK'
  BY DEF Store, input, Goto, Does, RInv, RTypeOK, Stages, Effects
<1>2. (MutationsAreAuthorized /\ AnswerTellsOutcome)'
  BY DEF Store, input, Goto, Does, RInv, MutationsAreAuthorized,
      AnswerTellsOutcome, AuthInv
<1>3. (AuthInv /\ ChainInv)'
  BY DEF Store, input, Goto, Does, RInv, RTypeOK, AuthInv, ChainInv
<1> QED BY <1>1, <1>2, <1>3 DEF RInv

\* A mutation the Store refuses did nothing.
LEMMA StoreRefusesKeeps ==
    ASSUME RInv, NEW r \in Requests, StoreRefuses(r)
    PROVE  RInv'
<1>1. RTypeOK'
  BY DEF StoreRefuses, input, Goto, Answer, WriteHeader, RInv, RTypeOK,
      Stages
<1>2. (MutationsAreAuthorized /\ AnswerTellsOutcome)'
  BY DEF StoreRefuses, input, Goto, Answer, WriteHeader, RInv,
      MutationsAreAuthorized, AnswerTellsOutcome
<1>3. (AuthInv /\ ChainInv)'
  BY DEF StoreRefuses, input, Goto, Answer, WriteHeader, RInv, RTypeOK,
      AuthInv, ChainInv
<1> QED BY <1>1, <1>2, <1>3 DEF RInv

\* What was committed is announced.
LEMMA PublishKeeps ==
    ASSUME RInv, NEW r \in Requests, Publish(r)
    PROVE  RInv'
<1>1. RTypeOK'
  BY DEF Publish, input, Goto, Does, RInv, RTypeOK, Stages, Effects
<1>2. (MutationsAreAuthorized /\ AnswerTellsOutcome)'
  BY DEF Publish, input, Goto, Does, RInv, MutationsAreAuthorized,
      AnswerTellsOutcome, ChainInv
<1>3. (AuthInv /\ ChainInv)'
  BY DEF Publish, input, Goto, Does, RInv, RTypeOK, AuthInv, ChainInv
<1> QED BY <1>1, <1>2, <1>3 DEF RInv

\* What was announced is audited.
LEMMA AuditKeeps ==
    ASSUME RInv, NEW r \in Requests, Audit(r)
    PROVE  RInv'
<1>1. RTypeOK'
  BY DEF Audit, input, Goto, Does, RInv, RTypeOK, Stages, Effects
<1>2. (MutationsAreAuthorized /\ AnswerTellsOutcome)'
  BY DEF Audit, input, Goto, Does, RInv, MutationsAreAuthorized,
      AnswerTellsOutcome, ChainInv
<1>3. (AuthInv /\ ChainInv)'
  BY DEF Audit, input, Goto, Does, RInv, RTypeOK, AuthInv, ChainInv, AllDone
<1> QED BY <1>1, <1>2, <1>3 DEF RInv

\* A mutation that reaches its answer did all three.
LEMMA ReplyKeeps ==
    ASSUME RInv, NEW r \in Requests, Reply(r)
    PROVE  RInv'
<1>1. PICK code \in Codes(r) : status' = [status EXCEPT ![r] = IF @ = 0 THEN code ELSE @]
  BY DEF Reply, Answer, WriteHeader
<1>2. route[r] \in Routes
  BY DEF RInv, RTypeOK
<1>3. /\ code \in {200, 201, 204, 400, 404, 405}
      /\ route[r] \in Mutations => code < 300
  BY <1>2 DEF Codes, Routes, Mutations, Reads
<1>4. RTypeOK'
  BY <1>1, <1>3 DEF Reply, input, Answer, Goto, RInv, RTypeOK, Stages
<1>5. (MutationsAreAuthorized /\ AnswerTellsOutcome)'
  BY <1>1 DEF Reply, input, Answer, Goto, RInv, MutationsAreAuthorized,
      AnswerTellsOutcome
<1>6. (AuthInv /\ ChainInv)'
  BY <1>1, <1>3 DEF Reply, input, Answer, Goto, RInv, RTypeOK, AuthInv,
      ChainInv
<1> QED BY <1>4, <1>5, <1>6 DEF RInv

\* The log line ends an answered request.
LEMMA LogKeeps ==
    ASSUME RInv, NEW r \in Requests, Log(r)
    PROVE  RInv'
<1>1. RTypeOK'
  BY DEF Log, input, Goto, Does, RInv, RTypeOK, Stages, Effects
<1>2. (MutationsAreAuthorized /\ AnswerTellsOutcome)'
  BY DEF Log, input, Goto, Does, RInv, RTypeOK, MutationsAreAuthorized,
      AnswerTellsOutcome, ChainInv, AllDone, Mutations
<1>3. (AuthInv /\ ChainInv)'
  BY DEF Log, input, Goto, Does, Answer, WriteHeader, RInv, RTypeOK, AuthInv,
      ChainInv, AllDone, Mutations
<1> QED BY <1>1, <1>2, <1>3 DEF RInv

\* A panic ends the request with an answer, whatever was done.
LEMMA PanicKeeps ==
    ASSUME RInv, NEW r \in Requests, Panic(r)
    PROVE  RInv'
<1>1. RTypeOK'
  BY DEF Panic, input, Does, WriteHeader, RInv, RTypeOK, Stages, Effects
<1>2. (MutationsAreAuthorized /\ AnswerTellsOutcome)'
  BY DEF Panic, input, Does, WriteHeader, RInv, RTypeOK,
      MutationsAreAuthorized, AnswerTellsOutcome, ChainInv, AllDone
<1>3. (AuthInv /\ ChainInv)'
  BY DEF Panic, input, Does, WriteHeader, RInv, RTypeOK, AuthInv, ChainInv
<1> QED BY <1>1, <1>2, <1>3 DEF RInv

\* Any of these steps, under the one name Process gives them.
LEMMA ServeKeeps ==
    ASSUME RInv, NEW r \in Requests, Serve(r)
    PROVE  RInv'
BY AuthBasicKeeps, DecodeBodyKeeps, LookUpKeeps, StoreKeeps,
    StoreRefusesKeeps, AuditKeeps, ReplyKeeps, LogKeeps, PanicKeeps DEF Serve

\* What happens outside the requests leaves the chain alone; NewStore reads
\* the registry before there is any.
LEMMA OthersKeep ==
    ASSUME RInv, registered' \in SUBSET Ids,
           UNCHANGED <<stage, input, login, existed, status, did>>
    PROVE  RInv'
<1>1. RTypeOK'
  BY DEF input, RInv, RTypeOK
<1>2. (MutationsAreAuthorized /\ AnswerTellsOutcome)'
  BY DEF input, RInv, MutationsAreAuthorized, AnswerTellsOutcome
<1>3. (AuthInv /\ ChainInv)'
  BY DEF input, RInv, AuthInv, ChainInv
<1> QED BY <1>1, <1>2, <1>3 DEF RInv
-----------------------------------------------------------------------------
(* The process around them.                                                *)

\* The chain's invariant survives every step of the process.
LEMMA NextKeepsRInv == IInv /\ [Next]_vars => RInv'
<1> SUFFICES ASSUME IInv, [Next]_vars PROVE RInv'
  OBVIOUS
<1>1. CASE Start
  BY <1>1, OthersKeep DEF Start, LoadConfig, NewStore, LoadCredentials,
      NewServer, StartFails, rvars, IInv, RInv, RTypeOK
<1>2. CASE Select \/ Shutdown \/ Listen \/ AcceptFails \/ Signal
  BY <1>2, OthersKeep DEF Select, SeeServeError, SeeSignal, Shutdown,
      Drained, DrainTimeout, CloseHub, Exit, Listen, AcceptFails, Signal,
      rvars, IInv, RInv, RTypeOK
<1>3. ASSUME NEW r \in Requests, Receive(r) PROVE RInv'
  BY <1>3, ArriveKeeps DEF Receive, IInv
<1>4. ASSUME NEW r \in Requests, Handle(r) PROVE RInv'
  BY <1>4, ServeKeeps DEF Handle, IInv
<1>5. ASSUME NEW r \in Requests, Announce(r) PROVE RInv'
  BY <1>5, PublishKeeps DEF Announce, IInv
<1>6. ASSUME NEW c \in Clients,
             Connect(c) \/ Subscribe(c) \/ Disconnect(c) \/ SayGoodbye(c)
      PROVE  RInv'
  BY <1>6, OthersKeep DEF Connect, Subscribe, Disconnect, SayGoodbye, rvars,
      IInv, RInv, RTypeOK
<1>7. CASE UNCHANGED vars
  BY <1>7, OthersKeep DEF vars, rvars, IInv, RInv, RTypeOK
<1> QED BY <1>1, <1>2, <1>3, <1>4, <1>5, <1>6, <1>7 DEF Next

\* Only a request in flight takes a step.
LEMMA OnlyInFlight ==
    ASSUME NEW r \in Requests, Serve(r) \/ Publish(r)
    PROVE  r \in InFlight
BY DEF Serve, AuthBasic, DecodeBody, LookUp, Store, StoreRefuses, Publish,
    Audit, Reply, Log, Panic, Answer, Goto, InFlight

\* None arrives once the drain has ended well.
LEMMA NoneArrives ==
    ASSUME IInv, cause = "none", main \in {"closing", "returning", "exited"},
           NEW r \in Requests
    PROVE  ~Receive(r) /\ ~Handle(r) /\ ~Announce(r)
<1>1. ~Receive(r)
  BY DEF Receive, Reachable, IInv, ListenerInv
<1>2. ~Handle(r) /\ ~Announce(r)
  BY OnlyInFlight DEF Handle, Announce, IInv, CleanInv
<1> QED BY <1>1, <1>2

\* No request has arrived and nothing was started.
LEMMA InitIInv == Init => IInv
<1> SUFFICES ASSUME Init PROVE IInv
  OBVIOUS
<1>1. RTypeOK
  BY DEF Init, RInit, RTypeOK, Stages, Routes, Logins
<1>2. TypeOK
  BY <1>1 DEF Init, TypeOK, Starting
<1>3. RInv
  BY <1>1 DEF Init, RInit, RInv, MutationsAreAuthorized, AnswerTellsOutcome,
      AuthInv, ChainInv
<1>4. ListenerInv /\ HubInv /\ CleanInv
  BY DEF Init, ListenerInv, HubInv, CleanInv
<1> QED BY <1>2, <1>3, <1>4 DEF IInv

\* Every step of the process keeps its own part of the invariant.
LEMMA StepIInv == IInv /\ [Next]_vars => IInv'
<1> SUFFICES ASSUME IInv, [Next]_vars PROVE IInv'
  OBVIOUS
<1> USE DEF IInv, ListenerInv, HubInv, CleanInv, TypeOK
<1>0. RInv' /\ RTypeOK'
  BY NextKeepsRInv DEF RInv
<1>1. CASE Start
  <2>1. (TypeOK /\ ListenerInv /\ HubInv)'
    BY <1>0, <1>1 DEF Start, LoadConfig, NewStore, LoadCredentials,
        NewServer, StartStep, StartFails, hubvars, Starting
  <2>2. CleanInv'
    BY <1>1 DEF Start, LoadConfig, NewStore, LoadCredentials, NewServer,
        StartStep, StartFails
  <2> QED BY <1>0, <2>1, <2>2
<1>2. CASE Select
  BY <1>0, <1>2 DEF Select, SeeServeError, SeeSignal, hubvars
<1>3. CASE Shutdown
  <2>1. CASE Drained \/ DrainTimeout \/ Exit
    BY <1>0, <2>1 DEF Drained, DrainTimeout, Exit, hubvars, rvars, InFlight
  <2>2. CASE CloseHub
    BY <1>0, <2>2 DEF CloseHub, Subscribed, rvars, InFlight
  <2> QED BY <1>3, <2>1, <2>2 DEF Shutdown
<1>4. CASE Listen \/ AcceptFails \/ Signal
  <2>1. CASE Listen
    <3>1. listener' \in {"on", "refused"} /\ (listener' = "on" => main = "serving")
      BY <2>1 DEF Listen
    <3> QED BY <1>0, <2>1 DEF Listen, hubvars, rvars, InFlight
  <2>2. CASE AcceptFails
    BY <1>0, <2>2 DEF AcceptFails, hubvars
  <2>3. CASE Signal
    BY <1>0, <2>3 DEF Signal, hubvars, rvars, InFlight
  <2> QED BY <1>4, <2>1, <2>2, <2>3
<1>5. ASSUME NEW r \in Requests, Receive(r) \/ Handle(r) \/ Announce(r) PROVE IInv'
  <2>1. UNCHANGED <<main, cause, signalled, listener, hubvars>>
    BY <1>5 DEF Receive, Handle, Announce, runvars
  <2>2. (ListenerInv /\ HubInv)'
    BY <2>1 DEF hubvars
  <2>3. lost' \in SUBSET Requests
    BY <1>5 DEF Receive, Handle, Announce
  <2>4. CleanInv'
    <3>1. CASE cause = "none" /\ main \in {"closing", "returning", "exited"}
      BY <1>5, <3>1, NoneArrives
    <3>2. CASE cause # "none"
      BY <2>1, <3>2
    <3>3. CASE main \notin {"closing", "returning", "exited"}
      BY <1>5, <2>1, <3>3 DEF Receive, Handle, Announce
    <3> QED BY <3>1, <3>2, <3>3
  <2> QED BY <1>0, <2>1, <2>3, <2>4 DEF hubvars
<1>6. ASSUME NEW c \in Clients,
             Connect(c) \/ Subscribe(c) \/ Disconnect(c) \/ SayGoodbye(c)
      PROVE  IInv'
  <2>1. UNCHANGED <<rvars, runvars, lost, hubClosed>>
    BY <1>6 DEF Connect, Subscribe, Disconnect, SayGoodbye
  <2>2. (ListenerInv /\ CleanInv)'
    BY <2>1 DEF rvars, runvars, InFlight
  <2>3. HubInv' /\ farewells' \in SUBSET Clients /\ told' \in SUBSET (Clients \ farewells')
    BY <1>6 DEF Connect, Subscribe, Disconnect, SayGoodbye, runvars
  <2>4. client' \in [Clients -> {"none", "accepted", "subscribed", "gone"}]
    BY <1>6 DEF Connect, Subscribe, Disconnect, SayGoodbye
  <2> QED BY <1>0, <2>1, <2>2, <2>3, <2>4 DEF runvars
<1>7. CASE UNCHANGED vars
  BY <1>0, <1>7 DEF vars, runvars, hubvars, rvars, InFlight
<1> QED BY <1>1, <1>2, <1>3, <1>4, <1>5, <1>6, <1>7 DEF Next
-----------------------------------------------------------------------------
\* The inductive invariant holds in every state of the process.
THEOREM Invariance == Spec => []IInv
BY InitIInv, StepIInv, PTL DEF Spec

\* The variables of the process and of its requests keep their types.
THEOREM TypeCorrect == Spec => []TypeOK
<1>1. IInv => TypeOK
  BY DEF IInv
<1> QED BY <1>1, Invariance, PTL

\* handlers_registry.go behind authBasic: nothing is changed or audited for a
\* request whose user is not in the table with its password.
THEOREM OnlyAuthorizedMutate == Spec => []MutationsAreAuthorized
<1>1. IInv => MutationsAreAuthorized
  BY DEF IInv, RInv
<1> QED BY <1>1, Invariance, PTL

\* The chain of server.go answers every request, and what it answers to a
\* mutation is what happened, panics excepted.
THEOREM AnswersTell == Spec => []AnswerTellsOutcome
<1>1. IInv => AnswerTellsOutcome
  BY DEF IInv, RInv
<1> QED BY <1>1, Invariance, PTL

\* A shutdown of main.go that reports no error dropped no request, and no
\* event went to the closed hub.
THEOREM NothingLost == Spec => []CleanShutdownLosesNothing
<1>1. IInv => CleanShutdownLosesNothing
  BY DEF IInv, CleanInv, CleanShutdownLosesNothing
<1> QED BY <1>1, Invariance, PTL

\* A run that got as far as serving, and whose listener did not fail, closes the hub
\* before it returns: what ShutdownEnds says of the end once it is there.
NeverExitsOpen ==
    main \in {"returning", "exited"} => hubClosed \/ cause \in {"start", "serve"}

\* main.go:74-94: no way out of run leaves the hub open but those before the
\* select and the failed listener, whether or not the drain timed out.
THEOREM HubIsClosed == Spec => []NeverExitsOpen
<1>1. Init => NeverExitsOpen
  BY DEF Init, NeverExitsOpen
<1>2. NeverExitsOpen /\ [Next]_vars => NeverExitsOpen'
  <2> SUFFICES ASSUME NeverExitsOpen, [Next]_vars PROVE NeverExitsOpen'
    OBVIOUS
  <2> USE DEF NeverExitsOpen
  <2>1. CASE Start
    BY <2>1 DEF Start, LoadConfig, NewStore, LoadCredentials, NewServer, StartStep,
        StartFails, Starting
  <2>2. CASE Select
    BY <2>2 DEF Select, SeeServeError, SeeSignal
  <2>3. CASE Shutdown
    BY <2>3 DEF Shutdown, Drained, DrainTimeout, CloseHub, Exit, hubvars
  <2>4. CASE Listen \/ AcceptFails \/ Signal
    BY <2>4 DEF Listen, AcceptFails, Signal, hubvars
  <2>5. ASSUME NEW r \in Requests, Receive(r) \/ Handle(r) \/ Announce(r)
        PROVE  NeverExitsOpen'
    BY <2>5 DEF Receive, Handle, Announce, runvars, hubvars
  <2>6. ASSUME NEW c \in Clients,
               Connect(c) \/ Subscribe(c) \/ Disconnect(c) \/ SayGoodbye(c)
        PROVE  NeverExitsOpen'
    BY <2>6 DEF Connect, Subscribe, Disconnect, SayGoodbye, runvars
  <2>7. CASE UNCHANGED vars
    BY <2>7 DEF vars, runvars, hubvars
  <2> QED BY <2>1, <2>2, <2>3, <2>4, <2>5, <2>6, <2>7 DEF Next
<1> QED BY <1>1, <1>2, PTL DEF Spec
=============================================================================
