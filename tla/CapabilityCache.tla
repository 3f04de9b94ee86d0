--------------------------- MODULE CapabilityCache ---------------------------
(***************************************************************************)
(* The client's copy of the registry: ensureCapabilities and its           *)
(* single-flight fetch (client.ts, capabilities/loader.ts), the WebSocket  *)
(* listener that asks for a refresh on every event (ws-listener.ts), and   *)
(* destroy.  JavaScript runs one callback at a time: an action is a        *)
(* callback with the continuations that follow it.  The server speaks as   *)
(* loader.ts and ws-listener.ts expect: answers are lists, with or without *)
(* the X-OpenBuro-Server header; a socket is sent the snapshot, then, once *)
(* it is in the hub (handlers_caps.go), every update.                      *)
(***************************************************************************)
EXTENDS Naturals, Sequences, FiniteSets

CONSTANTS
    AppCalls,       \* concurrent calls of the application
    MaxChanges,     \* bound: how often the server's registry changes
    MaxAttempts     \* WsListenerOptions.maxAttempts

ASSUME CacheAssumption ==
    MaxChanges \in Nat /\ MaxAttempts \in Nat \ {0}

VARIABLES
    version,        \* the server's registry; 0 is the empty one
    destroyed,      \* OpenBuroClient.destroyed
    aborted,        \* abortContext.signal.aborted
    capabilities,   \* the version of the list held; 0 is []
    inflight,       \* {the call whose fetch is inflightFetch}, or {}
    fetch,          \* fetch[c]: "none", "asked", "answered"
    reply,          \* reply[c]: the version in the answer to c's fetch
    state,          \* state[c]: where call c is or how it ended
    force,          \* force[c]: is c a refreshCapabilities?
    awaits,         \* awaits[c]: the call whose fetch c waits for
    given,          \* given[c]: the list a refreshCapabilities returned
    listener,       \* is there a wsListener?
    socket,         \* WsListener.socket: "none", "connecting", "open", "closed"
    served,         \* the server: "no", "snapshot" sent, or "yes", in the hub
    inbox,          \* events on their way to the socket: 0 for the snapshot
    attempt,        \* WsListener.attempt
    timer,          \* is a retry timer set?
    stopped         \* WsListener.destroyed

server == <<version, served, inbox>>
client == <<destroyed, aborted, capabilities>>
calls == <<state, force, awaits, given>>
flight == <<inflight, fetch, reply>>
ws == <<listener, socket, attempt, timer, stopped>>
vars == <<server, client, calls, flight, ws>>
-----------------------------------------------------------------------------
Versions == 0..MaxChanges

\* The application's calls, and one refresh for each event.
Calls == AppCalls \cup Versions

TypeOK ==
    /\ version \in Versions /\ destroyed \in BOOLEAN /\ aborted \in BOOLEAN
    /\ capabilities \in Versions
    /\ inflight \in SUBSET Calls
    /\ fetch \in [Calls -> {"none", "asked", "answered"}]
    /\ reply \in [Calls -> Versions]
    /\ state \in [Calls -> {"idle", "waiting", "ok", "rejected"}]
    /\ force \in [Calls -> BOOLEAN]
    /\ awaits \in [Calls -> Calls]
    /\ given \in [Calls -> Versions]
    /\ listener \in BOOLEAN /\ served \in {"no", "snapshot", "yes"}
    /\ socket \in {"none", "connecting", "open", "closed"}
    /\ inbox \in Seq(Versions)
    /\ attempt \in 0..MaxAttempts
    /\ timer \in BOOLEAN /\ stopped \in BOOLEAN

Init ==
    /\ version = 0 /\ destroyed = FALSE /\ aborted = FALSE
    /\ capabilities = 0
    /\ inflight = {}
    /\ fetch = [c \in Calls |-> "none"] /\ reply = [c \in Calls |-> 0]
    /\ state = [c \in Calls |-> "idle"] /\ force = [c \in Calls |-> FALSE]
    /\ awaits = [c \in Calls |-> c]
    /\ given = [c \in Calls |-> 0]
    /\ listener = FALSE /\ socket = "none" /\ served = "no" /\ inbox = <<>>
    /\ attempt = 0 /\ timer = FALSE /\ stopped = FALSE
-----------------------------------------------------------------------------
(* ensureCapabilities.                                                     *)

\* A call up to its first await: what is at hand is returned, a fetch in
\* flight is joined, otherwise one is started.
Refuse(c) ==
    /\ destroyed
    /\ state' = [state EXCEPT ![c] = "rejected"]
    /\ UNCHANGED <<awaits, given, flight>>

ReturnHeld(c, f) ==
    /\ ~destroyed /\ ~f /\ capabilities # 0
    /\ state' = [state EXCEPT ![c] = "ok"]
    /\ UNCHANGED <<awaits, given, flight>>

Join(c, l) ==
    /\ state' = [state EXCEPT ![c] = "waiting"]
    /\ awaits' = [awaits EXCEPT ![c] = l]
    /\ given' = [given EXCEPT ![c] = 0]
    /\ UNCHANGED flight

StartFetch(c) ==
    /\ inflight' = {c}
    /\ fetch' = [fetch EXCEPT ![c] = "asked"]
    /\ state' = [state EXCEPT ![c] = "waiting"]
    /\ awaits' = [awaits EXCEPT ![c] = c]
    /\ given' = [given EXCEPT ![c] = 0]
    /\ UNCHANGED reply

FetchMutant(c) == StartFetch(c)      \* without looking at inflightFetch

Fetch(c) == inflight = {} /\ StartFetch(c)

Ensure(c, f) ==
    /\ force' = [force EXCEPT ![c] = f]
    /\ \/ Refuse(c)
       \/ ReturnHeld(c, f)
       \/ /\ ~destroyed /\ (f \/ capabilities = 0)
          /\ Fetch(c) \/ \E l \in inflight : Join(c, l)

\* castIntent (FALSE) and refreshCapabilities (TRUE).
Call(c, f) ==
    /\ c \in AppCalls /\ state[c] # "waiting"
    /\ Ensure(c, f)
    /\ UNCHANGED <<server, client, ws>>

\* The server reads its registry for the answer to c's fetch.
ServerAnswers(c) ==
    /\ fetch[c] = "asked"
    /\ fetch' = [fetch EXCEPT ![c] = "answered"]
    /\ reply' = [reply EXCEPT ![c] = version]
    /\ UNCHANGED <<server, client, calls, inflight, ws>>

Waiting(l) == {c \in Calls : state[c] = "waiting" /\ awaits[c] = l}

\* Every call that waits for l's fetch goes on; a castIntent looks at
\* destroyed again.  What a call was is kept for a refresh that got a list.
Settle(l, ok, v) ==
    LET Refreshes == {c \in Waiting(l) : ok /\ force[c]}
        Rejected == {c \in Waiting(l) : ~ok \/ (destroyed /\ ~force[c])}
    IN  /\ state' = [c \in Calls |-> IF c \notin Waiting(l) THEN state[c]
                        ELSE IF c \in Rejected THEN "rejected" ELSE "ok"]
        /\ given' = [c \in Calls |-> IF c \in Refreshes THEN v ELSE given[c]]
        /\ force' = [c \in Calls |-> force[c] /\ (c \in Waiting(l) => c \in Refreshes)]
        /\ awaits' = [c \in Calls |-> IF c \in Waiting(l) THEN c ELSE awaits[c]]
        /\ fetch' = [fetch EXCEPT ![l] = "none"]
        /\ reply' = [reply EXCEPT ![l] = 0]
        /\ inflight' = {}

\* start and connect: a page served over https refuses a ws: address, and does
\* not try again.
StartListener ==
    /\ listener' = TRUE
    /\ socket' \in {"connecting", "none"}
    /\ UNCHANGED <<attempt, timer, stopped>>

MaybeStartWsListenerMutant(header) ==      \* also when destroyed
    IF header /\ ~listener THEN StartListener ELSE UNCHANGED ws

\* maybeStartWsListener: the first time only, for a server that says it has
\* live updates, and not any more once destroyed.
MaybeStartWsListener(header) ==
    IF header /\ ~listener /\ ~destroyed THEN StartListener ELSE UNCHANGED ws

\* The body is there: a destroy that comes later does not stop it.
FetchSucceeds(l) ==
    /\ fetch[l] = "answered"
    /\ capabilities' = reply[l]
    /\ Settle(l, TRUE, reply[l])
    /\ \E header \in BOOLEAN : MaybeStartWsListener(header)
    /\ UNCHANGED <<server, destroyed, aborted>>

\* The network, a status other than 2xx, or the abort signal.
FetchFails(l) ==
    /\ fetch[l] # "none"
    /\ Settle(l, FALSE, 0)
    /\ UNCHANGED <<server, client, ws>>

Aborts(l) == aborted /\ FetchFails(l)
-----------------------------------------------------------------------------
(* WsListener.                                                             *)

SocketOpens ==
    /\ socket = "connecting"
    /\ socket' = "open" /\ attempt' = 0
    /\ UNCHANGED <<server, client, calls, flight, listener, timer, stopped>>

SocketClosesForeverMutant ==      \* retries without end
    /\ socket \in {"connecting", "open"}
    /\ socket' = "closed" /\ served' = "no" /\ inbox' = <<>>
    /\ attempt' = attempt + 1 /\ timer' = TRUE
    /\ UNCHANGED <<version, client, calls, flight, listener, stopped>>

SocketClosesMutant ==      \* reconnects at once and after the pause
    /\ socket = "open"
    /\ socket' = "connecting" /\ served' = "no" /\ inbox' = <<>>
    /\ attempt' = attempt + 1
    /\ timer' = (attempt + 1 < MaxAttempts)
    /\ UNCHANGED <<version, client, calls, flight, listener, stopped>>

\* onclose: a retry after a pause, until maxAttempts failures in a row.
SocketCloses ==
    /\ socket \in {"connecting", "open"}
    /\ socket' = "closed" /\ served' = "no" /\ inbox' = <<>>
    /\ IF stopped THEN UNCHANGED <<attempt, timer>>
       ELSE /\ attempt' = attempt + 1
            /\ timer' = (attempt + 1 < MaxAttempts)
    /\ UNCHANGED <<version, client, calls, flight, listener, stopped>>

TimerFires ==
    /\ timer /\ timer' = FALSE
    /\ socket' = IF stopped THEN socket ELSE "connecting"
    /\ UNCHANGED <<server, client, calls, flight, listener, attempt, stopped>>

\* onmessage: an event makes a refreshCapabilities call.
UpdateArrives ==
    /\ socket = "open" /\ inbox # <<>>
    /\ inbox' = Tail(inbox)
    /\ Ensure(Head(inbox), TRUE)
    /\ UNCHANGED <<version, served, client, ws>>

\* handleCapabilitiesWS: the snapshot is an event like the others, then the
\* socket is handed to the hub.
ServerSnapshot ==
    /\ socket \in {"connecting", "open"} /\ served = "no"
    /\ served' = "snapshot" /\ inbox' = <<0>>
    /\ UNCHANGED <<version, client, calls, flight, ws>>

ServerSubscribes ==
    /\ served = "snapshot" /\ served' = "yes"
    /\ UNCHANGED <<version, inbox, client, calls, flight, ws>>

\* An admin changes the registry, which the hub announces.
RegistryChanges ==
    /\ version < MaxChanges
    /\ version' = version + 1
    /\ inbox' = IF served = "yes" THEN Append(inbox, version + 1) ELSE inbox
    /\ UNCHANGED <<served, client, calls, flight, ws>>

TearDown ==
    /\ ~destroyed /\ destroyed' = TRUE
    /\ IF listener
       THEN /\ stopped' = TRUE /\ timer' = FALSE /\ socket' = "none"
            /\ served' = "no" /\ inbox' = <<>>
       ELSE UNCHANGED <<stopped, timer, socket, served, inbox>>
    /\ listener' = FALSE /\ capabilities' = 0 /\ inflight' = {}
    /\ UNCHANGED <<version, calls, fetch, reply, attempt>>

DestroyMutant == TearDown /\ UNCHANGED aborted      \* the fetch is not aborted

\* destroy: the cleanups stop the listener, the signal aborts the fetch.
Destroy == TearDown /\ aborted' = TRUE

Next ==
    \/ \E c \in Calls : \/ \E f \in BOOLEAN : Call(c, f)
                        \/ ServerAnswers(c) \/ FetchSucceeds(c) \/ FetchFails(c)
    \/ SocketOpens \/ SocketCloses \/ TimerFires \/ UpdateArrives
    \/ ServerSnapshot \/ ServerSubscribes \/ RegistryChanges \/ Destroy

Spec == Init /\ [][Next]_vars

\* Only what the browser itself sees to: an aborted fetch rejects.  A server
\* need not answer, and nothing in the client limits how long it takes.
FairSpec == Spec /\ \A c \in Calls : WF_vars(Aborts(c))
-----------------------------------------------------------------------------
(* Correctness.                                                            *)

\* The list held never goes back to an older registry: an answer that was
\* overtaken by a later one is never stored.
ListNeverGoesBack == [][capabilities' < capabilities => destroyed']_vars

\* A socket and a retry timer are never there together: the listener has one
\* connection at most, whenever the server closes it and opens it again.
OneConnection == ~(timer /\ socket \in {"connecting", "open"})

\* What was stopped stays stopped: the continuation of a fetch whose body had
\* arrived before destroy brings no listener, socket or timer back (WS-05).
NothingAfterDestroy ==
    destroyed => ~timer /\ socket \notin {"connecting", "open"} /\ inflight = {}

Refreshed(c) == state[c] = "ok" /\ force[c]

\* The refresh made for an update event returns the list with that update
\* (client.ts:114, "Force a fresh capability fetch"; WS-03, CAP-07).
UpdateIsFetched == \A n \in 1..MaxChanges : Refreshed(n) => given[n] >= n

\* After destroy no call is left waiting, even if the server never answers.
DestroySettlesCalls ==
    \A c \in Calls : destroyed ~> state[c] # "waiting"
=============================================================================
