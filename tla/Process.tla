------------------------------ MODULE Process ------------------------------
(***************************************************************************)
(* cmd/server: the life of the process.  run (main.go) builds the parts    *)
(* one after the other, starts the goroutine of the listener, waits for    *)
(* SIGINT or SIGTERM or for the listener to fail, and shuts down in two    *)
(* phases: httpSrv.Shutdown, which waits for the requests of Requests but  *)
(* not for hijacked WebSockets, and hub.Close, which only spawns the       *)
(* goroutines that send the close frames.                                  *)
(***************************************************************************)
EXTENDS Requests

CONSTANT
    Clients         \* WebSocket connections

VARIABLES
    main,           \* where run is
    cause,          \* what made run return an error, or "none"
    signalled,      \* ctx of signal.NotifyContext is done
    listener,       \* the goroutine of ListenAndServe
    lost,           \* requests whose event went to a closed hub
    client,         \* client[c]: where the connection of c is
    hubClosed,      \* Hub.closed
    farewells,      \* goroutines of hub.Close that have not run yet
    told            \* clients that were sent StatusGoingAway

runvars == <<main, cause, signalled, listener>>
hubvars == <<client, hubClosed, farewells, told>>
vars == <<rvars, runvars, hubvars, lost>>
-----------------------------------------------------------------------------
Starting == {"config", "registry", "credentials", "server"}

TypeOK ==
    /\ RTypeOK
    /\ main \in Starting \cup {"serving", "draining", "closing", "returning", "exited"}
    /\ cause \in {"none", "start", "serve", "drain"}
    /\ signalled \in BOOLEAN /\ hubClosed \in BOOLEAN
    /\ listener \in {"none", "starting", "on", "refused", "closed"}
    /\ lost \in SUBSET Requests
    /\ client \in [Clients -> {"none", "accepted", "subscribed", "gone"}]
    /\ farewells \in SUBSET Clients /\ told \in SUBSET (Clients \ farewells)

Init ==
    /\ RInit
    /\ main = "config" /\ cause = "none" /\ signalled = FALSE
    /\ listener = "none" /\ lost = {}
    /\ client = [c \in Clients |-> "none"]
    /\ hubClosed = FALSE /\ farewells = {} /\ told = {}

Alive == main # "exited"
Subscribed == {c \in Clients : client[c] = "subscribed"}
-----------------------------------------------------------------------------
(* Start: config.Load, registry.NewStore, LoadCredentials, httpapi.New.    *)

StartStep(from, to) ==
    /\ main = from /\ main' = to
    /\ UNCHANGED <<cause, signalled, listener>>

LoadConfig == StartStep("config", "registry") /\ UNCHANGED <<rvars, hubvars, lost>>

\* The ids in registry.json.
NewStore ==
    /\ StartStep("registry", "credentials")
    /\ registered' \in SUBSET Ids
    /\ UNCHANGED <<stage, input, login, existed, status, did, hubvars, lost>>

LoadCredentials ==
    StartStep("credentials", "server") /\ UNCHANGED <<rvars, hubvars, lost>>

\* Also starts the goroutine of the listener.
NewServer ==
    /\ main = "server" /\ main' = "serving" /\ listener' = "starting"
    /\ UNCHANGED <<cause, signalled, rvars, hubvars, lost>>

\* Any of the four returns an error, and run with it.
StartFails ==
    /\ main \in Starting
    /\ main' = "returning" /\ cause' = "start"
    /\ UNCHANGED <<signalled, listener, rvars, hubvars, lost>>
-----------------------------------------------------------------------------
(* The listener, the signal, and the requests and WebSockets served.       *)

\* Listen fails, or Shutdown was called before it (ErrServerClosed).
Listen ==
    /\ Alive /\ listener = "starting"
    /\ listener' \in (IF main = "serving" THEN {"on"} ELSE {}) \cup {"refused"}
    /\ UNCHANGED <<main, cause, signalled, rvars, hubvars, lost>>

AcceptFails ==
    /\ main = "serving" /\ listener = "on"
    /\ listener' = "closed"
    /\ UNCHANGED <<main, cause, signalled, rvars, hubvars, lost>>

\* NotifyContext is registered before run: also while it starts.
Signal ==
    /\ Alive /\ ~signalled
    /\ signalled' = TRUE
    /\ UNCHANGED <<main, cause, listener, rvars, hubvars, lost>>

\* A connection accepted before the listener closed may still carry a first
\* request, as long as Shutdown has not seen all of them idle.
Reachable ==
    /\ Alive
    /\ \/ listener = "on"
       \/ listener = "closed" /\ (main \in {"serving", "draining"} \/ cause # "none")

Receive(r) == Reachable /\ Arrive(r) /\ UNCHANGED <<runvars, hubvars, lost>>

Handle(r) == Alive /\ Serve(r) /\ UNCHANGED <<runvars, hubvars, lost>>

\* Publish on a closed hub is a silent no-op.
Announce(r) ==
    /\ Alive /\ Publish(r)
    /\ lost' = IF hubClosed THEN lost \cup {r} ELSE lost
    /\ UNCHANGED <<runvars, hubvars>>

\* A WebSocket: accepted (hijacked from the server), then in the hub's map.
Connect(c) ==
    /\ Reachable /\ client[c] = "none"
    /\ client' = [client EXCEPT ![c] = "accepted"]
    /\ UNCHANGED <<hubClosed, farewells, told, rvars, runvars, lost>>

Subscribe(c) ==
    /\ Alive /\ client[c] = "accepted"
    /\ client' = [client EXCEPT ![c] = "subscribed"]
    /\ UNCHANGED <<hubClosed, farewells, told, rvars, runvars, lost>>

Disconnect(c) ==
    /\ Alive /\ client[c] \in {"accepted", "subscribed"}
    /\ client' = [client EXCEPT ![c] = "gone"]
    /\ UNCHANGED <<hubClosed, farewells, told, rvars, runvars, lost>>

SayGoodbyeMutant(c) ==      \* the goroutine runs again and again
    /\ Alive /\ c \in farewells
    /\ IF client[c] = "subscribed"
       THEN told' = told \cup {c} /\ client' = [client EXCEPT ![c] = "gone"]
       ELSE UNCHANGED <<told, client>>
    /\ UNCHANGED <<hubClosed, farewells, rvars, runvars, lost>>

\* go s.closeGoingAway(): a connection already down is sent nothing.
SayGoodbye(c) ==
    /\ Alive /\ c \in farewells
    /\ farewells' = farewells \ {c}
    /\ IF client[c] = "subscribed"
       THEN told' = told \cup {c} /\ client' = [client EXCEPT ![c] = "gone"]
       ELSE UNCHANGED <<told, client>>
    /\ UNCHANGED <<hubClosed, rvars, runvars, lost>>
-----------------------------------------------------------------------------
(* The end: select picks either of two ready cases.                        *)

\* case err := <-serveErr: run returns without a shutdown.
SeeServeError ==
    /\ main = "serving" /\ listener \in {"refused", "closed"}
    /\ main' = "returning" /\ cause' = "serve"
    /\ UNCHANGED <<signalled, listener, rvars, hubvars, lost>>

\* case <-ctx.Done(): Shutdown closes the listener first.
SeeSignal ==
    /\ main = "serving" /\ signalled
    /\ main' = "draining"
    /\ listener' = IF listener = "on" THEN "closed" ELSE listener
    /\ UNCHANGED <<cause, signalled, rvars, hubvars, lost>>

DrainedMutant ==      \* Shutdown is not waited for
    /\ main = "draining" /\ main' = "closing"
    /\ UNCHANGED <<cause, signalled, listener, rvars, hubvars, lost>>

\* Shutdown returns nil: no request is in flight.
Drained ==
    /\ main = "draining" /\ InFlight = {}
    /\ main' = "closing"
    /\ UNCHANGED <<cause, signalled, listener, rvars, hubvars, lost>>

\* Shutdown gives up after 15 seconds.
DrainTimeout ==
    /\ main = "draining"
    /\ main' = "closing" /\ cause' = "drain"
    /\ UNCHANGED <<signalled, listener, rvars, hubvars, lost>>

CloseHubMutant ==      \* only after a clean drain
    /\ main = "closing" /\ main' = "returning"
    /\ hubClosed' = (cause = "none")
    /\ farewells' = IF cause = "none" THEN Subscribed ELSE {}
    /\ UNCHANGED <<cause, signalled, listener, client, told, rvars, lost>>

\* hub.Close()
CloseHub ==
    /\ main = "closing" /\ main' = "returning"
    /\ hubClosed' = TRUE /\ farewells' = Subscribed
    /\ UNCHANGED <<cause, signalled, listener, client, told, rvars, lost>>

\* run returns and the process ends, whatever still runs.
Exit ==
    /\ main = "returning" /\ main' = "exited"
    /\ UNCHANGED <<cause, signalled, listener, rvars, hubvars, lost>>
-----------------------------------------------------------------------------
Start == LoadConfig \/ NewStore \/ LoadCredentials \/ NewServer \/ StartFails
Select == SeeServeError \/ SeeSignal
Shutdown == Drained \/ DrainTimeout \/ CloseHub \/ Exit

Next ==
    \/ Start \/ Select \/ Shutdown
    \/ Listen \/ AcceptFails \/ Signal
    \/ \E r \in Requests : Receive(r) \/ Handle(r) \/ Announce(r)
    \/ \E c \in Clients : Connect(c) \/ Subscribe(c) \/ Disconnect(c) \/ SayGoodbye(c)

Spec == Init /\ [][Next]_vars

\* The main goroutine runs, and the 15 seconds do pass.  Nothing is assumed of
\* the requests, the clients and the listener.
FairSpec == Spec /\ WF_vars(Start) /\ WF_vars(Select) /\ WF_vars(Shutdown)
-----------------------------------------------------------------------------
(* Correctness.                                                            *)

\* A run that reports no error dropped no request and no event: all that
\* arrived were answered, and every event went to an open hub.
CleanShutdownLosesNothing ==
    main = "exited" /\ cause = "none" => InFlight = {} /\ lost = {}

\* Once asked to stop, at any moment, the process stops; and never with the hub
\* open, also when the drain timed out, unless it did not get as far as serving
\* or the listener had failed.
ShutdownEnds ==
    signalled ~> main = "exited" /\ (hubClosed \/ cause \in {"start", "serve"})

\* After a shutdown every client that was subscribed at hub.Close was sent
\* StatusGoingAway (main.go:5-8, README.md:164, OPS-04).
EveryoneIsTold == main = "exited" => farewells \cap Subscribed = {}
=============================================================================
