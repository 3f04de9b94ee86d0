------------------------------ MODULE Requests ------------------------------
(***************************************************************************)
(* The REST side of internal/httpapi: a request goes through               *)
(* recover -> log -> cors -> mux -> authBasic -> handler (server.go), and  *)
(* may panic on the way.  The registry is the set of registered ids, the   *)
(* Store's mutations take effect in one step (RegistryContract); manifests *)
(* and events are those of Broker.  Process runs these requests from the   *)
(* start of the server to its end.                                         *)
(***************************************************************************)
EXTENDS Naturals, FiniteSets

CONSTANTS
    Requests,       \* request goroutines
    Ids             \* application ids

VARIABLES
    registered,     \* ids with a manifest in the Store
    stage,          \* stage[r]: how far r is in the chain
    route,          \* route[r]: what the mux makes of method and path
    target,         \* target[r]: the id in the path or in the manifest
    login,          \* login[r]: what authBasic made of the Authorization header
    existed,        \* existed[r]: alreadyExisted of handleRegistryUpsert
    status,         \* status[r]: the status written first, 0 before
    did             \* did[r]: what r has done so far

input == <<route, target>>
rvars == <<registered, stage, input, login, existed, status, did>>
-----------------------------------------------------------------------------
Mutations == {"upsert", "delete"}
Reads == {"list", "get", "capabilities", "health"}

\* "preflight" is answered by rs/cors, "other" by the mux (404, 405).
Routes == Mutations \cup Reads \cup {"preflight", "other"}

\* No or a malformed header; a user the table does not have, with any password
\* or with the one dummyHash was made of; a user it has, with a password.
Logins == {"none", "unknown", "dummy", "wrong", "right"}

Stages == {"none", "auth", "body", "lookup", "store", "publish", "audit",
           "reply", "log", "over"}

Effects == {"commit", "publish", "audit", "log", "panic"}

RTypeOK ==
    /\ registered \in SUBSET Ids
    /\ stage \in [Requests -> Stages]
    /\ route \in [Requests -> Routes] /\ target \in [Requests -> Ids]
    /\ login \in [Requests -> Logins]
    /\ existed \in [Requests -> BOOLEAN]
    /\ status \in [Requests -> {0, 200, 201, 204, 400, 401, 404, 405, 500}]
    /\ did \in [Requests -> SUBSET Effects]

RInit ==
    /\ registered = {}
    /\ stage = [r \in Requests |-> "none"]
    /\ route = [r \in Requests |-> "other"]
    /\ \E i \in Ids : target = [r \in Requests |-> i]
    /\ login = [r \in Requests |-> "none"]
    /\ existed = [r \in Requests |-> FALSE]
    /\ status = [r \in Requests |-> 0]
    /\ did = [r \in Requests |-> {}]

InFlight == {r \in Requests : stage[r] \notin {"none", "over"}}
-----------------------------------------------------------------------------
Goto(r, from, to) ==
    /\ stage[r] = from
    /\ stage' = [stage EXCEPT ![r] = to]

\* w.WriteHeader: only the first one counts.
WriteHeader(r, code) ==
    status' = [status EXCEPT ![r] = IF @ = 0 THEN code ELSE @]

\* The handler answers and returns into logMiddleware.
Answer(r, from, codes) ==
    /\ Goto(r, from, "log")
    /\ \E code \in codes : WriteHeader(r, code)

Does(r, effect) == did' = [did EXCEPT ![r] = @ \cup {effect}]

\* Only the two mutations are wrapped in authBasic.
Arrive(r) ==
    /\ \E to \in Routes :
         /\ Goto(r, "none", IF to \in Mutations THEN "auth" ELSE "reply")
         /\ route' = [route EXCEPT ![r] = to]
    /\ \E i \in Ids : target' = [target EXCEPT ![r] = i]
    /\ UNCHANGED <<registered, login, existed, status, did>>

\* bcrypt runs on the user's hash, or on dummyHash.
BcryptMatches(l) == l \in {"right", "dummy"}
Found(l) == l \in {"right", "wrong"}

AuthorizedMutant(l) == BcryptMatches(l)      \* found is not looked at

\* subtle.ConstantTimeCompare of (found, matches) with (1, 1).
Authorized(l) == Found(l) /\ BcryptMatches(l)

AuthBasic(r) ==
    /\ \E l \in Logins :
         /\ login' = [login EXCEPT ![r] = l]
         /\ IF l # "none" /\ Authorized(l)
            THEN /\ Goto(r, "auth", IF route[r] = "upsert" THEN "body" ELSE "store")
                 /\ UNCHANGED status
            ELSE Answer(r, "auth", {401})
    /\ UNCHANGED <<registered, input, existed, did>>

\* The body is decoded and validated: 400 if it is too large, no manifest, or
\* not a valid one.
DecodeBody(r) ==
    /\ \/ Goto(r, "body", "lookup") /\ UNCHANGED status
       \/ Answer(r, "body", {400})
    /\ UNCHANGED <<registered, input, login, existed, did>>

LookUp(r) ==
    /\ Goto(r, "lookup", "store")
    /\ existed' = [existed EXCEPT ![r] = target[r] \in registered]
    /\ UNCHANGED <<registered, input, login, status, did>>

\* store.Upsert or store.Delete takes effect...
Store(r) ==
    /\ Goto(r, "store", "publish")
    /\ \/ route[r] = "upsert" /\ registered' = registered \cup {target[r]}
       \/ /\ route[r] = "delete" /\ target[r] \in registered
          /\ registered' = registered \ {target[r]}
    /\ Does(r, "commit")
    /\ UNCHANGED <<input, login, existed, status>>

\* ... or does not: 500 when it could not be persisted, 404 for an unknown id.
StoreRefuses(r) ==
    /\ Answer(r, "store", IF route[r] = "delete" /\ target[r] \notin registered
                          THEN {404} ELSE {500})
    /\ UNCHANGED <<registered, input, login, existed, did>>

Publish(r) ==
    /\ Goto(r, "publish", "audit") /\ Does(r, "publish")
    /\ UNCHANGED <<registered, input, login, existed, status>>

Audit(r) ==
    /\ Goto(r, "audit", "reply") /\ Does(r, "audit")
    /\ UNCHANGED <<registered, input, login, existed, status>>

\* The answers of a request that is not refused, by its route.
Codes(r) ==
    CASE route[r] = "upsert" -> {IF existed[r] THEN 200 ELSE 201}
      [] route[r] = "delete" -> {204}
      [] route[r] \in {"list", "health"} -> {200}
      [] route[r] = "get" -> {IF target[r] \in registered THEN 200 ELSE 404}
      [] route[r] = "capabilities" -> {200, 400}
      [] route[r] = "preflight" -> {204}
      [] route[r] = "other" -> {404, 405}

Reply(r) ==
    /\ Answer(r, "reply", Codes(r))
    /\ UNCHANGED <<registered, input, login, existed, did>>

\* logMiddleware once its inner handler has returned.
Log(r) ==
    /\ Goto(r, "log", "over")
    /\ IF route[r] = "health" THEN UNCHANGED did ELSE Does(r, "log")
    /\ UNCHANGED <<registered, input, login, existed, status>>

PanicMutant(r) ==      \* recovered without an answer
    /\ r \in InFlight
    /\ stage' = [stage EXCEPT ![r] = "over"]
    /\ Does(r, "panic")
    /\ UNCHANGED <<registered, input, login, existed, status>>

\* recoverMiddleware: the rest of the chain is left out, logMiddleware
\* included; a status that was written before stays.
Panic(r) ==
    /\ r \in InFlight
    /\ stage' = [stage EXCEPT ![r] = "over"]
    /\ WriteHeader(r, 500) /\ Does(r, "panic")
    /\ UNCHANGED <<registered, input, login, existed>>

\* All that touches neither the listener nor the hub.
Serve(r) ==
    \/ AuthBasic(r) \/ DecodeBody(r) \/ LookUp(r) \/ Store(r) \/ StoreRefuses(r)
    \/ Audit(r) \/ Reply(r) \/ Log(r) \/ Panic(r)
-----------------------------------------------------------------------------
(* Correctness.                                                            *)

\* The registry changes, and an audit line names a user, only for a request
\* whose user is in the table with that password (AUTH-02): the fallback to
\* dummyHash lets nobody in.
MutationsAreAuthorized ==
    \A r \in Requests : did[r] \cap {"commit", "audit"} # {} => login[r] = "right"

\* Every request gets an answer, and the answer to a mutation tells what came
\* of it: a success was committed, announced and audited, in that order
\* (handlers_registry.go:74-75), a refusal or an error did nothing.  Only a
\* panic leaves it open what a 500 did.
AnswerTellsOutcome ==
    \A r \in Requests :
        /\ "audit" \in did[r] => "publish" \in did[r]
        /\ "publish" \in did[r] => "commit" \in did[r]
        /\ stage[r] = "over" =>
             /\ status[r] # 0
             /\ "panic" \in did[r] \/ route[r] = "health" \/ "log" \in did[r]
             /\ route[r] \in Mutations =>
                  IF status[r] < 300 THEN {"commit", "publish", "audit"} \subseteq did[r]
                  ELSE "panic" \in did[r] \/ did[r] = {"log"}
=============================================================================
