---------------------------- MODULE IntentSessions ----------------------------
(***************************************************************************)
(* castIntent of the client (client.ts): the chooser modal (Modals), the   *)
(* iframe session and its watchdog, the answer of the capability, and      *)
(* destroy with its stack of cleanups (lifecycle/abort-context.ts).  An    *)
(* action is one JavaScript callback up to its next await; user callbacks  *)
(* come last in each, so what they call themselves is a later action.  The *)
(* Penpal bridge is external: its connect settles, at the latest after its *)
(* timeout, and the child's calls come after that.                         *)
(***************************************************************************)
EXTENDS Modals

CONSTANT
    CallbacksMayThrow   \* may an IntentCallback throw?

ASSUME CallbacksAssumption == CallbacksMayThrow \in BOOLEAN

VARIABLES
    destroyed,      \* OpenBuroClient.destroyed
    stage,          \* stage[c]: where cast c is
    promise,        \* promise[c]: what castIntent returned
    called,         \* called[c]: how often c's callback was called
    iframes,        \* casts whose iframe is in the page
    bridges,        \* casts whose Penpal connection is up
    sessions,       \* OpenBuroClient.sessions
    timers          \* casts whose watchdog is set

session == <<bridges, sessions, timers>>
vars == <<destroyed, stage, promise, called, page, iframes, session>>
-----------------------------------------------------------------------------
Stages == {"none", "loading", "choosing", "connecting", "session", "over"}
Promises == {"pending", "cancel", "result", "rejected"}

TypeOK ==
    /\ destroyed \in BOOLEAN
    /\ stage \in [Casts -> Stages]
    /\ promise \in [Casts -> Promises]
    /\ called \in [Casts -> Nat]
    /\ PageTypeOK
    /\ iframes \in SUBSET Casts /\ bridges \in SUBSET Casts
    /\ sessions \in SUBSET Casts /\ timers \in SUBSET Casts

Init ==
    /\ destroyed = FALSE
    /\ stage = [c \in Casts |-> "none"]
    /\ promise = [c \in Casts |-> "pending"]
    /\ called = [c \in Casts |-> 0]
    /\ PageInit
    /\ iframes = {} /\ bridges = {} /\ sessions = {} /\ timers = {}
-----------------------------------------------------------------------------
Goto(c, from, to) ==
    /\ stage[c] = from
    /\ stage' = [stage EXCEPT ![c] = to]

\* The promise is rejected, the callback is not called.
Reject(c) ==
    /\ promise' = [promise EXCEPT ![c] = "rejected"]
    /\ UNCHANGED called

\* callback(...), then the promise; if the callback throws, the promise
\* becomes what the code around the call makes of it.
CallBack(c, answer, ifThrown) ==
    /\ called' = [called EXCEPT ![c] = @ + 1]
    /\ \/ promise' = [promise EXCEPT ![c] = answer]
       \/ CallbacksMayThrow /\ promise' = [promise EXCEPT ![c] = ifThrown]

\* castIntent up to ensureCapabilities.
CastIntent(c) ==
    /\ IF destroyed THEN Goto(c, "none", "over") /\ Reject(c)
       ELSE Goto(c, "none", "loading") /\ UNCHANGED <<promise, called>>
    /\ UNCHANGED <<destroyed, page, iframes, session>>

\* The fetch failed, or the client was destroyed meanwhile.
LoadFails(c) ==
    /\ Goto(c, "loading", "over") /\ Reject(c)
    /\ UNCHANGED <<destroyed, page, iframes, session>>

\* planCast: no-match.
NoMatch(c) ==
    /\ ~destroyed
    /\ Goto(c, "loading", "over")
    /\ CallBack(c, "cancel", "rejected")
    /\ UNCHANGED <<destroyed, page, iframes, session>>

\* openIframeSession up to its await: buildIframe refuses a capability of the
\* page's own origin, or with a relative path, before anything is added to the
\* page.
OpenIframe(c, from) ==
    /\ \/ /\ Goto(c, from, "connecting")
          /\ iframes' = iframes \cup {c}
          /\ UNCHANGED <<promise, called>>
       \/ /\ Goto(c, from, "over")
          /\ CallBack(c, "cancel", "rejected")
          /\ UNCHANGED iframes
    /\ UNCHANGED <<destroyed, session>>

\* planCast: direct.
Direct(c) == ~destroyed /\ OpenIframe(c, "loading") /\ UNCHANGED page

\* planCast: select.
OpenModal(c) ==
    /\ ~destroyed
    /\ Goto(c, "loading", "choosing")
    /\ BuildModal(c)
    /\ UNCHANGED <<destroyed, promise, called, iframes, session>>

\* A click on an application, or Enter.
Select(c) == Reaches(c) /\ OpenIframe(c, "choosing") /\ DestroyModal(c)

\* The button, the backdrop or Escape.  No handler catches what a callback
\* throws before resolvePromise.
Cancel(c) ==
    /\ Reaches(c)
    /\ Goto(c, "choosing", "over")
    /\ DestroyModal(c)
    /\ CallBack(c, "cancel", "pending")
    /\ UNCHANGED <<destroyed, iframes, session>>

\* The handshake fails or times out.
ConnectFails(c) ==
    /\ Goto(c, "connecting", "over")
    /\ iframes' = iframes \ {c}
    /\ CallBack(c, "cancel", "rejected")
    /\ UNCHANGED <<destroyed, page, session>>

BeginSession(c) ==
    /\ Goto(c, "connecting", "session")
    /\ bridges' = bridges \cup {c} /\ sessions' = sessions \cup {c}
    /\ UNCHANGED <<destroyed, page, promise, called, iframes>>

ConnectedMutant(c) ==      \* does not look at destroyed again
    BeginSession(c) /\ timers' = timers \cup {c}

ConnectedUnwatchedMutant(c) ==      \* no watchdog
    ~destroyed /\ BeginSession(c) /\ UNCHANGED timers

\* The bridge is up: a session begins, unless the client was destroyed.
Connected(c) ==
    \/ ~destroyed /\ BeginSession(c) /\ timers' = timers \cup {c}
    \/ /\ destroyed /\ Goto(c, "connecting", "over")
       /\ iframes' = iframes \ {c}
       /\ CallBack(c, "cancel", "rejected")
       /\ UNCHANGED <<destroyed, page, session>>

EndSession(c) ==
    bridges' = bridges \ {c} /\ iframes' = iframes \ {c} /\ sessions' = sessions \ {c}

TeardownSessionMutant(c) ==      \* without clearTimeout
    EndSession(c) /\ UNCHANGED timers

TeardownSession(c) == EndSession(c) /\ timers' = timers \ {c}

\* A child calls resolve with a result that carries the id of c's session.
\* Nothing ties the child that calls to the id it names.
HandleSessionResolve(c) ==
    /\ c \in sessions
    /\ TeardownSession(c)
    /\ stage' = [stage EXCEPT ![c] = "over"]
    /\ CallBack(c, "result", "result")
    /\ UNCHANGED <<destroyed, page>>

\* The watchdog: like onCancel, nothing catches what a callback throws.
Watchdog(c) ==
    /\ c \in timers
    /\ TeardownSession(c)
    /\ stage' = [stage EXCEPT ![c] = "over"]
    /\ CallBack(c, "cancel", "pending")
    /\ UNCHANGED <<destroyed, page>>

\* The casts that have a cleanup which still does something.
ToCancel == ToSet(modals) \cup sessions

\* The cleanups of open modals and sessions, last registered first, each
\* calling back with "cancel"; what callbacks throw is swallowed.
Destroy ==
    /\ ~destroyed /\ destroyed' = TRUE
    /\ stage' = [c \in Casts |-> IF c \in ToCancel THEN "over" ELSE stage[c]]
    /\ promise' = [c \in Casts |-> IF c \in ToCancel THEN "cancel" ELSE promise[c]]
    /\ called' = [c \in Casts |-> IF c \in ToCancel THEN called[c] + 1 ELSE called[c]]
    /\ DestroyModals
    /\ iframes' = iframes \ sessions
    /\ bridges' = bridges \ sessions /\ timers' = timers \ sessions
    /\ sessions' = {}

Load(c) == LoadFails(c) \/ NoMatch(c) \/ Direct(c) \/ OpenModal(c)
Choose(c) == Select(c) \/ Cancel(c)
Connect(c) == ConnectFails(c) \/ Connected(c)

Next ==
    \/ \E c \in Casts : \/ CastIntent(c) \/ Load(c) \/ Choose(c) \/ Connect(c)
                        \/ HandleSessionResolve(c) \/ Watchdog(c)
    \/ Destroy
    \/ PageStep /\ UNCHANGED <<destroyed, stage, promise, called, iframes, session>>

Spec == Init /\ [][Next]_vars

\* A connect settles, a timer that is set fires, and the fetch a cast waits
\* for rejects once it is aborted.  Nobody has to choose in a modal.
Fairness ==
    \A c \in Casts : /\ WF_vars(Connect(c)) /\ WF_vars(Watchdog(c))
                     /\ WF_vars(destroyed /\ LoadFails(c))

FairSpec == Spec /\ Fairness
-----------------------------------------------------------------------------
(* Correctness.                                                            *)

\* A callback is never called twice, and always before its promise tells of a
\* cancel or a result, whichever of watchdog, child, user and destroy is
\* first (INT-01); a promise rejected without it is one of a cast that never
\* got to a modal or an iframe.
CallbackOnce ==
    \A c \in Casts :
        /\ called[c] <= 1
        /\ promise[c] \in {"cancel", "result"} => called[c] = 1
        /\ stage[c] = "over" /\ called[c] = 0 => promise[c] = "rejected"

\* Of a cast that is over nothing is left: no modal, iframe, connection, map
\* entry or timer; and of any other, just what its stage needs.  After destroy
\* that is the iframe of a cast that is still connecting.
NothingLeftBehind ==
    /\ ToSet(modals) = {c \in Casts : stage[c] = "choosing"}
    /\ iframes = {c \in Casts : stage[c] \in {"connecting", "session"}}
    /\ bridges = sessions /\ timers = sessions
    /\ sessions = {c \in Casts : stage[c] = "session"}
    /\ destroyed => modals = <<>> /\ sessions = {}

\* The body is locked while a modal is open, and scrolls again when neither a
\* modal nor an iframe is left, as long as modals are closed in the order
\* opposite to that of their opening.  While an iframe is open without a modal
\* the code does not lock it, though scroll-lock.ts:4 and IFR-10 say it does:
\* of that time nothing is claimed.
LockedWhileOpen ==
    ~crossed => /\ modals # <<>> => overflow = "hidden"
                /\ modals = <<>> /\ iframes = {} => overflow = "page"

\* ... it scrolls again in whatever order they are closed (scroll-lock.ts:5-6,
\* "on every close path"; IFR-10).
ScrollRestored == modals = <<>> /\ iframes = {} => overflow = "page"

\* The focus leaves a modal it is in only when a modal is closed, or by a click
\* on what cannot have the focus, which takes it to the body: no key does it, no
\* animation frame of another modal, no modal that opens, no answer or timer.
\* This is less than focus-trap.ts:17 says ("focus cannot leave the modal while
\* open"): after such a click a Tab is a key of the body, which the trap does not
\* hear, and FocusByUser takes the focus to the page with the modal still open.
TrapHolds ==
    [][\A c \in Casts :
         focus \in InModal(c) /\ focus' \notin InModal(c)
           => Blur \/ ~(ToSet(modals) \subseteq ToSet(modals'))]_vars

\* When the last modal goes, by the user or by destroy, the focus is back on
\* the element that had it when the first one opened (UI-07), wherever it was
\* meanwhile and however many there were, if they were closed in the order
\* opposite to that of their opening and the element is still there.
FocusReturns ==
    [][modals # <<>> /\ modals' = <<>> /\ ~crossed' /\ home \in OnPage
       => focus' = home]_vars

\* When the animation frame after its opening has run, the focus is in the
\* modal (modal.test.ts:178, UI-06 "confines keyboard focus inside modal").
FocusEnters ==
    [][\A c \in ToSet(modals) : AnimationFrame(c) => focus' \in InModal(c)]_vars

\* An iframe session ends, by its child or by the watchdog; after destroy
\* every cast does.
CastsEnd ==
    \A c \in Casts :
        /\ stage[c] \in {"connecting", "session"} ~> stage[c] = "over"
        /\ destroyed /\ stage[c] # "none" ~> stage[c] = "over"
=============================================================================
