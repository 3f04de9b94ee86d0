------------------------ MODULE IntentSessionsProofs ------------------------
(***************************************************************************)
(* Proofs about IntentSessions and Modals, for any casts, any elements of  *)
(* the page and any number of applications in a modal.                     *)
(***************************************************************************)
EXTENDS IntentSessions, SequenceTheorems, TLAPS

\* A cast is called back by the step that ends it, or rejected by it.
CallbackInv ==
    \A c \in Casts :
        /\ stage[c] # "over" => called[c] = 0 /\ promise[c] = "pending"
        /\ called[c] <= 1
        /\ promise[c] \in {"cancel", "result"} => called[c] = 1
        /\ stage[c] = "over" /\ called[c] = 0 => promise[c] = "rejected"

\* The modals form a stack: the first saw the page's overflow, those above it
\* the one the first had set.
LockInv ==
    ~crossed =>
        /\ modals = <<>> => overflow = "page"
        /\ modals # <<>> => overflow = "hidden" /\ prev[modals[1]] = "page"
        /\ \A i \in 2..Len(modals) : prev[modals[i]] = "hidden"

\* No frame takes the focus to another modal than its own, and the first modal
\* of the stack remembers the element the page had the focus on.
FocusInv ==
    /\ frames \subseteq Casts \X {Undefined}
    /\ ~crossed /\ modals # <<>> /\ home \in OnPage
         => previousFocus[modals[1]] = home

PageInv == PageTypeOK /\ LockInv /\ FocusInv

\* The variables of IntentSessions alone.
CastTypeOK ==
    /\ destroyed \in BOOLEAN
    /\ stage \in [Casts -> Stages]
    /\ promise \in [Casts -> Promises]
    /\ called \in [Casts -> Nat]
    /\ iframes \in SUBSET Casts /\ bridges \in SUBSET Casts
    /\ sessions \in SUBSET Casts /\ timers \in SUBSET Casts

CastInv == CastTypeOK /\ NothingLeftBehind /\ CallbackInv

IInv == CastInv /\ PageInv
-----------------------------------------------------------------------------
(* The stack of modals.                                                    *)

\* RemoveFirst takes the one place of e out of a sequence without repetition.
LEMMA RemoveFirstPlace ==
    ASSUME NEW S, NEW s \in Seq(S), IsInjective(s), NEW k \in 1..Len(s)
    PROVE  /\ RemoveFirst(s, s[k]) \in Seq(S)
           /\ Len(RemoveFirst(s, s[k])) = Len(s) - 1
           /\ \A i \in 1..(Len(s) - 1) :
                RemoveFirst(s, s[k])[i] = IF i < k THEN s[i] ELSE s[i + 1]
<1> DEFINE a == SubSeq(s, 1, k - 1)  b == SubSeq(s, k + 1, Len(s))
<1>1. \A i \in 1..Len(s) : s[i] = s[k] => i = k
  BY DEF IsInjective
<1>2. {i \in 1..Len(s) : s[i] = s[k]} = {k}
  BY <1>1
<1>3. Min({k}) = k
  BY DEF Min
<1>4. SelectInSeq(s, LAMBDA v : v = s[k]) = k
  BY <1>2, <1>3 DEF SelectInSeq
<1>5. RemoveFirst(s, s[k]) = a \o b
  BY <1>4 DEF RemoveFirst, RemoveAt
<1>6. a \in Seq(S) /\ Len(a) = k - 1 /\ \A i \in 1..(k - 1) : a[i] = s[i]
  OBVIOUS
<1>7. b \in Seq(S) /\ Len(b) = Len(s) - k /\ \A i \in 1..(Len(s) - k) : b[i] = s[k + i]
  OBVIOUS
<1> HIDE DEF a, b
<1>8. /\ a \o b \in Seq(S) /\ Len(a \o b) = Len(a) + Len(b)
      /\ \A i \in 1..(Len(a) + Len(b)) :
           (a \o b)[i] = IF i <= Len(a) THEN a[i] ELSE b[i - Len(a)]
  BY <1>6, <1>7, ConcatProperties
<1>9. a \o b \in Seq(S) /\ Len(a \o b) = Len(s) - 1
  BY <1>6, <1>7, <1>8
<1>10. ASSUME NEW i \in 1..(Len(s) - 1)
       PROVE  (a \o b)[i] = IF i < k THEN s[i] ELSE s[i + 1]
  <2>1. (a \o b)[i] = IF i <= k - 1 THEN a[i] ELSE b[i - (k - 1)]
    BY <1>6, <1>7, <1>8, <1>10
  <2>2. CASE i < k
    BY <1>6, <1>10, <2>1, <2>2
  <2>3. CASE i >= k
    <3>1. i - (k - 1) \in 1..(Len(s) - k) /\ k + (i - (k - 1)) = i + 1
      BY <1>10, <2>3
    <3>2. b[i - (k - 1)] = s[i + 1]
      BY <1>7, <3>1
    <3>3. ~(i <= k - 1) /\ ~(i < k)
      BY <1>10, <2>3
    <3> QED BY <2>1, <3>2, <3>3
  <2>4. i < k \/ i >= k
    BY <1>10
  <2> QED BY <2>2, <2>3, <2>4
<1> QED BY <1>5, <1>9, <1>10

\* What remains is without repetition too, and nothing but s[k] is gone.
LEMMA RemoveFirstKeeps ==
    ASSUME NEW S, NEW s \in Seq(S), IsInjective(s), NEW k \in 1..Len(s)
    PROVE  /\ IsInjective(RemoveFirst(s, s[k]))
           /\ ToSet(RemoveFirst(s, s[k])) = ToSet(s) \ {s[k]}
<1> DEFINE t == RemoveFirst(s, s[k])
<1>1. /\ t \in Seq(S) /\ Len(t) = Len(s) - 1
      /\ \A i \in 1..(Len(s) - 1) : t[i] = IF i < k THEN s[i] ELSE s[i + 1]
  BY RemoveFirstPlace
<1> HIDE DEF t
<1>2. DOMAIN t = 1..(Len(s) - 1) /\ DOMAIN s = 1..Len(s)
  BY <1>1
<1>3. IsInjective(t)
  BY <1>1, <1>2 DEF IsInjective
<1>4. ASSUME NEW i \in 1..Len(s), i # k
      PROVE  \E j \in 1..(Len(s) - 1) : t[j] = s[i]
  <2>1. CASE i < k
    BY <1>1, <2>1
  <2>2. CASE i > k
    <3>1. i - 1 \in 1..(Len(s) - 1) /\ t[i - 1] = s[i]
      BY <1>1, <2>2
    <3> QED BY <3>1
  <2> QED BY <1>4, <2>1, <2>2
<1>5. \A j \in 1..(Len(s) - 1) : \E i \in 1..Len(s) : i # k /\ t[j] = s[i]
  BY <1>1
<1>6. \A i \in 1..Len(s) : i # k => s[i] # s[k]
  BY DEF IsInjective
<1>7. ToSet(t) = ToSet(s) \ {s[k]}
  <2>1. /\ ToSet(t) = {t[j] : j \in 1..(Len(s) - 1)}
        /\ ToSet(s) = {s[j] : j \in 1..Len(s)}
    BY <1>2 DEF ToSet
  <2>2. \A x \in ToSet(s) \ {s[k]} : x \in ToSet(t)
    BY <2>1, <1>4
  <2>3. \A x \in ToSet(t) : x \in ToSet(s) \ {s[k]}
    BY <2>1, <1>5, <1>6
  <2> QED BY <2>2, <2>3
<1> QED BY <1>3, <1>7 DEF t

\* A modal opens on top of the stack.
LEMMA BuildModalPage ==
    ASSUME PageInv, NEW c \in Casts, c \notin ToSet(modals), BuildModal(c)
    PROVE  PageInv' /\ ToSet(modals') = ToSet(modals) \cup {c}
<1> USE DEF PageInv, PageTypeOK
<1>1. modals' \in Seq(Casts) /\ modals' # <<>> /\ Len(modals') = Len(modals) + 1
  BY DEF BuildModal
<1>2. \A i \in 1..Len(modals') :
         modals'[i] = IF i <= Len(modals) THEN modals[i] ELSE c
  BY DEF BuildModal
<1>3. \A i \in 1..Len(modals) : modals[i] # c
  BY DEF ToSet
<1>4. IsInjective(modals')
  BY <1>1, <1>2, <1>3 DEF IsInjective
<1>5. ToSet(modals') = ToSet(modals) \cup {c}
  <2>1. ToSet(modals') = {modals'[i] : i \in 1..Len(modals')}
    BY DEF ToSet
  <2>2. ToSet(modals) = {modals[i] : i \in 1..Len(modals)}
    BY DEF ToSet
  <2>3. \A x \in ToSet(modals) \cup {c} : x \in ToSet(modals')
    <3>1. \A i \in 1..Len(modals) : i \in 1..Len(modals') /\ modals'[i] = modals[i]
      BY <1>1, <1>2
    <3>2. Len(modals') \in 1..Len(modals') /\ modals'[Len(modals')] = c
      BY <1>1, <1>2
    <3> QED BY <2>1, <2>2, <3>1, <3>2
  <2>4. \A x \in ToSet(modals') : x \in ToSet(modals) \cup {c}
    BY <1>2, <2>1, <2>2
  <2> QED BY <2>3, <2>4
<1>6. PageTypeOK'
  <2>1. previousFocus' \in [Casts -> Elements \X {0} \cup {Body}]
    BY DEF BuildModal, OnPage
  <2>2. home' \in Elements \X {0} \cup {Body}
    <3>1. modals = <<>> => ToSet(modals) = {}
      BY DEF ToSet
    <3> QED BY <3>1 DEF BuildModal, OnPage
  <2>3. focus' \in OnPage' \cup {Body} \cup ToSet(modals') \X Positions
    BY <1>5 DEF BuildModal, OnPage
  <2>4. frames' \in SUBSET (Casts \X (Positions \cup {Undefined}))
    BY DEF BuildModal, FirstFocusable
  <2>5. prev' \in [Casts -> {"page", "hidden"}] /\ overflow' \in {"page", "hidden"}
    BY DEF BuildModal
  <2> QED BY <1>4, <2>1, <2>2, <2>3, <2>4 DEF BuildModal
<1>7. LockInv'
  BY <1>3 DEF BuildModal, LockInv
<1>8. FocusInv'
  BY <1>3 DEF BuildModal, FocusInv, FirstFocusable, OnPage
<1> QED BY <1>5, <1>6, <1>7, <1>8

\* Any modal of the stack goes.
LEMMA DestroyModalPage ==
    ASSUME PageInv, NEW c \in ToSet(modals), DestroyModal(c)
    PROVE  PageInv' /\ ToSet(modals') = ToSet(modals) \ {c}
<1> USE DEF PageInv, PageTypeOK
<1>1. PICK k \in 1..Len(modals) : modals[k] = c
  BY DEF ToSet
<1>2. modals' = RemoveFirst(modals, modals[k])
  BY <1>1 DEF DestroyModal, RemoveModal
<1>3. /\ modals' \in Seq(Casts) /\ Len(modals') = Len(modals) - 1
      /\ \A i \in 1..(Len(modals) - 1) :
           modals'[i] = IF i < k THEN modals[i] ELSE modals[i + 1]
  BY <1>2, RemoveFirstPlace
<1>4. IsInjective(modals') /\ ToSet(modals') = ToSet(modals) \ {c}
  BY <1>1, <1>2, RemoveFirstKeeps
<1>5. c \in Casts
  BY <1>1
<1>6. ~crossed' => ~crossed /\ k = Len(modals)
  <2>1. Len(modals) \in DOMAIN modals /\ k \in DOMAIN modals
    BY <1>1
  <2> QED BY <1>1, <2>1 DEF DestroyModal, RemoveModal, Last, IsInjective
<1>7. PageTypeOK'
  BY <1>3, <1>4, <1>5 DEF DestroyModal, RemoveModal, Restored, OnPage,
      InModal
<1>8. LockInv'
  BY <1>1, <1>3, <1>6 DEF DestroyModal, RemoveModal, LockInv
<1>9. FocusInv'
  BY <1>1, <1>3, <1>6 DEF DestroyModal, RemoveModal, FocusInv, OnPage,
      IsInjective
<1> QED BY <1>4, <1>7, <1>8, <1>9

\* All of them go, with destroy.
LEMMA DestroyModalsPage ==
    ASSUME PageInv, DestroyModals
    PROVE  PageInv' /\ modals' = <<>> /\ ToSet(modals') = {}
<1> USE DEF PageInv, PageTypeOK
<1>1. modals' = <<>> /\ ToSet(modals') = {} /\ IsInjective(modals')
  BY DEF DestroyModals, ToSet, IsInjective
<1>2. RestoredByAll \in OnPage \cup {Body}
  BY DEF RestoredByAll, InModal
<1>3. PageTypeOK'
  BY <1>1, <1>2 DEF DestroyModals, OnPage
<1>4. LockInv'
  BY DEF DestroyModals, LockInv
<1>5. FocusInv'
  BY DEF DestroyModals, FocusInv
<1> QED BY <1>1, <1>3, <1>4, <1>5

\* The keyboard, the pointer and the page leave the stack alone.
LEMMA PageStepPage ==
    ASSUME PageInv, PageStep
    PROVE  PageInv' /\ modals' = modals
<1> USE DEF PageInv, PageTypeOK
<1>1. ASSUME NEW f \in OnPage \cup {Body} \cup ToSet(modals) \X Positions, Focus(f)
      PROVE  PageInv' /\ modals' = modals
  BY <1>1 DEF Focus, lock, LockInv, FocusInv, OnPage
<1>2. ASSUME NEW c \in Casts, AnimationFrame(c)
      PROVE  PageInv' /\ modals' = modals
  BY <1>2 DEF AnimationFrame, lock, LockInv, FocusInv, OnPage
<1>3. ASSUME NEW c \in Casts, focus \in InModal(c)
      PROVE  c \in ToSet(modals)
  BY <1>3 DEF InModal, OnPage, Body, Positions
<1>4. ASSUME NEW c \in Casts, Tab(c)
      PROVE  PageInv' /\ modals' = modals
  BY <1>1, <1>3, <1>4, ItemsAssumption DEF Tab, InModal, Positions,
      CancelButton
<1>5. ASSUME NEW c \in Casts, Navigate(c)
      PROVE  PageInv' /\ modals' = modals
  BY <1>1, <1>3, <1>5, ItemsAssumption DEF Navigate, Index, InModal,
      Positions, CancelButton
<1>6. CASE FocusByUser \/ Blur
  BY <1>1, <1>6 DEF FocusByUser, Blur
<1>7. ASSUME NEW e \in Elements, RemoveElement(e)
      PROVE  PageInv' /\ modals' = modals
  BY <1>7 DEF RemoveElement, lock, LockInv, FocusInv, OnPage
<1> QED BY <1>2, <1>4, <1>5, <1>6, <1>7 DEF PageStep
-----------------------------------------------------------------------------
(* The casts.                                                              *)

\* A cast that has no modal: only its stage decides what it may have.
LEMMA LoadKeeps ==
    ASSUME IInv, NEW c \in Casts,
           CastIntent(c) \/ LoadFails(c) \/ NoMatch(c) \/ Direct(c)
    PROVE  CastInv' /\ UNCHANGED page
<1> USE DEF IInv, CastInv, CastTypeOK
<1>1. UNCHANGED page /\ UNCHANGED session /\ UNCHANGED destroyed
  BY DEF CastIntent, LoadFails, NoMatch, Direct, OpenIframe
<1>2. CastTypeOK'
  BY DEF CastIntent, LoadFails, NoMatch, Direct, OpenIframe, Goto, Reject,
      CallBack, session, Stages, Promises
<1>3. NothingLeftBehind'
  BY <1>1 DEF CastIntent, LoadFails, NoMatch, Direct, OpenIframe, Goto,
      session, page, NothingLeftBehind
<1>4. CallbackInv'
  BY DEF CastIntent, LoadFails, NoMatch, Direct, OpenIframe, Goto, Reject,
      CallBack, CallbackInv
<1> QED BY <1>1, <1>2, <1>3, <1>4

\* A chooser is opened on top of the others; the first locks the scroll.
LEMMA OpenModalKeeps ==
    ASSUME IInv, NEW c \in Casts, OpenModal(c)
    PROVE  CastInv' /\ PageInv'
<1> USE DEF IInv, CastInv, CastTypeOK
<1>1. c \notin ToSet(modals)
  BY DEF OpenModal, Goto, NothingLeftBehind
<1>2. PageInv' /\ ToSet(modals') = ToSet(modals) \cup {c}
  BY <1>1, BuildModalPage DEF OpenModal
<1>3. CastTypeOK'
  BY DEF OpenModal, Goto, session, Stages
<1>4. NothingLeftBehind'
  BY <1>2 DEF OpenModal, Goto, session, NothingLeftBehind
<1>5. CallbackInv'
  BY DEF OpenModal, Goto, CallbackInv
<1> QED BY <1>2, <1>3, <1>4, <1>5

\* A modal that is chosen in or dismissed goes, wherever it is.
LEMMA ChooseKeeps ==
    ASSUME IInv, NEW c \in Casts, Choose(c)
    PROVE  CastInv' /\ PageInv'
<1> USE DEF IInv, CastInv, CastTypeOK
<1>1. c \in ToSet(modals) /\ DestroyModal(c)
  BY DEF Choose, Select, Cancel, Reaches
<1>2. PageInv' /\ ToSet(modals') = ToSet(modals) \ {c}
  BY <1>1, DestroyModalPage
<1>3. CastTypeOK'
  BY DEF Choose, Select, Cancel, OpenIframe, Goto, CallBack, session, Stages,
      Promises
<1>4. NothingLeftBehind'
  <2>1. modals # <<>>
    BY <1>1 DEF ToSet
  <2>2. PICK to \in {"connecting", "over"} : stage' = [stage EXCEPT ![c] = to]
    BY DEF Choose, Select, Cancel, OpenIframe, Goto
  <2>3. stage[c] = "choosing" /\ UNCHANGED session /\ UNCHANGED destroyed
    BY DEF Choose, Select, Cancel, OpenIframe, Goto
  <2>4. iframes' = IF to = "connecting" THEN iframes \cup {c} ELSE iframes
    BY <2>2 DEF Choose, Select, Cancel, OpenIframe, Goto
  <2>5. ToSet(modals') = {d \in Casts : stage'[d] = "choosing"}
    BY <1>2, <2>2 DEF NothingLeftBehind
  <2>6. iframes' = {d \in Casts : stage'[d] \in {"connecting", "session"}}
    BY <2>2, <2>3, <2>4 DEF NothingLeftBehind
  <2>7. sessions' = {d \in Casts : stage'[d] = "session"}
    BY <2>2, <2>3 DEF NothingLeftBehind, session
  <2> QED BY <2>1, <2>3, <2>5, <2>6, <2>7 DEF NothingLeftBehind, session
<1>5. CallbackInv'
  BY DEF Choose, Select, Cancel, OpenIframe, Goto, CallBack, CallbackInv
<1> QED BY <1>2, <1>3, <1>4, <1>5

\* The handshake fails, comes too late or begins a session; no modal changes.
LEMMA ConnectKeeps ==
    ASSUME IInv, NEW c \in Casts, Connect(c)
    PROVE  CastInv' /\ UNCHANGED page
<1> USE DEF IInv, CastInv, CastTypeOK
<1>1. UNCHANGED page
  BY DEF Connect, ConnectFails, Connected, BeginSession
<1>2. CastTypeOK'
  BY DEF Connect, ConnectFails, Connected, BeginSession, Goto, CallBack,
      session, Stages, Promises
<1>3. NothingLeftBehind'
  <2>1. stage[c] = "connecting" /\ UNCHANGED <<modals, destroyed>>
    BY DEF Connect, ConnectFails, Connected, BeginSession, Goto, page
  <2>2. CASE /\ stage' = [stage EXCEPT ![c] = "over"]
             /\ iframes' = iframes \ {c} /\ UNCHANGED session
    BY <2>1, <2>2 DEF session, NothingLeftBehind
  <2>3. CASE /\ stage' = [stage EXCEPT ![c] = "session"] /\ UNCHANGED iframes
             /\ bridges' = bridges \cup {c} /\ sessions' = sessions \cup {c}
             /\ timers' = timers \cup {c} /\ ~destroyed
    BY <2>1, <2>3 DEF NothingLeftBehind
  <2> QED BY <2>2, <2>3 DEF Connect, ConnectFails, Connected, BeginSession,
              Goto
<1>4. CallbackInv'
  BY DEF Connect, ConnectFails, Connected, BeginSession, Goto, CallBack,
      CallbackInv
<1> QED BY <1>1, <1>2, <1>3, <1>4

\* The child and the watchdog: who comes second finds no session and no timer.
LEMMA EndKeeps ==
    ASSUME IInv, NEW c \in Casts, HandleSessionResolve(c) \/ Watchdog(c)
    PROVE  CastInv' /\ UNCHANGED page
<1> USE DEF IInv, CastInv, CastTypeOK
<1>1. UNCHANGED page
  BY DEF HandleSessionResolve, Watchdog
<1>2. stage[c] = "session"
  BY DEF HandleSessionResolve, Watchdog, NothingLeftBehind
<1>3. CastTypeOK'
  BY DEF HandleSessionResolve, Watchdog, TeardownSession, EndSession,
      CallBack, Stages, Promises
<1>4. NothingLeftBehind'
  <2>1. /\ stage' = [stage EXCEPT ![c] = "over"] /\ UNCHANGED <<modals, destroyed>>
        /\ bridges' = bridges \ {c} /\ iframes' = iframes \ {c}
        /\ sessions' = sessions \ {c} /\ timers' = timers \ {c}
    BY DEF HandleSessionResolve, Watchdog, TeardownSession, EndSession, page
  <2> QED BY <1>2, <2>1 DEF NothingLeftBehind
<1>5. CallbackInv'
  BY <1>2 DEF HandleSessionResolve, Watchdog, CallBack, CallbackInv
<1> QED BY <1>1, <1>3, <1>4, <1>5

\* destroy closes every modal and ends every session.
LEMMA DestroyKeeps ==
    ASSUME IInv, Destroy
    PROVE  CastInv' /\ PageInv'
<1> USE DEF IInv, CastInv, CastTypeOK
<1>1. PageInv' /\ modals' = <<>> /\ ToSet(modals') = {}
  BY DestroyModalsPage DEF Destroy
<1>2. ToCancel = {c \in Casts : stage[c] \in {"choosing", "session"}}
  BY DEF ToCancel, NothingLeftBehind
<1>3. CastTypeOK'
  BY DEF Destroy, Stages, Promises
<1>4. NothingLeftBehind'
  BY <1>1, <1>2 DEF Destroy, NothingLeftBehind
<1>5. CallbackInv'
  BY <1>2 DEF Destroy, CallbackInv
<1> QED BY <1>1, <1>3, <1>4, <1>5
-----------------------------------------------------------------------------
\* Nothing is open and nobody was called back.
LEMMA InitIInv == Init => IInv
<1> SUFFICES ASSUME Init PROVE IInv
  OBVIOUS
<1>1. modals = <<>> /\ ToSet(modals) = {} /\ IsInjective(modals)
  BY DEF Init, PageInit, ToSet, IsInjective
<1>2. PageTypeOK
  <2>1. modals \in Seq(Casts) /\ IsInjective(modals)
    BY <1>1
  <2>2. /\ prev \in [Casts -> {"page", "hidden"}] /\ overflow \in {"page", "hidden"}
        /\ previousFocus \in [Casts -> Elements \X {0} \cup {Body}]
    BY DEF Init, PageInit
  <2>3. focus \in OnPage \cup {Body} /\ frames = {} /\ detached = {} /\ home = Body
        /\ crossed = FALSE
    BY DEF Init, PageInit
  <2> QED BY <2>1, <2>2, <2>3 DEF PageTypeOK
<1>3. LockInv /\ FocusInv
  BY DEF Init, PageInit, LockInv, FocusInv
<1>4. CastInv
  <2>1. CastTypeOK
    BY DEF Init, CastTypeOK, Stages, Promises
  <2>2. NothingLeftBehind
    BY <1>1 DEF Init, NothingLeftBehind
  <2>3. CallbackInv
    BY DEF Init, CallbackInv
  <2> QED BY <2>1, <2>2, <2>3 DEF CastInv
<1> QED BY <1>2, <1>3, <1>4 DEF IInv, PageInv

\* What changes nothing of the page keeps its invariant.
LEMMA SamePage == PageInv /\ UNCHANGED page => PageInv'
BY DEF PageInv, PageTypeOK, LockInv, FocusInv, page, lock, keys, OnPage

\* No step of the application, the user or a capability breaks the invariant.
LEMMA StepIInv == IInv /\ [Next]_vars => IInv'
<1> SUFFICES ASSUME IInv, [Next]_vars PROVE IInv'
  OBVIOUS
<1> USE DEF IInv
<1>1. ASSUME NEW c \in Casts, CastIntent(c) PROVE IInv'
  BY <1>1, LoadKeeps, SamePage
<1>2. ASSUME NEW c \in Casts, Load(c) PROVE IInv'
  BY <1>2, LoadKeeps, OpenModalKeeps, SamePage DEF Load
<1>3. ASSUME NEW c \in Casts, Choose(c) PROVE IInv'
  BY <1>3, ChooseKeeps
<1>4. ASSUME NEW c \in Casts, Connect(c) PROVE IInv'
  BY <1>4, ConnectKeeps, SamePage
<1>5. ASSUME NEW c \in Casts, HandleSessionResolve(c) \/ Watchdog(c) PROVE IInv'
  BY <1>5, EndKeeps, SamePage
<1>6. CASE Destroy
  BY <1>6, DestroyKeeps
<1>7. CASE PageStep /\ UNCHANGED <<destroyed, stage, promise, called, iframes, session>>
  BY <1>7, PageStepPage DEF CastInv, CastTypeOK, NothingLeftBehind,
      CallbackInv, session
<1>8. CASE UNCHANGED vars
  BY <1>8, SamePage DEF vars, CastInv, CastTypeOK, NothingLeftBehind,
      CallbackInv, session, page
<1> QED BY <1>1, <1>2, <1>3, <1>4, <1>5, <1>6, <1>7, <1>8 DEF Next
-----------------------------------------------------------------------------
\* The inductive invariant holds in every state of the page.
THEOREM Invariance == Spec => []IInv
BY InitIInv, StepIInv, PTL DEF Spec

\* The variables of IntentSessions and of the page keep their types.
THEOREM TypeCorrect == Spec => []TypeOK
<1>1. IInv => TypeOK
  BY DEF IInv, CastInv, CastTypeOK, PageInv, TypeOK
<1> QED BY <1>1, Invariance, PTL

\* onCancel, finishSession and the cleanups of client.ts: whichever of the user,
\* the child, the watchdog and destroy is first, the others find nothing to do.
THEOREM CalledOnce == Spec => []CallbackOnce
<1>1. IInv => CallbackOnce
  BY DEF IInv, CastInv, CallbackInv, CallbackOnce
<1> QED BY <1>1, Invariance, PTL

\* The teardowns of client.ts and of abort-context.ts take away all a cast had.
THEOREM NothingIsLeft == Spec => []NothingLeftBehind
<1>1. IInv => NothingLeftBehind
  BY DEF IInv, CastInv
<1> QED BY <1>1, Invariance, PTL

\* The stages in the order in which a cast goes through them.
Rank(s) == CASE s = "none" -> 0
             [] s = "loading" -> 1
             [] s = "choosing" -> 2
             [] s = "connecting" -> 3
             [] s = "session" -> 4
             [] s = "over" -> 5

\* No step takes a cast back to an earlier stage, and one that is over keeps its
\* promise and is not called back again: late answers, the watchdog, clicks and
\* destroy find nothing of it.  So each cast makes five steps at most.
OverIsFinal ==
    [][\A c \in Casts :
         /\ stage'[c] # stage[c] => Rank(stage[c]) < Rank(stage'[c])
         /\ stage[c] = "over" => promise'[c] = promise[c] /\ called'[c] = called[c]]_vars

\* client.ts: a cast only goes forward, and its end is final.
THEOREM EndIsFinal == Spec => OverIsFinal
<1> DEFINE Forward(c) ==
             /\ stage'[c] # stage[c] => Rank(stage[c]) < Rank(stage'[c])
             /\ stage[c] = "over" => promise'[c] = promise[c] /\ called'[c] = called[c]
<1>1. ASSUME IInv, [Next]_vars, NEW c \in Casts PROVE Forward(c)
  <2> USE DEF IInv, CastInv, CastTypeOK, Rank
  <2>1. ASSUME NEW d \in Casts,
               CastIntent(d) \/ LoadFails(d) \/ NoMatch(d) \/ Direct(d) \/ OpenModal(d)
        PROVE  Forward(c)
    BY <1>1, <2>1 DEF CastIntent, LoadFails, NoMatch, Direct, OpenModal, OpenIframe, Goto,
        Reject, CallBack
  <2>2. ASSUME NEW d \in Casts, Choose(d) PROVE Forward(c)
    BY <1>1, <2>2 DEF Choose, Select, Cancel, OpenIframe, Goto, CallBack
  <2>3. ASSUME NEW d \in Casts, Connect(d) PROVE Forward(c)
    BY <1>1, <2>3 DEF Connect, ConnectFails, Connected, BeginSession, Goto, CallBack
  <2>4. ASSUME NEW d \in Casts, HandleSessionResolve(d) \/ Watchdog(d) PROVE Forward(c)
    <3>1. stage[d] = "session"
      BY <1>1, <2>4 DEF HandleSessionResolve, Watchdog, NothingLeftBehind
    <3> QED BY <1>1, <2>4, <3>1 DEF HandleSessionResolve, Watchdog, CallBack
  <2>5. CASE Destroy
    <3>1. ToCancel = {d \in Casts : stage[d] \in {"choosing", "session"}}
      BY <1>1 DEF ToCancel, NothingLeftBehind
    <3> QED BY <1>1, <2>5, <3>1 DEF Destroy
  <2>6. CASE UNCHANGED <<stage, promise, called>>
    BY <1>1, <2>6
  <2> QED BY <1>1, <2>1, <2>2, <2>3, <2>4, <2>5, <2>6 DEF Next, Load, vars
<1>2. IInv /\ [Next]_vars =>
        [\A c \in Casts :
           /\ stage'[c] # stage[c] => Rank(stage[c]) < Rank(stage'[c])
           /\ stage[c] = "over" => promise'[c] = promise[c] /\ called'[c] = called[c]]_vars
  BY <1>1
<1> QED BY <1>2, Invariance, PTL DEF Spec, OverIsFinal

\* lockBodyScroll and its restore, for modals that close as a stack does.  Of the
\* time an iframe is open without a modal it says nothing.
THEOREM ScrollIsLocked == Spec => []LockedWhileOpen
<1>1. IInv => LockedWhileOpen
  BY DEF IInv, PageInv, LockInv, LockedWhileOpen
<1> QED BY <1>1, Invariance, PTL

\* Modals close one by one or all at once: a step that closes none is one of the
\* user and the page, or leaves the focus where it is, also if it opens a modal.
LEMMA StepWithoutClosing ==
    ASSUME IInv, [Next]_vars, ToSet(modals) \subseteq ToSet(modals')
    PROVE  \/ PageStep
           \/ modals = <<>>
           \/ UNCHANGED focus
<1> USE DEF IInv, PageInv
<1>1. ASSUME NEW c \in Casts PROVE ~Choose(c)
  <2>1. ASSUME c \in ToSet(modals), DestroyModal(c) PROVE FALSE
    BY <2>1, DestroyModalPage
  <2> QED BY <2>1 DEF Choose, Select, Cancel, Reaches
<1>2. ASSUME NEW c \in Casts, CastIntent(c) \/ Load(c) \/ Connect(c)
                                 \/ HandleSessionResolve(c) \/ Watchdog(c)
      PROVE  UNCHANGED focus
  BY <1>2 DEF CastIntent, Load, LoadFails, NoMatch, Direct, OpenModal, BuildModal, Connect,
      ConnectFails, Connected, BeginSession, HandleSessionResolve, Watchdog,
      page, keys
<1>3. Destroy => modals = <<>>
  <2>1. ASSUME Destroy PROVE ToSet(modals) = {}
    BY <2>1, DestroyModalsPage DEF Destroy
  <2>2. modals # <<>> => modals[1] \in ToSet(modals)
    BY DEF PageTypeOK, ToSet
  <2> QED BY <2>1, <2>2
<1> QED BY <1>1, <1>2, <1>3 DEF Next, vars, page, keys

\* trapFocus and navigateItems: the focus stays in its modal, whatever keys, frames,
\* answers and new modals come, until a modal closes or a click takes it to the
\* body.  From there it can go on to the page, which this does not exclude.
THEOREM FocusIsTrapped == Spec => TrapHolds
<1>1. ASSUME IInv, [Next]_vars, NEW c \in Casts, focus \in InModal(c),
             ToSet(modals) \subseteq ToSet(modals'), ~Blur
      PROVE  focus' \in InModal(c)
  <2> USE DEF IInv, PageInv, PageTypeOK
  <2>1. focus \notin OnPage \cup {Body} /\ modals # <<>>
    BY <1>1 DEF InModal, OnPage, Body, Positions, ToSet
  <2>2. CASE PageStep
    <3>1. ASSUME NEW d \in Casts, AnimationFrame(d) PROVE UNCHANGED focus
      BY <1>1, <3>1 DEF AnimationFrame, FocusInv
    <3>2. ASSUME NEW d \in Casts, Tab(d) PROVE focus' \in InModal(c)
      BY <1>1, <3>2, ItemsAssumption DEF Tab, Focus, InModal, Positions,
          CancelButton
    <3>3. ASSUME NEW d \in Casts, Navigate(d) PROVE focus' \in InModal(c)
      BY <1>1, <3>3, ItemsAssumption DEF Navigate, Focus, Index, InModal,
          Positions, CancelButton
    <3>4. ~FocusByUser
      BY <2>1 DEF FocusByUser
    <3>5. ASSUME NEW e \in Elements, RemoveElement(e) PROVE UNCHANGED focus
      <4>1. focus # <<e, 0>>
        BY <1>1 DEF InModal, Positions
      <4> QED BY <3>5, <4>1 DEF RemoveElement
    <3> QED BY <1>1, <2>2, <3>1, <3>2, <3>3, <3>4, <3>5 DEF PageStep
  <2> QED BY <1>1, <2>1, <2>2, StepWithoutClosing
<1>2. IInv /\ [Next]_vars =>
        [\A c \in Casts :
           focus \in InModal(c) /\ focus' \notin InModal(c)
             => Blur \/ ~(ToSet(modals) \subseteq ToSet(modals'))]_vars
  BY <1>1
<1> QED BY <1>2, Invariance, PTL DEF Spec, TrapHolds

\* modal.destroy: the element that had the focus when the first modal opened
\* gets it back.
THEOREM FocusComesBack == Spec => FocusReturns
<1>1. ASSUME IInv, [Next]_vars, modals # <<>>, modals' = <<>>, ~crossed', home \in OnPage
      PROVE  focus' = home
  <2> USE DEF IInv, PageInv, PageTypeOK
  <2>1. 1 \in DOMAIN modals /\ Len(modals) \in Nat \ {0}
    BY <1>1
  <2>2. ASSUME NEW c \in ToSet(modals), DestroyModal(c)
        PROVE  focus' = home
    <3>1. PICK k \in 1..Len(modals) : modals[k] = c
      BY DEF ToSet
    <3>2. modals' = RemoveFirst(modals, modals[k])
      BY <2>2, <3>1 DEF DestroyModal, RemoveModal
    <3>3. Len(modals') = Len(modals) - 1
      BY <1>1, <3>2, RemoveFirstPlace
    <3>4. k = 1
      <4>1. Len(modals') = 0
        BY <1>1
      <4>2. Len(modals) = 1
        BY <3>3, <4>1
      <4> QED BY <4>2
    <3>5. previousFocus[c] = home
      BY <1>1, <2>2, <3>1, <3>4 DEF DestroyModal, RemoveModal, FocusInv
    <3> QED BY <1>1, <2>2, <3>5 DEF DestroyModal, RemoveModal, Restored
  <2>3. CASE Destroy
    <3>1. previousFocus[modals[1]] = home
      BY <1>1, <2>3 DEF Destroy, DestroyModals, FocusInv
    <3>2. {i \in DOMAIN modals :
              /\ previousFocus[modals[i]] \in OnPage
              /\ \A j \in 1..(i - 1) : ~(previousFocus[modals[j]] \in OnPage)} = {1}
      BY <1>1, <3>1
    <3>3. RestoredByAll = home
      BY <3>1, <3>2 DEF RestoredByAll
    <3> QED BY <2>3, <3>3 DEF Destroy, DestroyModals
  <2>4. ASSUME NEW c \in Casts, Choose(c) PROVE focus' = home
    BY <2>2, <2>4 DEF Choose, Select, Cancel, Reaches
  <2>5. ASSUME NEW c \in Casts, OpenModal(c) PROVE FALSE
    <3>1. Len(modals') = Len(modals) + 1
      BY <2>5 DEF OpenModal, BuildModal
    <3> QED BY <1>1, <3>1
  <2>6. ASSUME NEW c \in Casts, CastIntent(c) \/ Load(c) \/ Connect(c)
                                   \/ HandleSessionResolve(c) \/ Watchdog(c)
        PROVE  FALSE
    BY <1>1, <2>5, <2>6 DEF CastIntent, Load, LoadFails, NoMatch, Direct,
        Connect, ConnectFails, Connected, BeginSession, HandleSessionResolve,
        Watchdog, page
  <2>7. ~PageStep
    BY <1>1, PageStepPage
  <2> QED BY <1>1, <2>3, <2>4, <2>6, <2>7 DEF Next, vars, page
<1>2. IInv /\ [Next]_vars =>
        [modals # <<>> /\ modals' = <<>> /\ ~crossed' /\ home \in OnPage
         => focus' = home]_vars
  BY <1>1
<1> QED BY <1>2, Invariance, PTL DEF Spec, FocusReturns
=============================================================================
