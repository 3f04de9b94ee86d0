------------------------------- MODULE Modals -------------------------------
(***************************************************************************)
(* What the open chooser modals do to the page: buildModal and its destroy *)
(* (ui/modal.ts), the scroll lock (ui/scroll-lock.ts), the focus trap      *)
(* (ui/focus-trap.ts) and the keyboard.  A modal lists Items applications, *)
(* at the positions 1..Items, and has a cancel button after them.          *)
(* IntentSessions opens and closes the modals.                             *)
(*                                                                         *)
(* Of the browser: the hosts of later modals cover those of earlier ones;  *)
(* a shadow host reads as document.activeElement and cannot have the focus *)
(* itself; focus() on what is not in the page does nothing.                *)
(***************************************************************************)
EXTENDS Naturals, Sequences, FiniteSets, SequencesExt

CONSTANTS
    Casts,          \* calls of castIntent, each with at most one modal
    Elements,       \* focusable elements of the host page
    Items           \* applications in a modal

ASSUME ItemsAssumption == Items \in Nat \ {0, 1}

VARIABLES
    modals,         \* the open modals, in the order they opened
    prev,           \* prev[c]: the overflow lockBodyScroll saw for c's modal
    overflow,       \* document.body.style.overflow
    previousFocus,  \* previousFocus[c]: an element of the page, or Body
    focus,          \* <<owner, position>> of document.activeElement
    frames,         \* pending animation frames of trapFocus: <<c, position>>
    detached,       \* elements the page has removed
    home,           \* focus when the first of the open modals was opened
    crossed         \* was a modal ever closed under a later one?

lock == <<prev, overflow, crossed>>
keys == <<previousFocus, focus, frames, detached, home>>
page == <<modals, lock, keys>>
-----------------------------------------------------------------------------
CancelButton == Items + 1
Positions == 1..CancelButton
InModal(c) == {c} \X Positions

\* No position: getFocusableElements()[0] is undefined.
Undefined == 0

\* The focus is on an element of the page, in a modal, or nowhere (document.body,
\* which is no element to give the focus to).
Body == <<"body", 0>>
OnPage == (Elements \ detached) \X {0}

PageTypeOK ==
    /\ modals \in Seq(Casts) /\ IsInjective(modals)
    /\ prev \in [Casts -> {"page", "hidden"}] /\ overflow \in {"page", "hidden"}
    /\ previousFocus \in [Casts -> Elements \X {0} \cup {Body}]
    /\ focus \in OnPage \cup {Body} \cup ToSet(modals) \X Positions
    /\ frames \in SUBSET (Casts \X (Positions \cup {Undefined}))
    /\ detached \in SUBSET Elements
    /\ home \in Elements \X {0} \cup {Body}
    /\ crossed \in BOOLEAN

PageInit ==
    /\ modals = <<>> /\ prev = [c \in Casts |-> "page"] /\ overflow = "page"
    /\ previousFocus = [c \in Casts |-> Body]
    /\ detached = {} /\ focus \in OnPage \cup {Body} /\ home = Body
    /\ frames = {} /\ crossed = FALSE
-----------------------------------------------------------------------------
(* buildModal and destroy.                                                 *)

\* getFocusableElements()[0] of c's modal, if the modal is in the page.
FirstFocusable(c, inPage) == IF c \in ToSet(inPage) THEN 1 ELSE Undefined

\* buildModal, then root.appendChild(modal.element): the trap looks for the
\* first element before the modal is in its root.
BuildModal(c) ==
    /\ prev' = [prev EXCEPT ![c] = overflow] /\ overflow' = "hidden"
    /\ previousFocus' = [previousFocus EXCEPT ![c] =
                            IF focus \in OnPage THEN focus ELSE Body]
    /\ frames' = frames \cup {<<c, FirstFocusable(c, modals)>>}
    /\ modals' = Append(modals, c)
    /\ home' = IF modals = <<>> THEN focus ELSE home
    /\ UNCHANGED <<focus, detached, crossed>>

RestoredMutant(c, f) ==      \* without previousFocus.focus()
    IF f \in InModal(c) THEN Body ELSE f

\* Where the focus f goes when c's modal is destroyed.
Restored(c, f) ==
    IF previousFocus[c] \in OnPage THEN previousFocus[c]
    ELSE IF f \in InModal(c) THEN Body ELSE f

RemoveModal(c) ==
    /\ modals' = RemoveFirst(modals, c)
    /\ focus' = Restored(c, focus)
    /\ previousFocus' = [previousFocus EXCEPT ![c] = Body]
    /\ crossed' = (crossed \/ Last(modals) # c)
    /\ UNCHANGED <<prev, frames, detached, home>>

DestroyModalMutant(c) == RemoveModal(c) /\ UNCHANGED overflow

\* modal.destroy(): the focus goes back, the modal goes, then restoreScroll.
DestroyModal(c) == RemoveModal(c) /\ overflow' = prev[c]

\* Where it goes when all are destroyed, the last opened first: the last word
\* has the first opened of those whose element is still in the page.
RestoredByAll ==
    LET kept(i) == previousFocus[modals[i]] \in OnPage
        first == {i \in DOMAIN modals : kept(i) /\ \A j \in 1..(i - 1) : ~kept(j)}
    IN  IF first # {} THEN previousFocus[modals[CHOOSE i \in first : TRUE]]
        ELSE IF \E c \in ToSet(modals) : focus \in InModal(c) THEN Body ELSE focus

DestroyModals ==
    /\ modals' = <<>>
    /\ focus' = RestoredByAll
    /\ previousFocus' = [c \in Casts |-> Body]
    /\ overflow' = IF modals = <<>> THEN overflow ELSE prev[Head(modals)]
    /\ UNCHANGED <<prev, crossed, frames, detached, home>>

\* The user acts on c's modal: by the pointer when no other covers it, by the
\* keyboard (Escape, Enter) when it has the focus.
Reaches(c) ==
    /\ c \in ToSet(modals)
    /\ c = Last(modals) \/ focus \in InModal(c)
-----------------------------------------------------------------------------
(* The keyboard, the pointer and the page.                                 *)

Focus(f) == focus' = f /\ UNCHANGED <<modals, lock, previousFocus, frames, detached, home>>

\* requestAnimationFrame of trapFocus.
AnimationFrame(c) ==
    \E p \in Positions \cup {Undefined} :
        /\ <<c, p>> \in frames
        /\ frames' = frames \ {<<c, p>>}
        /\ focus' = IF p # Undefined /\ c \in ToSet(modals) THEN <<c, p>> ELSE focus
        /\ UNCHANGED <<modals, lock, previousFocus, detached, home>>

TabMutant(c) ==      \* the last element does not wrap
    /\ focus \in InModal(c)
    /\ \/ focus[2] < CancelButton /\ Focus(<<c, focus[2] + 1>>)
       \/ focus[2] = CancelButton /\ \E e \in OnPage : Focus(e)

\* Tab and Shift-Tab in a modal: the trap wraps around at either end.
Tab(c) ==
    /\ focus \in InModal(c)
    /\ \/ Focus(<<c, (focus[2] % CancelButton) + 1>>)
       \/ Focus(<<c, IF focus[2] = 1 THEN CancelButton ELSE focus[2] - 1>>)

\* The place of the item in the list; the cancel button counts as before all.
Index(p) == IF p = CancelButton THEN 0 ELSE p
NavigateMutant(c) ==      \* ArrowUp without Math.max
    /\ focus \in InModal(c)
    /\ Focus(<<c, Index(focus[2]) - 1>>)

\* Home, End, ArrowDown and ArrowUp stop at the ends of the list.
Navigate(c) ==
    /\ focus \in InModal(c)
    /\ LET idx == Index(focus[2])
       IN  \E p \in {1, Items, IF idx < Items THEN idx + 1 ELSE Items,
                     IF idx > 1 THEN idx - 1 ELSE 1} : Focus(<<c, p>>)

\* Tab outside the modals, and a click on an element of the page that no modal
\* covers: anything may get the focus.
FocusByUser ==
    /\ focus \in OnPage \cup {Body}
    /\ \E f \in OnPage \cup ToSet(modals) \X Positions : Focus(f)

\* A click on what cannot have the focus: the page, a dialog between its elements.
Blur == Focus(Body)

\* The page removes an element.
RemoveElement(e) ==
    /\ e \notin detached /\ detached' = detached \cup {e}
    /\ focus' = IF focus = <<e, 0>> THEN Body ELSE focus
    /\ UNCHANGED <<modals, lock, previousFocus, frames, home>>

PageStep ==
    \/ \E c \in Casts : AnimationFrame(c) \/ Tab(c) \/ Navigate(c)
    \/ FocusByUser \/ Blur
    \/ \E e \in Elements : RemoveElement(e)
=============================================================================
