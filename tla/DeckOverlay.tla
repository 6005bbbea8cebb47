----------------------------- MODULE DeckOverlay -----------------------------
(* The overlay of <deck-stage>, the bar with the controls: what shows it,   *)
(* the timer that hides it, the pins that keep it, and presenting, which    *)
(* allows the pointer and the keyboard focus only to call it.  And the      *)
(* notice of a refused gesture, the other surface with a timer.             *)

VARIABLES
    presenting,  \* _presenting
    visible,     \* data-visible
    timer,       \* _hideTimer
    hover, pin,  \* _overlayHover, _overlayFocus
    over,        \* the browser has the pointer on the overlay
    focus,       \* how the focus came to the overlay
    summoned,    \* history: a pointer or the focus called it in this mode
    notice       \* the notice is shown and its timer runs

user == <<over, focus>>
vars == <<presenting, visible, timer, hover, pin, user, summoned, notice>>

TypeOK ==
    /\ {presenting, visible, timer, hover, pin, over, summoned, notice} \subseteq BOOLEAN
    /\ focus \in {"none", "click", "key"}

Init ==
    /\ presenting = FALSE
    /\ visible = FALSE /\ timer = FALSE
    /\ hover = FALSE /\ pin = FALSE
    /\ over = FALSE /\ focus = "none"
    /\ summoned = FALSE /\ notice = FALSE

-----------------------------------------------------------------------------

(* _flashOverlay.                                                          *)
Flash(source) ==
    IF presenting /\ source = "auto" THEN UNCHANGED <<visible, timer>>
    ELSE visible' = TRUE /\ timer' = TRUE

(* A slide change or a navigation key.                                     *)
Navigate ==
    /\ Flash("auto")
    /\ UNCHANGED <<presenting, hover, pin, user, summoned, notice>>

MouseMove ==
    /\ Flash("pointer") /\ summoned' = TRUE
    /\ UNCHANGED <<presenting, hover, pin, user, notice>>

(* A hidden overlay lets the pointer through.                              *)
MouseEnter ==
    /\ visible /\ ~over /\ over' = TRUE
    /\ hover' = TRUE
    /\ Flash("pointer") /\ summoned' = TRUE
    /\ UNCHANGED <<presenting, pin, focus, notice>>

(* Also fired when the overlay is hidden under the pointer.                *)
MouseLeave ==
    /\ over /\ over' = FALSE
    /\ hover' = FALSE
    /\ IF hover \/ visible THEN Flash("pointer") ELSE UNCHANGED <<visible, timer>>
    /\ UNCHANGED <<presenting, pin, focus, summoned, notice>>

(* The focus comes to a control, or moves from one to another: only that   *)
(* of the keyboard pins, and it reaches a hidden overlay too.              *)
FocusIn(how) ==
    /\ how = "click" => over /\ visible
    /\ focus' = how
    /\ IF how = "key" THEN pin' = TRUE /\ Flash("pointer") /\ summoned' = TRUE
       ELSE UNCHANGED <<pin, visible, timer, summoned>>
    /\ UNCHANGED <<presenting, hover, over, notice>>

(* Mutant: the idle fade is not resumed. *)
FocusOutOnlyUnpins ==
    /\ focus # "none" /\ focus' = "none"
    /\ pin' = FALSE
    /\ UNCHANGED <<presenting, visible, timer, hover, over, summoned, notice>>

(* The focus leaves the overlay.                                           *)
FocusOut ==
    /\ focus # "none" /\ focus' = "none"
    /\ pin' = FALSE
    /\ IF pin \/ visible THEN Flash("pointer") ELSE UNCHANGED <<visible, timer>>
    /\ UNCHANGED <<presenting, hover, over, summoned, notice>>

(* The callback of _hideTimer.  A pinned overlay stays, and has no timer.  *)
HideTimer ==
    /\ timer /\ timer' = FALSE
    /\ visible' = (visible /\ (hover \/ pin))
    /\ UNCHANGED <<presenting, hover, pin, user, summoned, notice>>

(* The host's message; one that changes nothing does nothing.              *)
Present(on) ==
    /\ on # presenting /\ presenting' = on
    /\ hover' = FALSE /\ pin' = FALSE
    /\ visible' = FALSE /\ timer' = FALSE /\ summoned' = FALSE
    /\ UNCHANGED <<user, notice>>

(* The callback of _streamNoticeTimer.                                     *)
NoticeTimer ==
    /\ notice /\ notice' = FALSE
    /\ UNCHANGED <<presenting, visible, timer, hover, pin, user, summoned>>

(* _showNotice: a gesture in the rail, which a presented deck has not, is  *)
(* refused.  A presentation that begins now leaves the notice.             *)
ShowNotice ==
    /\ ~presenting
    /\ notice' = TRUE
    /\ UNCHANGED <<presenting, visible, timer, hover, pin, user, summoned>>

Next ==
    \/ Navigate \/ MouseMove \/ MouseEnter \/ MouseLeave
    \/ \E how \in {"click", "key"} : FocusIn(how)
    \/ FocusOut \/ HideTimer
    \/ \E on \in BOOLEAN : Present(on)
    \/ ShowNotice \/ NoticeTimer

(* Timers that were set fire. *)
Fairness == WF_vars(HideTimer) /\ WF_vars(NoticeTimer)

Spec == Init /\ [][Next]_vars /\ Fairness

-----------------------------------------------------------------------------

(* While the deck is presented the overlay is on screen only if a pointer  *)
(* or the keyboard focus called it since the presentation began: never     *)
(* left over from before, shown by a change of slide, or popped up because *)
(* it was hidden under the pointer.                                        *)
AudienceSeesNoChrome == presenting /\ visible => summoned

(* What is on screen without a timer is held by a pointer or a focus that  *)
(* is still there, so that some event will resume the fade.                *)
UntimedIsHeld ==
    visible /\ ~timer => (hover /\ over) \/ (pin /\ focus # "none")

(* An overlay nobody points at or has the focus in does not stay, and no   *)
(* notice does.                                                            *)
OverlayFades ==
    /\ []<>(~visible \/ over \/ focus # "none")
    /\ []<>~notice

=============================================================================
