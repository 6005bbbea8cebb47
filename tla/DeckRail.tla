------------------------------- MODULE DeckRail -------------------------------
(* The room of the thumbnail rail in <deck-stage>: what hides the rail, the *)
(* left edge of the stage, the size of the thumbnails, and the modes the   *)
(* page's host sets (presenting, preview).  The slides and what the rail   *)
(* does to them are in DeckStage, the controls in DeckOverlay.  The scale  *)
(* of the stage is left out: it follows from its left edge.                *)
EXTENDS Integers

CONSTANTS
    Pointer,  \* places of the pointer, in pixels, while the rail is resized
    Design    \* values of the width attribute

VARIABLES
    noRail, noScale, design,  \* the attributes no-rail, noscale and width
    narrow,      \* the window is at most 640 pixels wide (NARROW_MQ)
    resized,     \* the resize event of the last change is on its way
    enabled,     \* _railEnabled
    wanted,      \* _railVisible
    stored,      \* localStorage: the rail is wanted
    presenting,  \* _presenting
    preview,     \* _previewMode
    railPx,      \* _railPx
    gone, slid,  \* data-presenting and data-user-hidden on the rail
    left,        \* left edge of the stage
    scale,       \* the widths the thumbnails are scaled to and from
    raf,         \* _scaleRaf, or the frame _renderRail asks for
    surface      \* what the rail has opened: its menu, the dialog or nothing

page == <<noRail, noScale, design, narrow, resized>>
modes == <<enabled, wanted, stored, presenting, preview>>
vars == <<page, modes, railPx, gone, slid, left, scale, raf, surface>>

TypeOK ==
    /\ {noRail, noScale, narrow, resized, enabled, wanted, stored, presenting,
        preview, gone, slid, raf} \subseteq BOOLEAN
    /\ design \in Design
    /\ railPx \in 120..360 /\ left \in {0} \union 120..360
    /\ scale \in {<<0, 1>>} \union ((120..360) \X Design)
    /\ surface \in {"none", "menu", "dialog"}

-----------------------------------------------------------------------------
(* Layout.                                                                 *)

(* The rail has a box: what the style sheet leaves of display.             *)
RailShown == ~noRail /\ ~noScale /\ ~gone /\ ~narrow

(* Mutant: the preview mode is forgotten. *)
RailWidthInPreview ==
    IF enabled /\ wanted /\ ~noRail /\ ~noScale /\ ~presenting /\ ~narrow
    THEN railPx ELSE 0

(* _railWidth: from the state, since the first layout may not be done yet. *)
RailWidth ==
    IF enabled /\ wanted /\ ~noRail /\ ~noScale /\ ~presenting /\ ~preview /\ ~narrow
    THEN railPx ELSE 0

(* _fit.  With noscale the left edge is 0, and so is RailWidth.            *)
Fit == left' = RailWidth'

(* _scaleThumbs: nothing to do while the frames have no width.             *)
ScaleThumbs == scale' = IF enabled' /\ RailShown' THEN <<railPx', design'>> ELSE scale

SyncRailHidden ==
    /\ gone' = (~enabled' \/ presenting' \/ preview')
    /\ slid' = ~wanted'

(* connectedCallback, with _render and _enableRail.                        *)
Init ==
    /\ noRail \in BOOLEAN /\ noScale \in BOOLEAN /\ design \in Design
    /\ narrow \in BOOLEAN /\ resized = FALSE
    /\ enabled = ~noRail
    /\ stored \in BOOLEAN /\ wanted = (enabled /\ stored)
    /\ presenting = FALSE /\ preview = FALSE
    /\ railPx \in {120, 188, 360}
    /\ gone = noRail /\ slid = ~wanted
    /\ left = RailWidth /\ scale = <<0, 1>> /\ raf = TRUE
    /\ surface = "none"

(* attributeChangedCallback.                                               *)
AttributeChanges ==
    /\ noRail' \in BOOLEAN /\ noScale' \in BOOLEAN /\ design' \in Design
    /\ UNCHANGED <<narrow, resized, modes, railPx, gone, slid, raf, surface>>
    /\ Fit /\ ScaleThumbs

(* The window crosses the width where the style sheet drops the rail.      *)
WindowCrosses ==
    /\ narrow' = ~narrow /\ resized' = TRUE
    /\ UNCHANGED <<noRail, noScale, design, modes, railPx, gone, slid, left, scale,
                   raf, surface>>

(* _onResize.                                                              *)
OnResize ==
    /\ resized /\ resized' = FALSE
    /\ raf' = TRUE
    /\ UNCHANGED <<noRail, noScale, design, narrow, modes, railPx, gone, slid, scale,
                   surface>>
    /\ Fit

Frame ==
    /\ raf /\ raf' = FALSE
    /\ UNCHANGED <<page, modes, railPx, gone, slid, left, surface>>
    /\ ScaleThumbs

(* Mutant: the width is taken as the pointer gives it. *)
SetRailWidthRaw(px) ==
    /\ railPx' = px
    /\ raf' = TRUE
    /\ UNCHANGED <<page, modes, gone, slid, scale, surface>>
    /\ Fit

(* _setRailWidth, while the handle is dragged.  The handle holds the       *)
(* pointer (setPointerCapture), so a mode may change under the drag.       *)
SetRailWidth(px) ==
    /\ railPx' = IF px < 120 THEN 120 ELSE IF px > 360 THEN 360 ELSE px
    /\ raf' = TRUE
    /\ UNCHANGED <<page, modes, gone, slid, scale, surface>>
    /\ Fit

-----------------------------------------------------------------------------
(* Messages of the host (_onMessage).  One that changes nothing does       *)
(* nothing: the host may deliver twice.  What they do to the overlay is in *)
(* DeckOverlay, and the acknowledgement of edits in DeckStage.             *)

Presenting(on) ==
    /\ on # presenting /\ presenting' = on
    /\ surface' = "none"
    /\ UNCHANGED <<page, enabled, wanted, stored, preview, railPx, raf>>
    /\ SyncRailHidden /\ Fit /\ ScaleThumbs

Preview(on) ==
    /\ on # preview /\ preview' = on
    /\ surface' = "none"
    /\ UNCHANGED <<page, enabled, wanted, stored, presenting, railPx, raf>>
    /\ SyncRailHidden /\ Fit /\ ScaleThumbs

(* Until the rail is enabled _railVisible is undefined: FALSE here, but a  *)
(* message with FALSE is a change.                                         *)
RailVisible(on) ==
    /\ on # wanted \/ ~enabled
    /\ wanted' = on /\ stored' = on
    /\ UNCHANGED <<page, enabled, presenting, preview, railPx, raf, surface>>
    /\ SyncRailHidden /\ Fit /\ ScaleThumbs

(* _enableRail: removing the attribute no-rail is not enough.              *)
EnableRail ==
    /\ ~enabled /\ ~noRail
    /\ enabled' = TRUE /\ wanted' = stored
    /\ raf' = TRUE
    /\ UNCHANGED <<page, stored, presenting, preview, railPx, scale, surface>>
    /\ SyncRailHidden /\ Fit

(* The menu, or by the Delete key the dialog, from a thumbnail; the dialog *)
(* from the menu.  The rail is inert while it is hidden.                   *)
OpenSurface(s) ==
    /\ s # surface
    /\ \/ surface = "menu"
       \/ surface = "none" /\ enabled /\ RailShown /\ ~slid
    /\ surface' = s
    /\ UNCHANGED <<page, modes, railPx, gone, slid, left, scale, raf>>

CloseSurface ==
    /\ surface # "none" /\ surface' = "none"
    /\ UNCHANGED <<page, modes, railPx, gone, slid, left, scale, raf>>

-----------------------------------------------------------------------------

OnMessage ==
    \/ \E on \in BOOLEAN : Presenting(on) \/ Preview(on) \/ RailVisible(on)
    \/ EnableRail

Next ==
    \/ AttributeChanges \/ WindowCrosses \/ OnResize \/ Frame
    \/ \E px \in Pointer : SetRailWidth(px)
    \/ OnMessage
    \/ \E s \in {"menu", "dialog"} : OpenSurface(s)
    \/ CloseSurface

Spec == Init /\ [][Next]_vars

-----------------------------------------------------------------------------

(* A menu or dialog of the rail is never open over a presented or          *)
(* previewed deck.                                                         *)
ShownIsNotEdited == presenting \/ preview => surface = "none"

(* The stage leaves exactly the room of the rail that is on screen, in     *)
(* every combination of modes, attributes and window widths.               *)
StageFitsRail ==
    ~resized => left = IF RailShown /\ ~slid THEN railPx ELSE 0

(* Once the frame asked for has come, the thumbnails of a rail that has a  *)
(* box are scaled from the present design width to the present rail: a     *)
(* change made while the rail was hidden is caught up when it is revealed. *)
ThumbsFitRail ==
    enabled /\ RailShown /\ ~raf /\ ~resized => scale = <<railPx, design>>

=============================================================================
