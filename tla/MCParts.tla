------------------------------ MODULE MCParts ------------------------------
(* The parts of the system that share no state with any other: the login   *)
(* limiter, four parts of the slide deck and the cart of the mock-up shop. *)
(* No property relates two of them, and a step of one leaves the others    *)
(* as they are, so a behaviour moves one of them, part, and the others     *)
(* rest in one initial state: each part has all its behaviours.            *)
EXTENDS LoginLimiter, Sequences, FiniteSets

CONSTANTS Pointer, Design, Slides, HasRail, Pictured, Links, Shared, MaxEdits,
          Tabs, Shopping, Paying, Products, Low, First, Most, CartCeiling

ASSUME PartsConstants ==
    /\ Pointer \subseteq Nat /\ Design \subseteq Nat \ {0}
    /\ IsFiniteSet(Slides) /\ HasRail \in BOOLEAN
    /\ IsFiniteSet(Pictured) /\ IsFiniteSet(Links) /\ Shared \in BOOLEAN /\ MaxEdits \in Nat
    /\ Low \subseteq Products /\ First \in Products \ Low
    /\ Most \in Nat \ {0, 1} /\ CartCeiling \in Nat /\ Most <= CartCeiling

VARIABLES
    noRail, noScale, design, narrow, resized, enabled, wanted, stored, presenting,
    preview, railPx, gone, slid, left, scale, raf, surface,
    audience, visible, timer, hover, pin, over, focus, summoned, notice,
    slides, skip, index, before, num, badge, counter, last, told, active, printing,
    frozen, dialog, behind,
    deck, content, clone, dirty, liveTimer, links, styles, theme, hooked, sheet,
    tweakTimer, edits,
    cart, page, ready, shown, due, missed, phase, todo, read, overtaken,
    part    \* the part that moves

Rail == INSTANCE DeckRail
Overlay == INSTANCE DeckOverlay WITH presenting <- audience
Numbers == INSTANCE DeckNumbers WITH count <- counter
Thumbs == INSTANCE DeckThumbs WITH Slides <- Pictured
Store == INSTANCE Shop WITH Ceiling <- CartCeiling

railVars ==
    <<noRail, noScale, design, narrow, resized, enabled, wanted, stored, presenting,
      preview, railPx, gone, slid, left, scale, raf, surface>>
overlayVars == <<audience, visible, timer, hover, pin, over, focus, summoned, notice>>
numbersVars ==
    <<slides, skip, index, before, num, badge, counter, last, told, active, printing,
      frozen, dialog, behind>>
thumbsVars ==
    <<deck, content, clone, dirty, liveTimer, links, styles, theme, hooked, sheet,
      tweakTimer, edits>>
storeVars == <<cart, page, ready, shown, due, missed, phase, todo, read, overtaken>>
allVars == <<vars, railVars, overlayVars, numbersVars, thumbsVars, storeVars, part>>

RailRests ==
    /\ ~noRail /\ ~noScale /\ ~narrow /\ stored
    /\ design = CHOOSE d \in Design : TRUE
    /\ railPx = 188
NumbersRest == Len(slides) = 1 /\ slides[1] = (CHOOSE s \in Slides : TRUE) /\ skip = {}
ThumbsRest == deck = {} /\ (\A l \in Links : links[l] = "absent") /\ ~tweakTimer

PartsInit ==
    /\ part \in {"limiter", "rail", "overlay", "numbers", "thumbs", "store"}
    /\ Init /\ Overlay!Init /\ Store!Init
    /\ Rail!Init /\ (part # "rail" => RailRests)
    /\ Numbers!Init /\ (part # "numbers" => NumbersRest)
    /\ Thumbs!Init /\ (part # "thumbs" => ThumbsRest)

PartsNext ==
    /\ \/ /\ part = "limiter" /\ Next
          /\ UNCHANGED <<railVars, overlayVars, numbersVars, thumbsVars, storeVars>>
       \/ /\ part = "rail" /\ Rail!Next
          /\ UNCHANGED <<vars, overlayVars, numbersVars, thumbsVars, storeVars>>
       \/ /\ part = "overlay" /\ Overlay!Next
          /\ UNCHANGED <<vars, railVars, numbersVars, thumbsVars, storeVars>>
       \/ /\ part = "numbers" /\ Numbers!Next
          /\ UNCHANGED <<vars, railVars, overlayVars, thumbsVars, storeVars>>
       \/ /\ part = "thumbs" /\ Thumbs!Next
          /\ UNCHANGED <<vars, railVars, overlayVars, numbersVars, storeVars>>
       \/ /\ part = "store" /\ Store!Next
          /\ UNCHANGED <<vars, railVars, overlayVars, numbersVars, thumbsVars>>
    /\ UNCHANGED part

PartsSpec ==
    /\ PartsInit /\ [][PartsNext]_allVars
    /\ Fairness /\ Overlay!Fairness /\ Thumbs!Fairness /\ Store!Fairness

-----------------------------------------------------------------------------

(* Type correctness of the six parts.                                      *)
TypesOK ==
    TypeOK /\ Rail!TypeOK /\ Overlay!TypeOK /\ Numbers!TypeOK /\ Thumbs!TypeOK /\ Store!TypeOK

(* Whatever the order of modes, attributes, window widths and gestures:    *)
(* what is presented is not edited, the stage leaves the room of the rail  *)
(* that is on screen, and the thumbnails are scaled to it.                 *)
RailFollowsModes ==
    Rail!ShownIsNotEdited /\ Rail!StageFitsRail /\ Rail!ThumbsFitRail

(* The overlay is on an audience's screen only if it was called, and is on *)
(* any screen only while a timer runs or a pointer or the focus holds it.  *)
OverlayIsHeld == Overlay!AudienceSeesNoChrome /\ Overlay!UntimedIsHeld

(* Rail, counter, page breaks, presenter and active slides follow the deck *)
(* and its marks and index, but for an index that an edit that is          *)
(* under way or was refused has set and nothing has been computed for.     *)
DerivedIsFresh ==
    /\ Numbers!NumbersAgree /\ Numbers!NoBlankSheet
    /\ Numbers!PresenterKnows /\ Numbers!PrintLeavesNoTrace

(* A page of the shop shows the cart, or is about to be told or to read it *)
(* again, or was told before it listened.                                  *)
StaleIsExplained == Store!StaleIsExplained

(* Lines of the cart change on purpose, never by a tab's old view: what    *)
(* another tab did is undone only by one it overtook between its read and  *)
(* its write.                                                              *)
LinesChangeOnPurpose == Store!LinesChangeOnPurpose

(* What is out of date or in the way does not stay so: clones of slides,   *)
(* their style, an overlay and a notice nobody holds, a page that was told *)
(* of the cart, a lock-out no crash made permanent.                        *)
PartsSettle ==
    /\ Thumbs!ThumbCatchesUp /\ Thumbs!StyleCatchesUp
    /\ Overlay!OverlayFades /\ Store!DisplaySettles /\ LockEnds
=============================================================================
