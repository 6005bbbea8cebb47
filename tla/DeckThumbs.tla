------------------------------ MODULE DeckThumbs ------------------------------
(* The clones in the thumbnails of <deck-stage> as caches: of the slide    *)
(* they show, of the style sheets of the page, and of the attributes and   *)
(* custom properties of its root (the theme).  Observers and events say    *)
(* that a copy is stale, timers bring it up to date.                       *)
(* A task of the page and the microtasks after it are one step: mutation   *)
(* observers first, then slotchange.  Content, style text and theme are    *)
(* version numbers.  Left out, since no observer sees them: what a         *)
(* component draws in its shadow tree, canvases, and style sheets outside  *)
(* <head>.                                                                 *)
EXTENDS Integers, FiniteSets

CONSTANTS
    Slides,
    Links,     \* stylesheet links the page may mount in <head>
    Shared,    \* the browser has constructable style sheets
    MaxEdits   \* bound on the changes of the page

Css == [links : SUBSET Links, styles : 0..MaxEdits]

(* A clone: the version of the slide it shows, and the style it is drawn   *)
(* with, which it has by reference if Shared.                              *)
Clone == [slide : 0..MaxEdits, css : Css, theme : 0..MaxEdits]

NoClone == [slide |-> -1]

VARIABLES
    deck,       \* the slides of the deck (_slideSet)
    content,    \* what each slide shows
    clone,      \* of each slide in its thumbnail; NoClone until materialized
    dirty,      \* _liveDirty
    liveTimer,  \* _liveTimer
    links,      \* a link of <head>: absent, loading, loaded or failed
    styles,     \* the text of the <style> elements
    theme,      \* attributes of <html> and values of custom properties
    hooked,     \* _hookedLinks
    sheet,      \* the snapshot of the style sheets (_adoptedSheet, _authorCss)
    tweakTimer, \* _tweakTimer
    edits       \* number of changes so far

source == <<links, styles, theme, hooked>>
vars == <<deck, content, dirty, liveTimer, sheet, tweakTimer, edits, clone, source>>

TypeOK ==
    /\ deck \subseteq Slides /\ edits \in 0..MaxEdits
    /\ content \in [Slides -> 0..MaxEdits]
    /\ \A s \in Slides : clone[s] # NoClone => clone[s] \in Clone /\ s \in deck
    /\ dirty \subseteq Slides /\ liveTimer \in BOOLEAN
    /\ links \in [Links -> {"absent", "loading", "loaded", "failed"}]
    /\ styles \in 0..MaxEdits /\ theme \in 0..MaxEdits
    /\ hooked \subseteq Links
    /\ sheet \in Css /\ tweakTimer \in BOOLEAN

-----------------------------------------------------------------------------

(* The rules of the page: a link has none until it has loaded.             *)
Rules(ls, st) == [links |-> {l \in Links : ls[l] = "loaded"}, styles |-> st]

Mounted(ls) == {l \in Links : ls[l] # "absent"}

(* _enableRail: hooks the links that are there and takes a snapshot; the   *)
(* settling of the fonts (document.fonts.ready) asks for another.          *)
Init ==
    /\ deck \in SUBSET Slides
    /\ content = [s \in Slides |-> 0] /\ clone = [s \in Slides |-> NoClone]
    /\ dirty = {} /\ liveTimer = FALSE
    /\ links \in [Links -> {"absent", "loading", "loaded"}]
    /\ styles = 0 /\ theme = 0
    /\ hooked = Mounted(links)
    /\ sheet = Rules(links, styles)
    /\ tweakTimer \in BOOLEAN
    /\ edits = 0

(* _materialize: when the thumbnail scrolls near the rail's view, or for   *)
(* set by _refreshThumb.                                                   *)
Materialize(set) ==
    clone' = [s \in Slides |->
        IF s \in set THEN [slide |-> content[s], css |-> sheet, theme |-> theme]
        ELSE clone[s]]

ScrollsIntoView(s) ==
    /\ s \in deck /\ clone[s] = NoClone
    /\ Materialize({s})
    /\ UNCHANGED <<deck, content, dirty, liveTimer, sheet, tweakTimer, edits, source>>

(* Slides come and go and others are edited: _liveObserver, which knows    *)
(* the slides there were, then _renderRail, if there was a slotchange.     *)
SlidesChange(now, edited) ==
    /\ edits < MaxEdits /\ edits' = edits + 1
    /\ deck' = now
    /\ content' = [s \in Slides |-> IF s \in edited THEN edits + 1 ELSE content[s]]
    /\ dirty' = dirty \union (edited \intersect deck)
    /\ liveTimer' = (liveTimer \/ dirty' # {})
    /\ clone' = [s \in Slides |-> IF s \in now THEN clone[s] ELSE NoClone]
    /\ UNCHANGED <<sheet, tweakTimer, source>>

(* Mutant: what is to be refreshed is forgotten first. *)
RefreshNothing ==
    /\ liveTimer /\ liveTimer' = FALSE
    /\ dirty' = {}
    /\ UNCHANGED <<deck, content, clone, sheet, tweakTimer, edits, source>>

(* The callback of _liveTimer: _refreshThumb of each dirty slide whose     *)
(* thumbnail is there and materialized.                                    *)
LiveTimer ==
    /\ liveTimer /\ liveTimer' = FALSE
    /\ Materialize({s \in dirty : clone[s] # NoClone})
    /\ dirty' = {}
    /\ UNCHANGED <<deck, content, sheet, tweakTimer, edits, source>>

-----------------------------------------------------------------------------
(* The page's style.                                                       *)

Change == edits < MaxEdits /\ edits' = edits + 1

(* A stylesheet link is mounted, or a link becomes one: hooked by          *)
(* _headObserver (_hookSheetLoad).  It has no rules yet.                   *)
MountLink(l) ==
    /\ Change
    /\ links[l] = "absent" /\ links' = [links EXCEPT ![l] = "loading"]
    /\ hooked' = hooked \union {l}
    /\ UNCHANGED <<deck, content, dirty, liveTimer, clone, styles, theme, sheet, tweakTimer>>

(* load or error: _onTweakChange starts the timer anew.                    *)
LinkSettles(l, how) ==
    /\ links[l] = "loading" /\ links' = [links EXCEPT ![l] = how]
    /\ tweakTimer' = (tweakTimer \/ l \in hooked)
    /\ UNCHANGED <<deck, content, dirty, liveTimer, clone, styles, theme, hooked, sheet, edits>>

UnmountLink(l) ==
    /\ Change
    /\ links[l] # "absent" /\ links' = [links EXCEPT ![l] = "absent"]
    /\ hooked' = hooked \ {l}
    /\ tweakTimer' = (tweakTimer \/ l \in hooked)
    /\ UNCHANGED <<deck, content, dirty, liveTimer, clone, styles, theme, sheet>>

(* A <style> of <head> is mounted, unmounted or rewritten.                 *)
StyleChanges ==
    /\ Change
    /\ styles' = edits + 1
    /\ tweakTimer' = TRUE
    /\ UNCHANGED <<deck, content, dirty, liveTimer, clone, links, theme, hooked, sheet>>

(* A tweak, announced by the event tweakchange.                            *)
Tweak ==
    /\ Change
    /\ theme' = edits + 1
    /\ tweakTimer' = TRUE
    /\ UNCHANGED <<deck, content, dirty, liveTimer, clone, links, styles, hooked, sheet>>

(* The callback of _tweakTimer: _snapshotAuthorCss, which every clone has  *)
(* by reference if Shared, and _syncThumbHostAttrs of each host.           *)
TweakTimer ==
    /\ tweakTimer /\ tweakTimer' = FALSE
    /\ sheet' = Rules(links, styles)
    /\ clone' = [s \in Slides |->
           IF clone[s] = NoClone THEN NoClone
           ELSE [clone[s] EXCEPT !.theme = theme, !.css = IF Shared THEN sheet' ELSE @]]
    /\ UNCHANGED <<deck, content, dirty, liveTimer, source, edits>>

-----------------------------------------------------------------------------

Style ==
    \/ \E l \in Links :
           \/ MountLink(l) \/ UnmountLink(l)
           \/ \E how \in {"loaded", "failed"} : LinkSettles(l, how)
    \/ StyleChanges \/ Tweak

Next ==
    \/ \E now \in SUBSET Slides : \E edited \in SUBSET now : SlidesChange(now, edited)
    \/ \E s \in Slides : ScrollsIntoView(s)
    \/ Style \/ LiveTimer \/ TweakTimer

(* Timers that were set fire. *)
Fairness == WF_vars(LiveTimer) /\ WF_vars(TweakTimer)

Spec == Init /\ [][Next]_vars /\ Fairness

-----------------------------------------------------------------------------

(* What a thumbnail shows of its slide, or how it is drawn, is of the past. *)
ShowsOld(s) == clone[s] # NoClone /\ clone[s].slide # content[s]

LooksOld(s) ==
    clone[s] # NoClone /\ <<clone[s].css, clone[s].theme>> # <<Rules(links, styles), theme>>

(* A thumbnail comes to show its slide as it then is, or goes.             *)
ThumbCatchesUp == \A s \in Slides : []<>~ShowsOld(s)

(* A thumbnail comes to be drawn with the style the page then has.         *)
StyleCatchesUp == \A s \in Slides : []<>~LooksOld(s)

=============================================================================
