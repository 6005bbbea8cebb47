----------------------------- MODULE DeckNumbers -----------------------------
(* What <deck-stage> derives from the order of its slides and from the     *)
(* data-deck-skip marks: the numbers and badges of the rail, the counter   *)
(* of the overlay, the slide printed without a page break, what it tells   *)
(* the presenter's window, the title of the delete dialog, and the active  *)
(* slides on screen and on paper.                                          *)
(* A task of the page and the microtasks after it (mutation observers,     *)
(* then slotchange) are one step.  How an edit chooses the index, and when *)
(* the host answers, is in DeckStage; here it may be any index and any     *)
(* time, and a deck may be edited with a host and without one.             *)
(* Indices start at 1.                                                     *)
EXTENDS Integers, SequencesExt

CONSTANTS
    Slides,   \* the slides that may be in the deck
    HasRail   \* the rail is enabled: not so in a deck with no-rail

VARIABLES
    slides,   \* _slides
    skip,     \* the slides with data-deck-skip
    index,    \* _index
    before,   \* _indexBeforeEmit; 0 for null
    num,      \* the number on each thumbnail; 0 for none
    badge,    \* the thumbnails with data-skip
    count,    \* the overlay's counter: position, 0 for a dash, and total
    last,     \* the slides with data-deck-last-visible
    told,     \* the last slideIndexChanged message
    active,   \* the slides with data-deck-active
    printing, \* between beforeprint and afterprint
    frozen,   \* the freeze style is in the document
    dialog,   \* the slide the delete dialog is about, and its title's number
    behind    \* history: what was not computed since the index last changed

vars == <<slides, skip, index, before, num, badge, count, last, told, active,
          printing, frozen, dialog, behind>>

Decks == {deck \in SeqOf(Slides, Cardinality(Slides)) : deck # <<>> /\ IsInjective(deck)}

Surfaces == {"counter", "presenter", "screen"}

NoDialog == [open |-> FALSE, on |-> {}, label |-> 0]

TypeOK ==
    /\ slides \in Decks /\ skip \subseteq ToSet(slides)
    /\ index \in 1..Cardinality(Slides) + 1 /\ before \in 0..Cardinality(Slides) + 1
    /\ num \in [Slides -> 0..Cardinality(Slides)] /\ badge \subseteq ToSet(slides)
    /\ last \subseteq ToSet(slides) /\ active \subseteq ToSet(slides)
    /\ printing \in BOOLEAN /\ frozen \in BOOLEAN /\ behind \subseteq Surfaces

-----------------------------------------------------------------------------
(* Labels.                                                                 *)

Counted(deck, sk, i) == Cardinality({k \in 1..i : deck[k] \notin sk})

(* _slideLabel.                                                            *)
Label(deck, sk, i) == IF deck[i] \in sk THEN 0 ELSE Counted(deck, sk, i)

(* _renumberRail: only slides that have a thumbnail.                       *)
Renumber(deck, sk) ==
    [s \in Slides |-> IF ~HasRail \/ s \notin ToSet(deck) THEN 0
                      ELSE Label(deck, sk, CHOOSE i \in DOMAIN deck : deck[i] = s)]

(* _syncCount.                                                             *)
Count(deck, sk, i) ==
    [at |-> IF i \notin DOMAIN deck THEN 0 ELSE Label(deck, sk, i),
     total |-> Counted(deck, sk, Len(deck))]

(* _markLastVisible.                                                       *)
LastVisible(deck, sk) ==
    {deck[i] : i \in {j \in DOMAIN deck :
        deck[j] \notin sk /\ \A k \in DOMAIN deck : k > j => deck[k] \in sk}}

(* What the print style sheet says of break-after.                         *)
NoBreakAfter(s) == s = Last(slides) \/ s \in last

(* The message to the window, which the presenter's view listens to.       *)
Message(deck, sk, i) ==
    [index |-> i, total |-> Len(deck), skipped |-> {k \in DOMAIN deck : deck[k] \in sk}]

(* The slide that is active, if the index is of one.                       *)
Shown(deck, i) == {deck[k] : k \in {i} \intersect DOMAIN deck}

-----------------------------------------------------------------------------

(* connectedCallback and the first slotchange.                             *)
Init ==
    /\ slides \in Decks /\ skip \in SUBSET ToSet(slides) /\ index \in DOMAIN slides
    /\ num = Renumber(slides, skip)
    /\ badge = IF HasRail THEN skip ELSE {}
    /\ count = Count(slides, skip, index)
    /\ last = LastVisible(slides, skip)
    /\ told = Message(slides, skip, index)
    /\ active = {slides[index]}
    /\ printing = FALSE /\ frozen = FALSE /\ dialog = NoDialog
    /\ before = 0 /\ behind = {}

(* _go, to another slide.                                                  *)
Go(i) ==
    /\ i # index /\ index' = i
    /\ active' = {slides[i]}
    /\ count' = Count(slides, skip, i)
    /\ told' = Message(slides, skip, i)
    /\ behind' = {}
    /\ UNCHANGED <<slides, skip, before, num, badge, last, printing, frozen, dialog>>

(* The index is set, and nothing that shows it.                            *)
SetIndex(i) ==
    /\ index' = i
    /\ behind' = IF i = index THEN behind ELSE Surfaces
    /\ UNCHANGED <<slides, skip, num, badge, count, last, told, active, printing,
                   frozen, dialog>>

(* _emitDcOp: an edit is sent to the host, and the index is at once what   *)
(* it is to be after it, which for a copy of the last slide is no slide's. *)
Emit(i) ==
    /\ HasRail /\ i # index
    /\ before' = index
    /\ SetIndex(i)

(* __dc_op_ack: a refusal takes the index back.  An answer to a skip, of   *)
(* which any number may be under way, does so too.                         *)
Acknowledge(applied) ==
    /\ HasRail
    /\ before' = 0
    /\ SetIndex(IF ~applied /\ before # 0 THEN before ELSE index)

(* Mutant: the counter is not brought up to date. *)
SkipKeepsCount(sk) ==
    /\ sk # skip /\ skip' = sk
    /\ IF HasRail
       THEN /\ badge' = sk
            /\ last' = LastVisible(slides, sk)
            /\ num' = Renumber(slides, sk)
            /\ told' = Message(slides, sk, index)
            /\ behind' = behind \ {"counter", "presenter"}
       ELSE UNCHANGED <<badge, last, num, told, behind>>
    /\ UNCHANGED <<slides, index, before, count, active, printing, frozen, dialog>>

(* The menu or the host marks or unmarks slides: _liveObserver, which a    *)
(* deck without a rail has not.                                            *)
Skip(sk) ==
    /\ sk # skip /\ skip' = sk
    /\ IF HasRail
       THEN /\ badge' = sk
            /\ last' = LastVisible(slides, sk)
            /\ num' = Renumber(slides, sk)
            /\ count' = Count(slides, sk, index)
            /\ told' = Message(slides, sk, index)
            /\ behind' = behind \ {"counter", "presenter"}
       ELSE UNCHANGED <<badge, last, num, count, told, behind>>
    /\ UNCHANGED <<slides, index, before, active, printing, frozen, dialog>>

(* Slides come, go or move, by the rail or by the host, which may change   *)
(* marks at once: _collectSlides (with _renderRail) and _applyIndex, and   *)
(* after the host's the dialog is closed; the rail's edits find it closed. *)
Render(deck, sk, i) ==
    /\ slides' = deck /\ skip' = sk /\ index' = i
    /\ last' = LastVisible(deck, sk)
    /\ badge' = IF HasRail THEN sk ELSE {}
    /\ num' = Renumber(deck, sk)
    /\ active' = {deck[i]}
    /\ count' = Count(deck, sk, i)
    /\ told' = Message(deck, sk, i)
    /\ dialog' = NoDialog /\ behind' = {}
    /\ UNCHANGED <<before, printing, frozen>>

(* _onSlotChange: the index stays where it is, within the deck.            *)
HostRenders ==
    \E deck \in Decks \ {slides} : \E sk \in SUBSET ToSet(deck) :
        Render(deck, sk, IF index > Len(deck) THEN Len(deck) ELSE index)

(* An edit of a deck without a host keeps the marks of the slides.         *)
RailEdits ==
    /\ HasRail
    /\ \E deck \in Decks \ {slides} : \E sk \in SUBSET ToSet(deck), i \in DOMAIN deck :
           /\ sk \intersect ToSet(slides) = skip \intersect ToSet(deck)
           /\ Render(deck, sk, i)

(* Every slide is active on paper.                                         *)
BeforePrint ==
    /\ printing' = TRUE /\ frozen' = TRUE
    /\ active' = ToSet(slides)
    /\ UNCHANGED <<slides, skip, index, before, num, badge, count, last, told, dialog,
                   behind>>

(* _applyIndex without a broadcast.                                        *)
AfterPrint ==
    /\ printing /\ printing' = FALSE /\ frozen' = FALSE
    /\ active' = Shown(slides, index)
    /\ count' = Count(slides, skip, index)
    /\ behind' = behind \ {"counter", "screen"}
    /\ UNCHANGED <<slides, skip, index, before, num, badge, last, told, dialog>>

(* _openConfirm for one slide.                                             *)
OpenDialog(i) ==
    /\ HasRail /\ Len(slides) > 1 /\ ~dialog.open
    /\ dialog' = [open |-> TRUE, on |-> {slides[i]}, label |-> Label(slides, skip, i)]
    /\ UNCHANGED <<slides, skip, index, before, num, badge, count, last, told, active,
                   printing, frozen, behind>>

CloseDialog ==
    /\ dialog.open /\ dialog' = NoDialog
    /\ UNCHANGED <<slides, skip, index, before, num, badge, count, last, told, active,
                   printing, frozen, behind>>

Next ==
    \/ \E i \in DOMAIN slides : Go(i) \/ OpenDialog(i)
    \/ \E i \in 1..Len(slides) + 1 : Emit(i)
    \/ \E applied \in BOOLEAN : Acknowledge(applied)
    \/ \E sk \in SUBSET ToSet(slides) : Skip(sk)
    \/ HostRenders \/ RailEdits
    \/ BeforePrint \/ AfterPrint \/ CloseDialog

Spec == Init /\ [][Next]_vars

-----------------------------------------------------------------------------

(* The rail numbers the slides that are not skipped from 1 on, in order,   *)
(* its badges are on the others, and the overlay counts as the rail does:  *)
(* the total always, the position but for an index it was not computed for *)
(* yet (an edit is sent, or was refused).                                  *)
NumbersAgree ==
    HasRail =>
        /\ badge = {s \in ToSet(slides) : num[s] = 0}
        /\ \A i, j \in DOMAIN slides :
               i < j /\ {slides[i], slides[j]} \intersect badge = {}
                   => num[slides[i]] < num[slides[j]]
        /\ {num[s] : s \in ToSet(slides) \ badge} = 1..count.total
        /\ "counter" \notin behind /\ index \in DOMAIN slides
               => count.at = num[slides[index]]
        /\ badge = skip

(* The last slide that is printed, and no other, has no page break after   *)
(* it: there is no blank sheet, and no sheet with two slides.              *)
NoBlankSheet ==
    \A s \in ToSet(slides) \ skip : NoBreakAfter(s) <=> s \in LastVisible(slides, skip)

(* What the presenter's window was last told of the deck and its marks is  *)
(* how they are, whichever index it was told; and that is the deck's, but  *)
(* for one it was not told yet.                                            *)
PresenterKnows ==
    /\ told = Message(slides, skip, told.index)
    /\ "presenter" \notin behind => told.index = index

(* Printing leaves no trace on screen: no freeze style, never two slides   *)
(* active, and the one active is the current, but for an index that was    *)
(* not applied yet.                                                        *)
PrintLeavesNoTrace ==
    ~printing => /\ ~frozen
                 /\ \A s, t \in active : s = t
                 /\ "screen" \notin behind => active = Shown(slides, index)

(* The number in the title of the delete dialog is the one the rail shows. *)
DialogNamesRailNumber ==
    dialog.open => \A s \in dialog.on : dialog.label = num[s]

(* There is a slide on screen: not so when a copy of the last one was sent *)
(* and the deck is printed before the copy comes.                          *)
ScreenIsNotBlank == active # {}

=============================================================================
