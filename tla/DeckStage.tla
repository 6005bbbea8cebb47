------------------------------ MODULE DeckStage ------------------------------
(* The <deck-stage> element of the client presentation: the current slide, *)
(* the thumbnail rail (selection, context menu, delete dialog, drag) and   *)
(* the edits the rail makes.  A deck either edits its own DOM or, when the *)
(* page has a dc-runtime (hosted), sends operations to a host, which edits *)
(* the deck, renders it again and acknowledges.  The host is modelled from *)
(* what this element expects of it: it may acknowledge before or after it  *)
(* renders, its answer may be lost, and others may edit a hosted deck.     *)
(* Indices start at 1, where the code's start at 0.                        *)
(* Presentation mode, printing, focus and the clones of the thumbnails are *)
(* left out.  location.hash is too: it is always index.                    *)
EXTENDS Integers, SequencesExt

CONSTANTS
    Deck,      \* the slides of the page, in order
    Spare,     \* slides that do not exist yet: copies, and what others add
    NoSlide,
    MaxEdits   \* bound on the edits of a behaviour

ASSUME DeckConstants ==
    /\ Deck \in Seq(ToSet(Deck)) /\ Deck # <<>> /\ IsInjective(Deck)
    /\ IsFiniteSet(Spare)
    /\ Spare \intersect ToSet(Deck) = {}
    /\ NoSlide \notin Spare \union ToSet(Deck)
    /\ MaxEdits \in Nat

Slides == ToSet(Deck) \union Spare

VARIABLES
    hosted,     \* window.__dcUpdate exists
    slides,     \* _slides
    skipped,    \* the slides with data-deck-skip
    index,      \* _index
    shown,      \* the slide with data-deck-active
    selected,   \* _selected
    menu,       \* _menuIndex and _menuIndices, and the slides they stood for
    confirm,    \* _confirmEls; {} when the dialog is closed
    dragFrom,   \* _dragFrom; 0 when nothing is dragged
    railLock,   \* _railLock
    before,     \* _indexBeforeEmit; 0 for null
    ops,        \* the dc-op events the host has not processed
    early,      \* the host has acknowledged the first of them already
    acks,       \* the acknowledgements on their way
    unheard,    \* history: the refusal that would unlock the rail was lost
    edits,      \* number of edits so far
    inPlace     \* history: the last edit left on screen what it should

rail == <<selected, menu, confirm, dragFrom>>
host == <<railLock, before, ops, early, acks, unheard>>
vars == <<hosted, slides, skipped, index, shown, rail, host, edits, inPlace>>

NoMenu == [at |-> 0, list |-> {}, on |-> {}]

(* History of an edit: its number, the slide on screen, the one to be on    *)
(* screen after it, and the index of that one.                             *)
Watch == [edit : 0..MaxEdits, index : Nat,
          from : Slides \union {NoSlide}, goal : Slides \union {NoSlide}]

NoWatch == [edit |-> 0, index |-> 0, from |-> NoSlide, goal |-> NoSlide]

(* What the host receives, and history.                                    *)
Op == [op : {"remove", "move", "duplicate", "toggleSkip"},
       at : SUBSET (1..Cardinality(Slides)), to : 0..Cardinality(Slides),
       witness : Nat, watch : Watch]

TypeOK ==
    /\ hosted \in BOOLEAN
    /\ slides \in Seq(Slides) /\ slides # <<>> /\ IsInjective(slides)
    /\ skipped \subseteq Slides
    /\ index \in 1..Cardinality(Slides) + 1
    /\ shown \in Slides
    /\ selected \subseteq Slides
    /\ menu.at \in 0..Len(slides)
    /\ confirm \subseteq Slides
    /\ dragFrom \in 0..Cardinality(Slides)
    /\ railLock \in BOOLEAN /\ before \in 0..Cardinality(Slides) + 1
    /\ ops \in Seq(Op) /\ early \in BOOLEAN /\ unheard \in BOOLEAN
    /\ edits \in 0..MaxEdits

Init ==
    /\ hosted \in BOOLEAN
    /\ slides = Deck
    /\ skipped = {}
    /\ index \in DOMAIN Deck
    /\ shown = Deck[index]
    /\ selected = {} /\ menu = NoMenu /\ confirm = {} /\ dragFrom = 0
    /\ railLock = FALSE /\ before = 0
    /\ ops = <<>> /\ early = FALSE /\ acks = <<>> /\ unheard = FALSE
    /\ edits = 0
    /\ inPlace = TRUE

-----------------------------------------------------------------------------
(* Navigation.                                                             *)

SlideAt(i) == IF i \in DOMAIN slides THEN slides[i] ELSE NoSlide

SlidesAt(list) == {slides[i] : i \in list \intersect DOMAIN slides}

Positions(set) == {i \in DOMAIN slides : slides[i] \in set}

(* _go: the slide is shown again only if the index changes.                *)
GoTo(i) ==
    /\ index' = i
    /\ shown' = IF i = index THEN shown ELSE slides[i]

(* The nearest slide before or after the current one that is not skipped.  *)
NextSlide(dir) ==
    LET ahead == {i \in DOMAIN slides :
                      (i - index) * dir > 0 /\ slides[i] \notin skipped}
    IN IF index + dir \notin DOMAIN slides THEN {}
       ELSE {i \in ahead : \A j \in ahead : (i - j) * dir <= 0}

(* The dialog and a drag keep the keyboard and the pointer to themselves.  *)
Free == confirm = {} /\ dragFrom = 0

(* How the user navigates: a key, a tap on the slide, a button of the      *)
(* overlay; or a script does, at any time (goTo, next, prev, reset).       *)
Key == Free /\ selected' = {} /\ UNCHANGED menu

Tap == Free /\ selected' = {} /\ menu' = NoMenu

Button == Free /\ menu' = NoMenu /\ UNCHANGED selected

Script == UNCHANGED <<selected, menu>>

(* _advance.                                                               *)
Advance(dir) ==
    /\ \E i \in NextSlide(dir) : GoTo(i)
    /\ Key \/ Tap \/ Button \/ Script
    /\ UNCHANGED <<hosted, slides, skipped, confirm, dragFrom, host, edits, inPlace>>

(* Home, End, R, a digit, an arrow key in the rail, or Reset.              *)
Jump(i) ==
    /\ GoTo(i)
    /\ Key \/ (Button /\ i = 1) \/ Script
    /\ UNCHANGED <<hosted, slides, skipped, confirm, dragFrom, host, edits, inPlace>>

-----------------------------------------------------------------------------
(* The rail.  Every click closes an open menu (_onDocClick).               *)

Click(i) ==
    /\ Free
    /\ menu' = NoMenu
    /\ selected' = {}
    /\ GoTo(i)
    /\ UNCHANGED <<hosted, slides, skipped, confirm, dragFrom, host, edits, inPlace>>

(* Ctrl or Cmd click: an empty selection holds the current slide.          *)
ToggleClick(i) ==
    LET held == IF selected = {} /\ i # index THEN SlidesAt({index}) ELSE selected
    IN /\ Free
       /\ menu' = NoMenu
       /\ selected' = IF slides[i] \in held THEN held \ {slides[i]}
                      ELSE held \union {slides[i]}
       /\ UNCHANGED <<hosted, slides, skipped, index, shown, confirm, dragFrom,
                      host, edits, inPlace>>

(* Shift click: a range from the anchor to here.  The anchor (_selAnchor,  *)
(* or else the current slide) is left open: it may be any slide.           *)
RangeClick(i) ==
    /\ Free
    /\ menu' = NoMenu
    /\ \E start \in DOMAIN slides : selected' = SlidesAt((start..i) \union (i..start))
    /\ UNCHANGED <<hosted, slides, skipped, index, shown, confirm, dragFrom,
                   host, edits, inPlace>>

(* _selectionIndices.                                                      *)
SelectionIndices(set) ==
    IF set = {} THEN {index} \intersect DOMAIN slides ELSE Positions(set)

OpenMenu(i) ==
    LET outside == selected # {} /\ slides[i] \notin selected
        sel == IF outside THEN {slides[i]} ELSE selected
        list == SelectionIndices(sel)
    IN /\ Free
       /\ selected' = sel
       /\ menu' = [at |-> i,
                   list |-> IF Cardinality(list) > 1 THEN list ELSE {i},
                   on |-> SlidesAt(IF Cardinality(list) > 1 THEN list ELSE {i})]
       /\ UNCHANGED <<hosted, slides, skipped, index, shown, confirm, dragFrom,
                      host, edits, inPlace>>

(* Escape closes the menu, or else collapses the selection.                *)
Escape ==
    /\ Free
    /\ IF menu # NoMenu THEN menu' = NoMenu /\ UNCHANGED selected
       ELSE selected # {} /\ selected' = {} /\ UNCHANGED menu
    /\ UNCHANGED <<hosted, slides, skipped, index, shown, confirm, dragFrom,
                   host, edits, inPlace>>

(* Delete in the menu: the dialog holds the slides, not their indices.     *)
MenuDelete ==
    /\ Free /\ menu # NoMenu
    /\ Cardinality(menu.list) < Len(slides)
    /\ confirm' = SlidesAt(menu.list)
    /\ menu' = NoMenu
    /\ UNCHANGED <<hosted, slides, skipped, index, shown, selected, dragFrom,
                   host, edits, inPlace>>

(* The Delete key on a thumbnail.                                          *)
KeyDelete(i) ==
    LET list == IF selected = {} THEN {i} ELSE SelectionIndices(selected)
    IN /\ Free /\ ~railLock
       /\ Cardinality(list) < Len(slides)
       /\ confirm' = SlidesAt(list)
       /\ UNCHANGED <<hosted, slides, skipped, index, shown, selected, menu,
                      dragFrom, host, edits, inPlace>>

(* Cancel, which is a click, or Escape.                                    *)
CancelDelete ==
    /\ confirm # {}
    /\ confirm' = {}
    /\ menu' \in {menu, NoMenu}
    /\ UNCHANGED <<hosted, slides, skipped, index, shown, selected, dragFrom,
                   host, edits, inPlace>>

DragStart(i) ==
    /\ Free
    /\ selected' = {}
    /\ dragFrom' = i
    /\ UNCHANGED <<hosted, slides, skipped, index, shown, menu, confirm, host, edits, inPlace>>

DragEnd ==
    /\ dragFrom # 0
    /\ dragFrom' = 0
    /\ UNCHANGED <<hosted, slides, skipped, index, shown, selected, menu, confirm,
                   host, edits, inPlace>>

-----------------------------------------------------------------------------
(* The deck after an edit.                                                 *)

(* Mutant: what is selected is not looked up again. *)
CollectSlidesOnly(deck, i) ==
    /\ slides' = deck
    /\ index' = IF i > Len(deck) THEN Len(deck) ELSE i
    /\ UNCHANGED selected

(* _collectSlides: forget what is gone, clamp the index.                   *)
CollectSlides(deck, i) ==
    /\ slides' = deck
    /\ selected' = selected \intersect ToSet(deck)
    /\ index' = IF i > Len(deck) THEN Len(deck) ELSE i

(* Mutants: an open menu survives; only an acknowledgement unlocks.        *)
RenderUnderMenu(deck) ==
    /\ railLock' = FALSE /\ unheard' = FALSE
    /\ CollectSlides(deck, index)
    /\ shown' = slides'[index']
    /\ confirm' = {}
    /\ UNCHANGED <<menu, dragFrom>>

RenderLocked(deck) ==
    /\ CollectSlides(deck, index)
    /\ shown' = slides'[index']
    /\ menu' = NoMenu /\ confirm' = {}
    /\ UNCHANGED <<railLock, unheard, dragFrom>>

(* _onSlotChange, after the host has rendered a deck with other slides.    *)
Render(deck) ==
    /\ railLock' = FALSE /\ unheard' = FALSE
    /\ CollectSlides(deck, index)
    /\ shown' = slides'[index']
    /\ menu' = NoMenu /\ confirm' = {}
    /\ UNCHANGED dragFrom

-----------------------------------------------------------------------------
(* What an edit does to the deck and to the index of the current slide.    *)

Pick(list) == CHOOSE i \in list : TRUE

(* The slides that stay when those at list go: the k-th of them is the one *)
(* with k - 1 of them before it.                                           *)
Without(list) ==
    LET kept == DOMAIN slides \ list
    IN [k \in 1..Cardinality(kept) |->
            slides[CHOOSE i \in kept : Cardinality({j \in kept : j < i}) = k - 1]]

Edited(name, list, to, copy) ==
    CASE name = "remove" -> Without(list)
      [] name = "move" -> InsertAt(RemoveAt(slides, Pick(list)), to, slides[Pick(list)])
      [] name = "duplicate" -> InsertAt(slides, Pick(list) + 1, copy)
      [] name = "toggleSkip" -> slides

(* A copy has the attributes of its original.                              *)
NewSkipped(name, list, copy) ==
    LET at == SlidesAt(list)
    IN CASE name = "remove" -> skipped \ at
         [] name = "move" -> skipped
         [] name = "duplicate" ->
                IF at \subseteq skipped THEN skipped \union {copy} ELSE skipped
         [] name = "toggleSkip" -> (skipped \ at) \union (at \ skipped)

(* _deleteSlides: cur, or else the next, or else the last of the n slides  *)
(* that stays, counted among those that stay.                              *)
IndexAfterRemoveMany(cur, n, list) ==
    LET after == {j \in 1..n \ list : j > cur}
        kept == IF cur \notin list THEN cur
                ELSE IF after # {} THEN Min(after) ELSE Max(1..n \ list)
    IN kept - Cardinality({x \in list : x < kept})

(* _deleteSlide.                                                           *)
IndexAfterRemove(cur, n, i) ==
    IF i < cur \/ (i = cur /\ i = n) THEN cur - 1 ELSE cur

(* Mutant: a move to the current position does not shift it. *)
IndexAfterMovePast(cur, i, j) ==
    IF cur = i THEN j
    ELSE IF i < cur /\ j > cur THEN cur - 1
    ELSE IF i > cur /\ j <= cur THEN cur + 1
    ELSE cur

(* _moveSlide.                                                             *)
IndexAfterMove(cur, i, j) ==
    IF cur = i THEN j
    ELSE IF i < cur /\ j >= cur THEN cur - 1
    ELSE IF i > cur /\ j <= cur THEN cur + 1
    ELSE cur

(* What an edit should leave on screen: the slide that was there; if it    *)
(* goes, the one after it, else the one before it; of a copy, the copy.    *)
Goal(name, list) ==
    LET kept == DOMAIN slides \ (IF name = "remove" THEN list ELSE {})
        after == {k \in kept : k >= index}
    IN SlideAt(IF after # {} THEN Min(after) ELSE IF kept # {} THEN Max(kept) ELSE 0)

GoalOf(name, goal, copy) == IF name = "duplicate" THEN copy ELSE goal

Copies(name) == IF name = "duplicate" THEN Spare \ ToSet(slides) ELSE {NoSlide}

-----------------------------------------------------------------------------
(* Edits.                                                                  *)

NoEdit ==
    UNCHANGED <<slides, skipped, index, shown, selected, host, edits, inPlace>>

(* All edits but a skip lock the rail. *)
Locking(name) == name # "toggleSkip"

(* _emitDcOp in a hosted deck.  The index is at once what it is to be      *)
(* after the edit.  An edit is watched when nothing else is under way and  *)
(* a refusal has no older index to go back to than the current one.        *)
Send(name, list, to, ni) ==
    /\ hosted /\ edits < MaxEdits
    /\ edits' = edits + 1
    /\ ops' = Append(ops,
           [op |-> name, at |-> list, to |-> to, witness |-> Len(slides),
            watch |-> IF /\ ops = <<>> /\ acks = <<>> /\ Locking(name)
                         /\ before = 0 \/ ni # index
                      THEN [edit |-> edits + 1, index |-> ni,
                            from |-> SlideAt(index), goal |-> Goal(name, list)]
                      ELSE NoWatch])
    /\ railLock' = Locking(name)
    /\ index' = ni
    /\ before' = IF ni # index THEN index ELSE before
    /\ UNCHANGED <<slides, skipped, shown, selected, early, acks, unheard, inPlace>>

(* The same edit in a deck without a host.  The slotchange that follows is *)
(* ignored (_squelchSlotChange), so an open menu stays open.               *)
EditHere(name, list, to, ni) ==
    /\ ~hosted /\ edits < MaxEdits
    /\ edits' = edits + 1
    /\ \E copy \in Copies(name) :
           /\ CollectSlides(Edited(name, list, to, copy), ni)
           /\ skipped' = NewSkipped(name, list, copy)
           /\ shown' = IF name = "toggleSkip" THEN shown ELSE slides'[index']
           /\ inPlace' = IF name = "toggleSkip" THEN inPlace
                       ELSE shown' = GoalOf(name, Goal(name, list), copy)
    /\ UNCHANGED host

(* A locked rail makes no edit; nor does a hosted deck that is being       *)
(* streamed (_streamActive), which may be at any time.                     *)
Edit(name, list, to, ni) ==
    \/ (railLock \/ hosted) /\ NoEdit
    \/ ~railLock /\ (Send(name, list, to, ni) \/ EditHere(name, list, to, ni))

(* Delete in the dialog: its slides are looked up again.                   *)
ConfirmDelete ==
    LET list == Positions(confirm)
        ni == IF Cardinality(list) = 1 THEN IndexAfterRemove(index, Len(slides), Pick(list))
              ELSE IndexAfterRemoveMany(index, Len(slides), list)
    IN /\ confirm # {}
       /\ confirm' = {} /\ menu' = NoMenu
       /\ IF list = {} \/ Cardinality(list) >= Len(slides) THEN NoEdit
          ELSE Edit("remove", list, 0, ni)
       /\ UNCHANGED <<hosted, dragFrom>>

(* The menu addresses one slide by its index.                              *)
FromMenu ==
    /\ Free /\ menu # NoMenu /\ Cardinality(menu.list) = 1
    /\ menu' = NoMenu
    /\ UNCHANGED <<hosted, confirm, dragFrom>>

MenuSkip == FromMenu /\ Edit("toggleSkip", {menu.at}, 0, index)

MenuMove(d) ==
    /\ FromMenu /\ menu.at + d \in DOMAIN slides
    /\ Edit("move", {menu.at}, menu.at + d, IndexAfterMove(index, menu.at, menu.at + d))

MenuDuplicate == FromMenu /\ Edit("duplicate", {menu.at}, 0, menu.at + 1)

(* A drop on the upper or lower half of a thumbnail.  A render during the  *)
(* drag leaves dragFrom as it was.                                         *)
Drop(i, lower) ==
    LET gap == IF lower THEN i + 1 ELSE i
        to == IF dragFrom < gap THEN gap - 1 ELSE gap
    IN /\ dragFrom # 0
       /\ dragFrom' = 0
       /\ IF to = dragFrom \/ to \notin DOMAIN slides THEN NoEdit
          ELSE Edit("move", {dragFrom} \intersect DOMAIN slides, to,
                    IndexAfterMove(index, dragFrom, to))
       /\ UNCHANGED <<hosted, menu, confirm>>

-----------------------------------------------------------------------------
(* The host.                                                               *)

(* When this was sent nothing else was to be answered, and since then      *)
(* nobody has navigated or edited.                                         *)
Undisturbed(watch) ==
    watch.from # NoSlide /\ edits = watch.edit /\ index = watch.index

Answer(op, applied) ==
    [applied |-> applied, op |-> op.op,
     watch |-> IF applied THEN NoWatch ELSE op.watch]

(* The witness guards against a deck of another length.                    *)
Applicable(op) ==
    /\ Len(slides) = op.witness
    /\ op.at # {} /\ op.at \subseteq DOMAIN slides
    /\ Copies(op.op) # {}

(* The host has processed the operation, and will render the deck later.   *)
HostAcks ==
    /\ ops # <<>> /\ ~early
    /\ Applicable(Head(ops))
    /\ acks' = Append(acks, Answer(Head(ops), TRUE))
    /\ early' = TRUE
    /\ UNCHANGED <<hosted, slides, skipped, index, shown, rail, railLock, before,
                   ops, unheard, edits, inPlace>>

HostApplies ==
    /\ ops # <<>>
    /\ LET op == Head(ops)
       IN /\ Applicable(op)
          /\ \E copy \in Copies(op.op) :
                 /\ skipped' = NewSkipped(op.op, op.at, copy)
                 /\ IF ~Locking(op.op)
                    THEN UNCHANGED <<slides, index, shown, rail, railLock, unheard, inPlace>>
                    ELSE /\ Render(Edited(op.op, op.at, op.to, copy))
                         /\ inPlace' = IF Undisturbed(op.watch)
                                     THEN shown' = GoalOf(op.op, op.watch.goal, copy)
                                     ELSE inPlace
          /\ acks' = IF early THEN acks ELSE Append(acks, Answer(op, TRUE))
    /\ ops' = Tail(ops) /\ early' = FALSE
    /\ UNCHANGED <<hosted, before, edits>>

HostRefuses ==
    /\ ops # <<>> /\ ~early
    /\ acks' = Append(acks, Answer(Head(ops), FALSE))
    /\ ops' = Tail(ops)
    /\ UNCHANGED <<hosted, slides, skipped, index, shown, rail, railLock, before,
                   early, unheard, edits, inPlace>>

(* Mutant: a refusal does not unlock the rail. *)
AcknowledgeApplied ==
    /\ acks # <<>> /\ acks' = Tail(acks)
    /\ railLock' = (railLock /\ ~Head(acks).applied) /\ unheard' = FALSE
    /\ index' = IF ~Head(acks).applied /\ before # 0 THEN before ELSE index
    /\ before' = 0
    /\ inPlace' = IF ~Head(acks).applied /\ Undisturbed(Head(acks).watch)
                THEN SlideAt(index') = Head(acks).watch.from
                ELSE inPlace
    /\ UNCHANGED <<hosted, slides, skipped, shown, rail, ops, early, edits>>

(* __dc_op_ack: a refusal takes the index back.                            *)
Acknowledge ==
    /\ acks # <<>> /\ acks' = Tail(acks)
    /\ railLock' = FALSE /\ unheard' = FALSE
    /\ index' = IF ~Head(acks).applied /\ before # 0 THEN before ELSE index
    /\ before' = 0
    /\ inPlace' = IF ~Head(acks).applied /\ Undisturbed(Head(acks).watch)
                THEN SlideAt(index') = Head(acks).watch.from
                ELSE inPlace
    /\ UNCHANGED <<hosted, slides, skipped, shown, rail, ops, early, edits>>

(* The refusal of an edit that locked the rail. *)
Unlocks(ack) == ~ack.applied /\ Locking(ack.op)

(* A dropped acknowledgement: only a later answer or a render can unlock   *)
(* the rail, and _indexBeforeEmit stays.                                   *)
AckLost ==
    /\ acks # <<>> /\ acks' = Tail(acks)
    /\ unheard' = (unheard \/ (railLock /\ Unlocks(Head(acks))))
    /\ UNCHANGED <<hosted, slides, skipped, index, shown, rail, railLock, before,
                   ops, early, edits, inPlace>>

(* Another user, or an agent, removes, adds or moves a slide.              *)
OthersEdit ==
    /\ hosted /\ ~early /\ edits < MaxEdits
    /\ edits' = edits + 1
    /\ \E i, j \in DOMAIN slides :
           \E deck \in {RemoveAt(slides, i), InsertAt(RemoveAt(slides, i), j, slides[i])}
                       \union {InsertAt(slides, i, s) : s \in Spare \ ToSet(slides)} :
               deck \notin {<<>>, slides} /\ Render(deck)
    /\ skipped' = skipped \intersect ToSet(slides')
    /\ UNCHANGED <<hosted, before, ops, early, acks, inPlace>>

(* They skip a slide, or no longer do: no slotchange follows.              *)
OthersSkip ==
    /\ hosted /\ ~early /\ edits < MaxEdits
    /\ edits' = edits + 1
    /\ \E i \in DOMAIN slides : skipped' = NewSkipped("toggleSkip", {i}, NoSlide)
    /\ UNCHANGED <<hosted, slides, index, shown, rail, host, inPlace>>

-----------------------------------------------------------------------------

Navigate ==
    \/ \E dir \in {-1, 1} : Advance(dir)
    \/ \E i \in DOMAIN slides : Jump(i)

Rail ==
    \/ \E i \in DOMAIN slides :
           \/ Click(i) \/ ToggleClick(i) \/ RangeClick(i)
           \/ OpenMenu(i) \/ KeyDelete(i) \/ DragStart(i)
           \/ \E lower \in BOOLEAN : Drop(i, lower)
    \/ Escape \/ MenuDelete \/ CancelDelete \/ DragEnd
    \/ ConfirmDelete \/ MenuSkip \/ MenuDuplicate
    \/ \E d \in {-1, 1} : MenuMove(d)

HostAnswers == HostAcks \/ HostApplies \/ HostRefuses

Next ==
    \/ Navigate \/ Rail
    \/ HostAnswers \/ Acknowledge \/ AckLost
    \/ OthersEdit \/ OthersSkip

(* The host processes what it is sent; an answer arrives or is lost.       *)
Fairness == WF_vars(HostAnswers) /\ WF_vars(Acknowledge \/ AckLost)

Spec == Init /\ [][Next]_vars /\ Fairness

-----------------------------------------------------------------------------

(* An edit leaves on screen the slide that was there, or its neighbour if  *)
(* that one was deleted, or the copy, wherever the slides moved to; one    *)
(* the host refuses leaves everything where it was.  In a hosted deck this *)
(* is said of an edit that nothing else interfered with.                   *)
PlaceIsKept == inPlace

(* The selection and the dialog never hold a slide that is gone, and in a  *)
(* hosted deck the menu never stands for other slides than when it opened. *)
RailIsFresh ==
    /\ selected \union confirm \subseteq ToSet(slides)
    /\ hosted => SlidesAt(menu.list) = menu.on

(* "close them rather than let a stale answer fire": in every page the     *)
(* menu stands for the slides it was opened on.                            *)
MenuIsFresh == SlidesAt(menu.list) = menu.on

(* "so the next nav starts from what's actually on screen": the index that *)
(* a refusal leaves is that of the slide shown.                            *)
RefusalRestoresIndex ==
    [][Acknowledge /\ ~Head(acks).applied => SlideAt(index') = shown]_vars

(* "Host has processed a dc-op; rail input is safe again": no operation    *)
(* that changes the order of the slides is still under way.                *)
AcknowledgedIsSafe ==
    [][Acknowledge => \A i \in DOMAIN ops : ops[i].op = "toggleSkip"]_vars

(* A locked rail waits for an edit the host has not processed, for a       *)
(* refusal on its way, or the refusal was lost.  An edit that was applied  *)
(* has unlocked it, whether its acknowledgement was lost or not.           *)
LockIsOwed ==
    railLock => \/ \E i \in DOMAIN ops : Locking(ops[i].op)
                \/ \E i \in DOMAIN acks : Unlocks(acks[i])
                \/ unheard

(* The rail does not stay locked, unless the refusal was lost.             *)
RailReopens == railLock ~> ~railLock \/ unheard

(* "so the rail can't stay dead": it does not stay locked whatever is lost. *)
RailNeverDead == railLock ~> ~railLock

=============================================================================
