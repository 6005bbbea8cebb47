-------------------------- MODULE DeckStageProofs --------------------------
(* Proofs about DeckStage, for any deck and any slides that may be added:  *)
(* what the rail holds of slides is of slides that are there, an edit      *)
(* keeps the reader's place, with a host or without, and a locked rail     *)
(* waits for an answer.                                                    *)
EXTENDS DeckStage, FiniteSetTheorems, SequenceTheorems, WellFoundedInduction, TLAPS

-----------------------------------------------------------------------------
(* The rail and the deck.                                                  *)

(* The dialog and a drag exclude each other: a drop, which leaves the      *)
(* dialog alone, never changes the deck under an open one.                 *)
Exclusive == confirm = {} \/ dragFrom = 0

Fresh == RailIsFresh /\ Exclusive

(* What is looked up by indices is in the deck.                            *)
LEMMA LookedUp ==
    /\ \A list : SlidesAt(list) \subseteq ToSet(slides)
    /\ \A i \in DOMAIN slides : slides[i] \in ToSet(slides)
BY DEF SlidesAt, ToSet

(* At first nothing is selected or open.                                   *)
LEMMA FreshInit == Init => Fresh
BY DEF Init, Fresh, RailIsFresh, Exclusive, NoMenu, SlidesAt

(* _onSlotChange drops what may be of another deck.                        *)
LEMMA RenderFresh ==
    ASSUME Fresh, NEW deck, Render(deck)
    PROVE  Fresh'
<1>1. selected' \subseteq ToSet(slides') /\ confirm' = {}
    BY DEF Render, CollectSlides
<1>2. menu'.list = {} /\ menu'.on = {}
    BY DEF Render, NoMenu
<1>3. SlidesAt(menu.list)' = {}
    BY <1>2 DEF SlidesAt
<1>4. QED
    BY <1>1, <1>2, <1>3 DEF Fresh, RailIsFresh, Exclusive

(* An edit, sent or made here, keeps of the selection what is in the deck; *)
(* only in a deck without a host does it leave a menu of other slides.     *)
LEMMA EditFresh ==
    ASSUME Fresh, NEW name, NEW list, NEW to, NEW ni, Edit(name, list, to, ni),
           UNCHANGED hosted
    PROVE  /\ selected' \subseteq ToSet(slides')
           /\ hosted => slides' = slides
<1>1. CASE NoEdit
    BY <1>1 DEF NoEdit, Fresh, RailIsFresh
<1>2. CASE Send(name, list, to, ni)
    BY <1>2 DEF Send, Fresh, RailIsFresh
<1>3. CASE EditHere(name, list, to, ni)
    BY <1>3 DEF EditHere, CollectSlides
<1>4. QED
    BY <1>1, <1>2, <1>3 DEF Edit

(* A handler that edits leaves the dialog closed and the menu as it was or *)
(* closed.                                                                 *)
LEMMA EditKeepsFresh ==
    ASSUME Fresh, NEW name, NEW list, NEW to, NEW ni, Edit(name, list, to, ni),
           UNCHANGED hosted, confirm' = {}, menu' = menu \/ menu' = NoMenu
    PROVE  Fresh'
<1>1. selected' \subseteq ToSet(slides') /\ (hosted => slides' = slides)
    BY EditFresh
<1>2. hosted => SlidesAt(menu.list)' = menu'.on
    BY <1>1 DEF Fresh, RailIsFresh, SlidesAt, NoMenu
<1>3. QED
    BY <1>1, <1>2 DEF Fresh, RailIsFresh, Exclusive

(* So does one that leaves the deck alone, whatever it selects in it.      *)
LEMMA SameDeckFresh ==
    ASSUME Fresh, UNCHANGED <<hosted, slides>>,
           selected' \subseteq ToSet(slides), confirm' \subseteq ToSet(slides),
           confirm' = {} \/ dragFrom' = 0, menu' = menu \/ menu' = NoMenu
    PROVE  Fresh'
<1>1. hosted => SlidesAt(menu.list)' = menu'.on
    BY DEF Fresh, RailIsFresh, SlidesAt, NoMenu
<1>2. QED
    BY <1>1 DEF Fresh, RailIsFresh, Exclusive

(* Each gesture, edit and answer.                                          *)
LEMMA FreshStep == Fresh /\ [Next]_vars => Fresh'
<1> SUFFICES ASSUME Fresh, [Next]_vars PROVE Fresh'
    OBVIOUS
<1>0. selected \subseteq ToSet(slides) /\ confirm \subseteq ToSet(slides)
    BY DEF Fresh, RailIsFresh
<1>1. CASE Navigate
    <2>1. /\ UNCHANGED <<hosted, slides, confirm>> /\ selected' \subseteq selected
          /\ dragFrom' = dragFrom /\ (menu' = menu \/ menu' = NoMenu)
        BY <1>1 DEF Navigate, Advance, Jump, GoTo, Key, Tap, Button, Script
    <2>2. QED
        BY <1>0, <2>1, SameDeckFresh DEF Fresh, Exclusive
<1>2. ASSUME NEW i \in DOMAIN slides, Click(i) \/ ToggleClick(i) \/ RangeClick(i)
      PROVE  Fresh'
    <2>1. /\ UNCHANGED <<hosted, slides, confirm, dragFrom>> /\ menu' = NoMenu
        BY <1>2 DEF Click, ToggleClick, RangeClick
    <2>2. selected' \subseteq ToSet(slides)
        <3>1. CASE Click(i)
            BY <3>1 DEF Click
        <3>2. CASE ToggleClick(i)
            BY <1>0, <3>2, LookedUp DEF ToggleClick
        <3>3. CASE RangeClick(i)
            BY <3>3, LookedUp DEF RangeClick
        <3>4. QED
            BY <1>2, <3>1, <3>2, <3>3
    <2>3. QED
        BY <1>0, <2>1, <2>2, SameDeckFresh DEF Fresh, Exclusive
<1>3. ASSUME NEW i \in DOMAIN slides, OpenMenu(i) PROVE Fresh'
    <2>1. UNCHANGED <<hosted, slides, confirm, dragFrom>>
        BY <1>3 DEF OpenMenu
    <2>2. selected' \subseteq ToSet(slides)
        BY <1>0, <1>3, LookedUp DEF OpenMenu
    <2>3. menu'.on = SlidesAt(menu'.list)
        BY <1>3 DEF OpenMenu
    <2>4. SlidesAt(menu.list)' = SlidesAt(menu'.list)
        BY <2>1 DEF SlidesAt
    <2>5. QED
        BY <1>0, <2>1, <2>2, <2>3, <2>4 DEF Fresh, RailIsFresh, Exclusive
<1>4. ASSUME NEW i \in DOMAIN slides, KeyDelete(i) PROVE Fresh'
    <2>1. /\ UNCHANGED <<hosted, slides, selected, menu>> /\ dragFrom' = 0
          /\ confirm' \subseteq ToSet(slides)
        BY <1>4, LookedUp DEF KeyDelete, Free
    <2>2. QED
        BY <1>0, <2>1, SameDeckFresh
<1>5. ASSUME NEW i \in DOMAIN slides, DragStart(i) PROVE Fresh'
    BY <1>5, SameDeckFresh DEF DragStart, Free
<1>6. ASSUME NEW i \in DOMAIN slides, NEW lower \in BOOLEAN, Drop(i, lower) PROVE Fresh'
    <2> DEFINE gap == IF lower THEN i + 1 ELSE i
               to == IF dragFrom < gap THEN gap - 1 ELSE gap
    <2>1. confirm' = {} /\ menu' = menu /\ UNCHANGED hosted
        BY <1>6 DEF Drop, Fresh, Exclusive
    <2>2. \/ NoEdit
          \/ Edit("move", {dragFrom} \intersect DOMAIN slides, to,
                  IndexAfterMove(index, dragFrom, to))
        BY <1>6 DEF Drop
    <2>3. CASE NoEdit
        BY <1>0, <2>1, <2>3, SameDeckFresh DEF NoEdit
    <2>4. CASE ~NoEdit
        BY <2>1, <2>2, <2>4, EditKeepsFresh
    <2>5. QED
        BY <2>3, <2>4
<1>7. CASE Escape \/ MenuDelete \/ CancelDelete \/ DragEnd
    <2>1. CASE Escape
        BY <1>0, <2>1, SameDeckFresh DEF Escape, Fresh, Exclusive
    <2>2. CASE MenuDelete
        <3>1. /\ UNCHANGED <<hosted, slides, selected>> /\ menu' = NoMenu /\ dragFrom' = 0
              /\ confirm' \subseteq ToSet(slides)
            BY <2>2, LookedUp DEF MenuDelete, Free
        <3>2. QED
            BY <1>0, <3>1, SameDeckFresh
    <2>3. CASE CancelDelete
        BY <1>0, <2>3, SameDeckFresh DEF CancelDelete
    <2>4. CASE DragEnd
        BY <1>0, <2>4, SameDeckFresh DEF DragEnd
    <2>5. QED
        BY <1>7, <2>1, <2>2, <2>3, <2>4
<1>8. CASE ConfirmDelete
    <2>1. confirm' = {} /\ menu' = NoMenu /\ UNCHANGED hosted
        BY <1>8 DEF ConfirmDelete
    <2>2. NoEdit \/ \E list, ni : Edit("remove", list, 0, ni)
        BY <1>8 DEF ConfirmDelete
    <2>3. CASE NoEdit
        BY <1>0, <2>1, <2>3, SameDeckFresh DEF NoEdit
    <2>4. CASE ~NoEdit
        BY <2>1, <2>2, <2>4, EditKeepsFresh
    <2>5. QED
        BY <2>3, <2>4
<1>9. CASE MenuSkip \/ MenuDuplicate \/ \E d \in {-1, 1} : MenuMove(d)
    <2>1. confirm' = {} /\ menu' = NoMenu /\ UNCHANGED hosted
        BY <1>9 DEF MenuSkip, MenuDuplicate, MenuMove, FromMenu, Free
    <2>2. \E name, list, to, ni : Edit(name, list, to, ni)
        BY <1>9 DEF MenuSkip, MenuDuplicate, MenuMove
    <2>3. QED
        BY <2>1, <2>2, EditKeepsFresh
<1>10. CASE HostApplies
    <2> DEFINE op == Head(ops)
    <2>1. PICK copy \in Copies(op.op) :
              IF ~Locking(op.op)
              THEN UNCHANGED <<slides, index, shown, rail, railLock, unheard, inPlace>>
              ELSE Render(Edited(op.op, op.at, op.to, copy))
        BY <1>10 DEF HostApplies
    <2>2. CASE ~Locking(op.op)
        BY <1>0, <1>10, <2>1, <2>2, SameDeckFresh DEF HostApplies, rail, Fresh, Exclusive
    <2>3. CASE Locking(op.op)
        BY <2>1, <2>3, RenderFresh
    <2>4. QED
        BY <2>2, <2>3
<1>11. CASE HostAcks \/ HostRefuses
    BY <1>0, <1>11, SameDeckFresh DEF HostAcks, HostRefuses, rail, Fresh, Exclusive
<1>12. CASE Acknowledge \/ AckLost \/ OthersSkip
    BY <1>0, <1>12, SameDeckFresh
       DEF Acknowledge, AckLost, OthersSkip, rail, Fresh, Exclusive
<1>13. CASE OthersEdit
    <2>1. \E deck : Render(deck)
        BY <1>13 DEF OthersEdit
    <2>2. QED
        BY <2>1, RenderFresh
<1>14. CASE UNCHANGED vars
    BY <1>0, <1>14, SameDeckFresh DEF vars, rail, Fresh, Exclusive
<1>15. QED
    BY <1>1, <1>2, <1>3, <1>4, <1>5, <1>6, <1>7, <1>8, <1>9, <1>10, <1>11, <1>12, <1>13, <1>14
       DEF Next, Rail, HostAnswers

(* In every order of gestures, edits, answers and edits of others: the     *)
(* selection and the dialog hold slides of the deck, and in a hosted deck  *)
(* an open menu stands for the slides it was opened on.                    *)
THEOREM RailStaysFresh == Spec => []RailIsFresh
<1>1. Fresh => RailIsFresh
    BY DEF Fresh
<1>2. QED
    BY <1>1, FreshInit, FreshStep, PTL DEF Spec

-----------------------------------------------------------------------------
(* Positions: what is least or greatest of a set of them, and where one   *)
(* of a set is among the others.                                           *)

Less == {p \in Nat \X Nat : p[1] < p[2]}

(* Less is what the library calls the relation of < on Nat.                *)
LEMMA LessIsWellFounded == IsWellFoundedOn(Less, Nat)
BY NatLessThanWellFounded DEF OpToRel, Less

LEMMA InLess == ASSUME NEW x \in Nat, NEW y \in Nat, x < y PROVE <<x, y>> \in Less
<1>1. <<x, y>> \in Nat \X Nat /\ <<x, y>>[1] < <<x, y>>[2]
    OBVIOUS
<1>2. QED
    BY Zenon, <1>1 DEF Less

(* A set of naturals that is not empty has a least element, and Min is it. *)
LEMMA LeastOf ==
    ASSUME NEW set, set \subseteq Nat, set # {}
    PROVE  /\ Min(set) \in set
           /\ \A y \in set : Min(set) <= y
<1>1. PICK x \in set : \A y \in set : <<y, x>> \notin Less
    BY LessIsWellFounded, WFMin
<1>2. \A y \in set : x \in Nat /\ y \in Nat /\ ~(y < x)
    BY <1>1, InLess
<1>3. x \in set /\ \A y \in set : x <= y
    BY <1>2
<1>4. QED
    BY <1>3 DEF Min

(* A set of positions has a greatest: the least of their distances to n.   *)
LEMMA GreatestOf ==
    ASSUME NEW n \in Nat, NEW set, set \subseteq 1..n, set # {}
    PROVE  /\ Max(set) \in set
           /\ \A y \in set : Max(set) >= y
<1> DEFINE below == {n - y : y \in set}
<1>1. below \subseteq Nat
    <2>1. \A y \in set : n - y \in Nat
        OBVIOUS
    <2>2. QED
        BY <2>1
<1>2. below # {}
    OBVIOUS
<1>3. Min(below) \in below /\ \A v \in below : Min(below) <= v
    BY <1>1, <1>2, LeastOf
<1>4. PICK x \in set : Min(below) = n - x
    BY <1>3
<1>5. \A y \in set : n - x <= n - y
    BY <1>3, <1>4
<1>6. \A y \in set : x >= y
    <2>1. \A y \in set : y \in Int /\ x \in Int
        OBVIOUS
    <2>2. QED
        BY <1>5, <2>1
<1>7. QED
    BY <1>6 DEF Max

(* Sets of positions are finite.                                           *)
LEMMA PositionsFinite ==
    ASSUME NEW n \in Nat, NEW set \in SUBSET (1..n)
    PROVE  IsFiniteSet(set) /\ Cardinality(set) \in Nat /\ Cardinality(set) <= n
<1>1. IsFiniteSet(1..n) /\ Cardinality(1..n) = n
    BY FS_Interval
<1>2. IsFiniteSet(set) /\ Cardinality(set) <= n
    BY <1>1, FS_Subset
<1>3. QED
    BY <1>2, FS_CardinalityType

(* Where an element of a set of positions is among them.                   *)
Lower(set, i) == Cardinality({j \in set : j < i})

Rank(set, i) == Lower(set, i) + 1

(* A rank is a number of one to as many as there are elements.             *)
LEMMA RankType ==
    ASSUME NEW n \in Nat, NEW set \in SUBSET (1..n), NEW i \in set
    PROVE  /\ IsFiniteSet(set) /\ Cardinality(set) \in Nat
           /\ IsFiniteSet({j \in set : j < i})
           /\ Rank(set, i) \in 1..Cardinality(set)
<1>1. IsFiniteSet(set) /\ Cardinality(set) \in Nat
    BY PositionsFinite
<1>2. PICK low \in SUBSET set : low = {j \in set : j < i}
    OBVIOUS
<1>3. i \notin low
    BY <1>2
<1>4. /\ IsFiniteSet(low) /\ Cardinality(low) \in Nat
      /\ Cardinality(low) <= Cardinality(set) /\ Cardinality(low) # Cardinality(set)
    BY <1>1, <1>3, FS_Subset, FS_CardinalityType
<1>5. Rank(set, i) = Cardinality(low) + 1
    BY <1>2 DEF Rank, Lower
<1>6. QED
    BY <1>1, <1>2, <1>4, <1>5

(* Ranks are in the order of the elements.                                 *)
LEMMA RankGrows ==
    ASSUME NEW n \in Nat, NEW set \in SUBSET (1..n), NEW i \in set, NEW j \in set, i < j
    PROVE  Rank(set, i) < Rank(set, j)
<1>1. PICK low, high : low = {k \in set : k < i} /\ high = {k \in set : k < j}
    OBVIOUS
<1>2. \A k \in set : k \in Nat
    OBVIOUS
<1>3. low \in SUBSET high /\ i \in high /\ i \notin low
    <2>1. i \in Nat /\ j \in Nat
        BY <1>2
    <2>2. /\ \A k : k \in low <=> k \in set /\ k < i
          /\ \A k : k \in high <=> k \in set /\ k < j
        BY <1>1
    <2>3. ASSUME NEW k \in low PROVE k \in high
        <3>1. k \in set /\ k \in Nat /\ k < i
            BY <1>2, <2>2
        <3>2. k < j
            BY <2>1, <3>1
        <3>3. QED
            BY <2>2, <3>1, <3>2
    <2>4. ~(i < i)
        BY <2>1
    <2>5. QED
        BY <2>2, <2>3, <2>4
<1>4. IsFiniteSet(low) /\ IsFiniteSet(high)
    BY <1>1, RankType
<1>5. /\ Cardinality(low) <= Cardinality(high) /\ Cardinality(low) # Cardinality(high)
      /\ Cardinality(low) \in Nat /\ Cardinality(high) \in Nat
    BY <1>3, <1>4, FS_Subset, FS_CardinalityType
<1>6. QED
    BY <1>1, <1>5 DEF Rank, Lower

(* Each number up to the size of the set is the rank of one element.       *)
LEMMA RankIsOnto ==
    ASSUME NEW n \in Nat, NEW set \in SUBSET (1..n), NEW k \in 1..Cardinality(set)
    PROVE  \E i \in set : /\ Rank(set, i) = k
                          /\ \A j \in set : Rank(set, j) = k => j = i
<1>1. IsFiniteSet(set) /\ Cardinality(set) \in Nat
    BY PositionsFinite
<1>2. PICK m \in Nat : m = Cardinality(set)
    BY <1>1
<1>3. PICK f : f = [i \in set |-> Rank(set, i)]
    OBVIOUS
<1>4. f \in [set -> 1..m]
    BY <1>2, <1>3, RankType
<1>5. ASSUME NEW i \in set, NEW j \in set, Rank(set, i) = Rank(set, j) PROVE i = j
    <2>1. i \in Nat /\ j \in Nat
        OBVIOUS
    <2>0. Rank(set, i) \in Nat
        BY <1>4, <1>3
    <2>2. \A x, y \in set : x < y => Rank(set, x) < Rank(set, y)
        BY RankGrows
    <2>3. ~(i < j) /\ ~(j < i)
        BY <1>5, <2>0, <2>2
    <2>4. QED
        BY <2>1, <2>3
<1>6. f \in Injection(set, 1..m)
    BY <1>3, <1>4, <1>5 DEF Injection, IsInjective
<1>7. IsFiniteSet(1..m) /\ Cardinality(1..m) = m
    BY FS_Interval
<1>8. f \in Surjection(set, 1..m)
    BY <1>2, <1>6, <1>7, FS_Injection
<1>9. \E i \in set : f[i] = k
    BY <1>2, <1>8 DEF Surjection
<1>10. QED
    BY <1>3, <1>5, <1>9

(* The rank among those that stay: one less for each that goes before it.  *)
LEMMA RankCounts ==
    ASSUME NEW n \in Nat, NEW list \in SUBSET (1..n), NEW i \in 1..n
    PROVE  Rank((1..n) \ list, i) = i - Lower(list, i)
<1>1. PICK low, high : low = {x \in list : x < i} /\ high = {j \in (1..n) \ list : j < i}
    OBVIOUS
<1>2. i \in Nat /\ i >= 1 /\ i <= n /\ i - 1 \in Nat
    OBVIOUS
<1>3. IsFiniteSet(1..(i - 1)) /\ Cardinality(1..(i - 1)) = i - 1
    BY <1>2, FS_Interval
<1>4. \A x : x \in low => x \in 1..(i - 1)
    BY <1>1, <1>2
<1>5. low \cap 1..(i - 1) = low /\ low \in SUBSET (1..(i - 1))
    BY <1>4
<1>6. high = (1..(i - 1)) \ low
    <2>1. \A x : x \in high <=> x \in 1..n /\ x \notin list /\ x < i
        BY <1>1
    <2>2. \A x : x \in low <=> x \in list /\ x < i
        BY <1>1
    <2>3. \A x : x \in 1..(i - 1) <=> x \in 1..n /\ x < i
        BY <1>2
    <2>4. \A x : x \in high <=> x \in 1..(i - 1) /\ x \notin low
        BY Zenon, <2>1, <2>2, <2>3
    <2>5. QED
        BY <2>4
<1>7. Cardinality(high) = i - 1 - Cardinality(low) /\ Cardinality(low) \in Nat
    <2>1. (1..(i - 1)) \cap low = low
        BY <1>5
    <2>2. Cardinality(high) = Cardinality(1..(i - 1)) - Cardinality((1..(i - 1)) \cap low)
        BY <1>3, <1>6, FS_Difference
    <2>3. Cardinality(low) \in Nat
        BY <1>2, <1>5, PositionsFinite
    <2>4. QED
        BY <1>3, <2>1, <2>2, <2>3
<1>8. QED
    BY <1>1, <1>2, <1>7 DEF Rank, Lower

(* The slide that is shown when those at list go: the current one, or else *)
(* the first after it that stays, or else the last that stays.             *)
Survivor(cur, n, list) ==
    LET kept == (1..n) \ list
        after == {k \in kept : k >= cur}
    IN IF after # {} THEN Min(after) ELSE Max(kept)

(* What Survivor is, without Min and Max, and what the code counts from it.*)
LEMMA SurvivorStays ==
    ASSUME NEW n \in Nat, NEW list \in SUBSET (1..n), list # 1..n, NEW cur \in 1..n
    PROVE  /\ Survivor(cur, n, list) \in (1..n) \ list
           /\ cur \notin list => Survivor(cur, n, list) = cur
           /\ IndexAfterRemoveMany(cur, n, list)
                  = Survivor(cur, n, list) - Lower(list, Survivor(cur, n, list))
           /\ \A k \in (1..n) \ list :
                  /\ k >= cur => /\ Survivor(cur, n, list) >= cur
                                /\ Survivor(cur, n, list) <= k
                  /\ k < cur => \/ Survivor(cur, n, list) >= cur
                                \/ Survivor(cur, n, list) >= k
<1>1. PICK kept, after : kept = (1..n) \ list /\ after = {k \in kept : k >= cur}
    OBVIOUS
<1>2. kept # {} /\ kept \subseteq 1..n /\ kept \subseteq Nat
    <2>1. PICK x \in 1..n : x \notin list
        OBVIOUS
    <2>2. x \in kept
        BY <1>1, <2>1
    <2>3. \A y \in kept : y \in 1..n
        BY <1>1
    <2>4. \A y \in 1..n : y \in Nat
        OBVIOUS
    <2>5. QED
        BY <2>2, <2>3, <2>4
<1>3. after \subseteq kept /\ after \subseteq Nat
    BY <1>1, <1>2
<1>4. Survivor(cur, n, list) = IF after # {} THEN Min(after) ELSE Max(kept)
    BY <1>1 DEF Survivor
<1>5. /\ after # {} => Min(after) \in after /\ \A y \in after : Min(after) <= y
      /\ Max(kept) \in kept /\ \A y \in kept : Max(kept) >= y
    BY <1>2, <1>3, LeastOf, GreatestOf
<1>6. Survivor(cur, n, list) \in kept
    BY <1>3, <1>4, <1>5
<1>7. ASSUME cur \notin list PROVE Survivor(cur, n, list) = cur
    <2>1. cur \in after
        BY <1>1, <1>7
    <2>2. Min(after) \in after /\ Min(after) <= cur
        BY <1>5, <2>1
    <2>3. Min(after) >= cur /\ Min(after) \in Nat /\ cur \in Nat
        BY <1>1, <1>3, <2>2
    <2>4. QED
        BY <1>4, <2>1, <2>2, <2>3
<1>8. PICK beyond : beyond = {j \in 1..n \ list : j > cur}
    OBVIOUS
<1>9. ASSUME cur \in list PROVE after = beyond
    <2>1. \A k \in kept : k \in Nat /\ cur \in Nat /\ k # cur
        BY <1>1, <1>2, <1>9
    <2>2. \A k \in kept : k >= cur <=> k > cur
        BY <2>1
    <2>3. QED
        BY <1>1, <1>8, <2>2
<1>10. PICK s : s = IF cur \notin list THEN cur
                    ELSE IF beyond # {} THEN Min(beyond) ELSE Max(kept)
    OBVIOUS
<1>11. IndexAfterRemoveMany(cur, n, list) = s - Lower(list, s)
    BY <1>1, <1>8, <1>10 DEF IndexAfterRemoveMany, Lower
<1>12. s = Survivor(cur, n, list)
    BY <1>4, <1>7, <1>9, <1>10
<1>13. ASSUME NEW k \in kept
       PROVE  /\ k >= cur => Survivor(cur, n, list) >= cur /\ Survivor(cur, n, list) <= k
              /\ k < cur => Survivor(cur, n, list) >= cur \/ Survivor(cur, n, list) >= k
    <2>1. after # {} => Min(after) >= cur
        BY <1>1, <1>5
    <2>2. k >= cur => k \in after
        BY <1>1
    <2>3. QED
        BY <1>4, <1>5, <2>1, <2>2
<1>14. QED
    BY <1>1, <1>6, <1>7, <1>11, <1>12, <1>13

(* _deleteSlides: the index computed is where the survivor then is.        *)
LEMMA RemoveManyIndex ==
    ASSUME NEW n \in Nat, NEW list \in SUBSET (1..n), list # 1..n, NEW cur \in 1..n
    PROVE  IndexAfterRemoveMany(cur, n, list) = Rank((1..n) \ list, Survivor(cur, n, list))
<1>1. Survivor(cur, n, list) \in 1..n
    BY SurvivorStays
<1>2. Rank((1..n) \ list, Survivor(cur, n, list))
          = Survivor(cur, n, list) - Lower(list, Survivor(cur, n, list))
    BY <1>1, RankCounts
<1>3. QED
    BY <1>2, SurvivorStays

(* _deleteSlide: so is the one computed for a single slide.                *)
LEMMA RemoveIndex ==
    ASSUME NEW n \in Nat, NEW i \in 1..n, n # 1, NEW cur \in 1..n
    PROVE  IndexAfterRemove(cur, n, i) = Rank((1..n) \ {i}, Survivor(cur, n, {i}))
<1>0. n \in Nat /\ i \in Nat /\ cur \in Nat /\ 1 <= i /\ i <= n /\ 1 <= cur /\ cur <= n /\ n >= 2
    OBVIOUS
<1>1. {i} # 1..n /\ {i} \in SUBSET (1..n)
    <2>1. \E j \in 1..n : j # i
        BY <1>0
    <2>2. QED
        BY <2>1
<1>2. PICK s, gone : s = Survivor(cur, n, gone) /\ gone = {i}
    OBVIOUS
<1>3. /\ s \in 1..n /\ s # i
      /\ cur # i => s = cur
      /\ \A k \in 1..n : k # i /\ k >= cur => s >= cur /\ s <= k
      /\ \A k \in 1..n : k # i /\ k < cur => s >= cur \/ s >= k
    <2>1. gone \in SUBSET (1..n) /\ gone # 1..n
        BY <1>1, <1>2
    <2>2. /\ s \in (1..n) \ gone
          /\ cur \notin gone => s = cur
          /\ \A k \in (1..n) \ gone :
                  /\ k >= cur => s >= cur /\ s <= k
                  /\ k < cur => s >= cur \/ s >= k
        BY <1>2, <2>1, SurvivorStays
    <2>3. QED
        BY <1>2, <2>2
<1>4. Rank((1..n) \ {i}, s) = s - Lower({i}, s)
    BY <1>1, <1>3, RankCounts
<1>5. Lower({i}, s) = IF i < s THEN 1 ELSE 0
    <2>1. CASE i < s
        <3>1. {x \in {i} : x < s} = {i}
            BY <2>1
        <3>2. QED
            BY <2>1, <3>1, FS_Singleton DEF Lower
    <2>2. CASE ~(i < s)
        <3>1. {x \in {i} : x < s} = {}
            BY <2>2
        <3>2. QED
            BY <2>2, <3>1, FS_EmptySet DEF Lower
    <2>3. QED
        BY <2>1, <2>2
<1>6. CASE cur # i
    BY <1>0, <1>2, <1>3, <1>4, <1>5, <1>6 DEF IndexAfterRemove
<1>7. CASE cur = i /\ i < n
    <2>1. i + 1 \in 1..n /\ i + 1 # i /\ i + 1 >= cur
        BY <1>0, <1>7
    <2>2. s >= cur /\ s <= i + 1
        BY <1>3, <2>1
    <2>3. s = i + 1
        BY <1>0, <1>3, <1>7, <2>2
    <2>4. QED
        BY <1>0, <1>2, <1>4, <1>5, <1>7, <2>3 DEF IndexAfterRemove
<1>8. CASE cur = i /\ i = n
    <2>1. i - 1 \in 1..n /\ i - 1 # i /\ i - 1 < cur
        BY <1>0, <1>8
    <2>2. s >= cur \/ s >= i - 1
        BY <1>3, <2>1
    <2>3. s = i - 1
        BY <1>0, <1>3, <1>8, <2>2
    <2>4. QED
        BY <1>0, <1>2, <1>4, <1>5, <1>8, <2>3 DEF IndexAfterRemove
<1>9. QED
    BY <1>0, <1>6, <1>7, <1>8

-----------------------------------------------------------------------------
(* The index of the current slide, in decks of any length.                 *)

(* What is left without one slide.                                         *)
LEMMA RemoveOne ==
    ASSUME NEW S, NEW s \in Seq(S), NEW i \in 1..Len(s)
    PROVE  /\ RemoveAt(s, i) \in Seq(S) /\ Len(RemoveAt(s, i)) = Len(s) - 1
           /\ \A k \in 1..Len(s) - 1 :
                  RemoveAt(s, i)[k] = IF k < i THEN s[k] ELSE s[k + 1]
<1> DEFINE front == SubSeq(s, 1, i - 1)
           rest == SubSeq(s, i + 1, Len(s))
<1>1. /\ front \in Seq(S) /\ rest \in Seq(S)
      /\ Len(front) = i - 1 /\ Len(rest) = Len(s) - i
      /\ \A k \in 1..(i - 1) : front[k] = s[k]
      /\ \A k \in 1..(Len(s) - i) : rest[k] = s[k + i]
    OBVIOUS
<1>2. RemoveAt(s, i) = front \o rest
    BY DEF RemoveAt
<1> HIDE DEF front, rest
<1>3. /\ front \o rest \in Seq(S)
      /\ Len(front \o rest) = Len(front) + Len(rest)
      /\ \A k \in 1..Len(front) + Len(rest) :
             (front \o rest)[k] = IF k <= Len(front) THEN front[k] ELSE rest[k - Len(front)]
    BY <1>1, ConcatProperties
<1>4. Len(s) \in Nat /\ i \in Nat /\ i >= 1 /\ i <= Len(s)
    OBVIOUS
<1>5. ASSUME NEW k \in 1..Len(s) - 1
      PROVE  (front \o rest)[k] = IF k < i THEN s[k] ELSE s[k + 1]
    <2>1. k \in 1..Len(front) + Len(rest)
        BY <1>1, <1>4
    <2>2. CASE k < i
        <3>1. k <= Len(front) /\ k \in 1..(i - 1)
            BY <1>1, <1>4, <2>2
        <3>2. QED
            BY <1>1, <1>3, <2>1, <2>2, <3>1
    <2>3. CASE ~(k < i)
        <3>1. /\ ~(k <= Len(front)) /\ k - Len(front) \in 1..(Len(s) - i)
              /\ (k - Len(front)) + i = k + 1
            BY <1>1, <1>4, <2>3
        <3>2. QED
            BY <1>1, <1>3, <2>1, <2>3, <3>1
    <2>4. QED
        BY <2>2, <2>3
<1>6. QED
    BY <1>1, <1>2, <1>3, <1>4, <1>5

(* A slide more, at place j.                                               *)
Inserted(S, s, j, e) ==
    /\ InsertAt(s, j, e) \in Seq(S) /\ Len(InsertAt(s, j, e)) = Len(s) + 1
    /\ \A k \in 1..Len(s) + 1 :
           InsertAt(s, j, e)[k] =
               IF k < j THEN s[k] ELSE IF k = j THEN e ELSE s[k - 1]

(* InsertAt, by index.                                                     *)
LEMMA InsertOne ==
    ASSUME NEW S, NEW s \in Seq(S), NEW j \in 1..Len(s) + 1, NEW e \in S
    PROVE  Inserted(S, s, j, e)
<1> DEFINE front == SubSeq(s, 1, j - 1)
           rest == SubSeq(s, j, Len(s))
<1>1. /\ front \in Seq(S) /\ rest \in Seq(S) /\ <<e>> \in Seq(S)
      /\ Len(front) = j - 1 /\ Len(rest) = Len(s) + 1 - j /\ Len(<<e>>) = 1 /\ <<e>>[1] = e
      /\ \A k \in 1..(j - 1) : front[k] = s[k]
      /\ \A k \in 1..(Len(s) + 1 - j) : rest[k] = s[k + j - 1]
    OBVIOUS
<1> DEFINE middle == <<e>>
<1>2. InsertAt(s, j, e) = (front \o middle) \o rest
    BY DEF InsertAt
<1>3. /\ middle \in Seq(S) /\ Len(middle) = 1 /\ middle[1] = e
    BY <1>1
<1> HIDE DEF front, rest, middle
<1>4. /\ front \o middle \in Seq(S) /\ Len(front \o middle) = j
      /\ \A k \in 1..j : (front \o middle)[k] = IF k < j THEN s[k] ELSE e
    <2>1. /\ front \o middle \in Seq(S)
          /\ Len(front \o middle) = Len(front) + Len(middle)
          /\ \A k \in 1..Len(front) + Len(middle) :
                 (front \o middle)[k] =
                     IF k <= Len(front) THEN front[k] ELSE middle[k - Len(front)]
        <3>1. front \in Seq(S) /\ middle \in Seq(S)
            BY <1>1, <1>3
        <3>2. QED
            BY <3>1, ConcatProperties
    <2>2. Len(front) + Len(middle) = j /\ Len(front) = j - 1 /\ j \in Nat
        BY <1>1, <1>3
    <2>3. ASSUME NEW k \in 1..j
          PROVE  (front \o middle)[k] = IF k < j THEN s[k] ELSE e
        <3>1. CASE k < j
            <4>1. k <= Len(front) /\ k \in 1..(j - 1) /\ k \in 1..Len(front) + Len(middle)
                BY <2>2, <3>1
            <4>2. QED
                BY <1>1, <2>1, <3>1, <4>1
        <3>2. CASE ~(k < j)
            <4>1. /\ ~(k <= Len(front)) /\ k - Len(front) = 1
                  /\ k \in 1..Len(front) + Len(middle)
                BY <2>2, <3>2
            <4>2. QED
                BY <1>3, <2>1, <3>2, <4>1
        <3>3. QED
            BY <3>1, <3>2
    <2>4. QED
        BY <2>1, <2>2, <2>3
<1>5. /\ (front \o middle) \o rest \in Seq(S)
      /\ Len((front \o middle) \o rest) = j + Len(rest)
      /\ \A k \in 1..j + Len(rest) :
             ((front \o middle) \o rest)[k] =
                 IF k <= j THEN (front \o middle)[k] ELSE rest[k - j]
    <2>1. PICK start : start = front \o middle
        OBVIOUS
    <2>2. start \in Seq(S) /\ Len(start) = j
        BY <1>4, <2>1
    <2>3. /\ start \o rest \in Seq(S)
          /\ Len(start \o rest) = Len(start) + Len(rest)
          /\ \A k \in 1..Len(start) + Len(rest) :
                 (start \o rest)[k] = IF k <= Len(start) THEN start[k] ELSE rest[k - Len(start)]
        <3>1. start \in Seq(S) /\ rest \in Seq(S)
            BY <1>1, <2>2
        <3>2. QED
            BY <3>1, ConcatProperties
    <2>4. QED
        BY <2>1, <2>2, <2>3
<1>6. Len(s) \in Nat /\ j \in Nat /\ j >= 1 /\ j <= Len(s) + 1
    OBVIOUS
<1>7. PICK start, all : start = front \o middle /\ all = (front \o middle) \o rest
    OBVIOUS
<1>8. ASSUME NEW k \in 1..Len(s) + 1
      PROVE  all[k] = IF k < j THEN s[k] ELSE IF k = j THEN e ELSE s[k - 1]
    <2>1. k \in 1..j + Len(rest)
        BY <1>1, <1>6
    <2>2. all[k] = IF k <= j THEN start[k] ELSE rest[k - j]
        BY <1>5, <1>7, <2>1
    <2>3. CASE k <= j
        <3>1. k \in 1..j
            BY <1>6, <2>3
        <3>2. start[k] = IF k < j THEN s[k] ELSE e
            BY <1>4, <1>7, <3>1
        <3>3. QED
            BY <1>6, <2>2, <2>3, <3>2
    <2>4. CASE ~(k <= j)
        <3>1. k - j \in 1..(Len(s) + 1 - j) /\ (k - j) + j - 1 = k - 1
            BY <1>6, <2>4
        <3>2. rest[k - j] = s[(k - j) + j - 1]
            BY <1>1, <3>1
        <3>3. rest[k - j] = s[k - 1]
            BY <3>1, <3>2
        <3>4. QED
            BY <1>6, <2>2, <2>4, <3>3
    <2>5. QED
        BY <2>3, <2>4
<1>9. all \in Seq(S) /\ Len(all) = Len(s) + 1
    BY <1>1, <1>5, <1>6, <1>7
<1>10. InsertAt(s, j, e) = all
    BY <1>2, <1>7
<1>11. QED
    BY <1>8, <1>9, <1>10 DEF Inserted

(* _moveSlide: after a move of any slide to any place the slide on screen, *)
(* moved or shifted, is at the index computed for it.                      *)
THEOREM MovesKeepPlace ==
    ASSUME NEW S, slides \in Seq(S), index \in DOMAIN slides,
           NEW i \in DOMAIN slides, NEW j \in DOMAIN slides, NEW copy
    PROVE  /\ Edited("move", {i}, j, copy) \in Seq(S)
           /\ Len(Edited("move", {i}, j, copy)) = Len(slides)
           /\ IndexAfterMove(index, i, j) \in DOMAIN slides
           /\ Edited("move", {i}, j, copy)[IndexAfterMove(index, i, j)] = slides[index]
<1>1. Edited("move", {i}, j, copy) = InsertAt(RemoveAt(slides, i), j, slides[i])
    <2>1. Pick({i}) = i
        BY DEF Pick
    <2>2. QED
        BY <2>1 DEF Edited
<1>2. /\ Len(slides) \in Nat /\ DOMAIN slides = 1..Len(slides)
      /\ \A k \in DOMAIN slides : slides[k] \in S
    BY LenProperties
<1>3. PICK r : r = RemoveAt(slides, i)
    OBVIOUS
<1>4. /\ r \in Seq(S) /\ Len(r) = Len(slides) - 1
      /\ \A k \in 1..Len(slides) - 1 : r[k] = IF k < i THEN slides[k] ELSE slides[k + 1]
    BY <1>2, <1>3, RemoveOne
<1>5. PICK d : d = InsertAt(r, j, slides[i])
    OBVIOUS
<1>6. /\ d \in Seq(S) /\ Len(d) = Len(slides)
      /\ \A k \in 1..Len(slides) :
             d[k] = IF k < j THEN r[k] ELSE IF k = j THEN slides[i] ELSE r[k - 1]
    <2>1. j \in 1..Len(r) + 1 /\ slides[i] \in S /\ Len(r) + 1 = Len(slides)
        BY <1>2, <1>4
    <2>2. /\ d \in Seq(S) /\ Len(d) = Len(r) + 1
          /\ \A k \in 1..Len(r) + 1 :
                 d[k] = IF k < j THEN r[k] ELSE IF k = j THEN slides[i] ELSE r[k - 1]
        <3>1. \A m \in 1..Len(r) + 1 : \A e \in S : Inserted(S, r, m, e)
            BY Zenon, <1>4, InsertOne
        <3>2. Inserted(S, r, j, slides[i])
            BY <2>1, <3>1
        <3>3. QED
            BY <1>5, <3>2 DEF Inserted
    <2>3. QED
        BY <2>1, <2>2
<1>7. /\ IndexAfterMove(index, i, j) \in DOMAIN slides
      /\ d[IndexAfterMove(index, i, j)] = slides[index]
    <2>0. /\ Len(slides) \in Nat /\ DOMAIN slides = 1..Len(slides)
          /\ i \in 1..Len(slides) /\ j \in 1..Len(slides) /\ index \in 1..Len(slides)
        BY <1>2
    <2>1. CASE index = i
        BY <1>6, <2>0, <2>1 DEF IndexAfterMove
    <2>2. CASE index # i /\ i < index /\ j >= index
        <3>1. IndexAfterMove(index, i, j) = index - 1 /\ index - 1 \in 1..Len(slides) - 1
            BY <2>0, <2>2 DEF IndexAfterMove
        <3>2. index - 1 < j /\ ~(index - 1 < i) /\ index - 1 \in 1..Len(slides)
            BY <2>0, <2>2
        <3>3. d[index - 1] = r[index - 1] /\ r[index - 1] = slides[(index - 1) + 1]
            BY <1>4, <1>6, <3>1, <3>2
        <3>4. QED
            BY <2>0, <3>1, <3>2, <3>3
    <2>3. CASE index # i /\ i > index /\ j <= index
        <3>1. IndexAfterMove(index, i, j) = index + 1 /\ index \in 1..Len(slides) - 1
            BY <2>0, <2>3 DEF IndexAfterMove
        <3>2. /\ ~(index + 1 < j) /\ index + 1 # j /\ index + 1 \in 1..Len(slides)
              /\ (index + 1) - 1 = index /\ index < i
            BY <2>0, <2>3
        <3>3. d[index + 1] = r[index] /\ r[index] = slides[index]
            BY <1>4, <1>6, <3>1, <3>2
        <3>4. QED
            BY <2>0, <3>1, <3>2, <3>3
    <2>4. CASE index # i /\ i < index /\ j < index
        <3>1. /\ IndexAfterMove(index, i, j) = index /\ index - 1 \in 1..Len(slides) - 1
              /\ ~(index < j) /\ index # j /\ ~(index - 1 < i) /\ (index - 1) + 1 = index
            BY <2>0, <2>4 DEF IndexAfterMove
        <3>2. d[index] = r[index - 1] /\ r[index - 1] = slides[(index - 1) + 1]
            BY <1>4, <1>6, <2>0, <3>1
        <3>3. QED
            BY <2>0, <3>1, <3>2
    <2>5. CASE index # i /\ i > index /\ j > index
        <3>1. /\ IndexAfterMove(index, i, j) = index /\ index \in 1..Len(slides) - 1
              /\ index < j /\ index < i
            BY <2>0, <2>5 DEF IndexAfterMove
        <3>2. d[index] = r[index] /\ r[index] = slides[index]
            BY <1>4, <1>6, <2>0, <3>1
        <3>3. QED
            BY <2>0, <3>1, <3>2
    <2>6. QED
        BY <2>0, <2>1, <2>2, <2>3, <2>4, <2>5
<1>8. QED
    BY <1>1, <1>3, <1>5, <1>6, <1>7

(* _duplicateSlide: the copy follows its original and is what is shown.    *)
THEOREM CopiesFollow ==
    ASSUME NEW S, slides \in Seq(S), NEW i \in DOMAIN slides, NEW copy \in S
    PROVE  /\ Edited("duplicate", {i}, 0, copy) \in Seq(S)
           /\ Len(Edited("duplicate", {i}, 0, copy)) = Len(slides) + 1
           /\ Edited("duplicate", {i}, 0, copy)[i] = slides[i]
           /\ Edited("duplicate", {i}, 0, copy)[i + 1] = copy
<1>1. Edited("duplicate", {i}, 0, copy) = InsertAt(slides, i + 1, copy)
    <2>1. Pick({i}) = i
        BY DEF Pick
    <2>2. QED
        BY <2>1 DEF Edited
<1>2. Len(slides) \in Nat /\ DOMAIN slides = 1..Len(slides)
    BY LenProperties
<1>3. i + 1 \in 1..Len(slides) + 1 /\ i \in Nat /\ i < i + 1 /\ i \in 1..Len(slides) + 1
    BY <1>2
<1>4. QED
    BY <1>1, <1>2, <1>3, InsertOne DEF Inserted

(* The slide to be on screen after an edit that removes nothing is the one *)
(* that is.                                                                *)
LEMMA GoalStays ==
    ASSUME NEW S, slides \in Seq(S), index \in DOMAIN slides,
           NEW name, name # "remove", NEW list
    PROVE  Goal(name, list) = slides[index]
<1> DEFINE after == {k \in DOMAIN slides : k >= index}
<1>1. index \in after /\ \A k \in after : index <= k
    BY LenProperties
<1>2. \A k \in after : (\A y \in after : k <= y) => k = index
    BY <1>1, LenProperties
<1>3. Min(after) = index
    BY <1>1, <1>2 DEF Min
<1>4. after # {}
    BY <1>1
<1>5. Goal(name, list) = SlideAt(IF after # {} THEN Min(after)
                                 ELSE IF DOMAIN slides # {} THEN Max(DOMAIN slides) ELSE 0)
    <2>1. DOMAIN slides \ (IF name = "remove" THEN list ELSE {}) = DOMAIN slides
        OBVIOUS
    <2>2. QED
        BY Zenon, <2>1 DEF Goal
<1> HIDE DEF after
<1>6. QED
    BY <1>3, <1>4, <1>5 DEF SlideAt

(* What the clamp of _collectSlides does with an index that is in the deck. *)
LEMMA InDeckStays ==
    ASSUME NEW deck, Len(deck) \in Nat, NEW i \in 1..Len(deck), CollectSlides(deck, i)
    PROVE  slides' = deck /\ index' = i
BY DEF CollectSlides

(* A slide moved or copied in a deck without a host: what was on screen,   *)
(* or the copy, is on screen after it.                                     *)
THEOREM MovesAndCopiesKeepPlace ==
    ASSUME slides \in Seq(Slides), index \in DOMAIN slides, NEW i \in DOMAIN slides,
           \/ \E j \in DOMAIN slides :
                  EditHere("move", {i}, j, IndexAfterMove(index, i, j))
           \/ EditHere("duplicate", {i}, 0, i + 1)
    PROVE  PlaceIsKept'
<1>0. Len(slides) \in Nat /\ DOMAIN slides = 1..Len(slides)
    BY LenProperties
<1>1. ASSUME NEW j \in DOMAIN slides, EditHere("move", {i}, j, IndexAfterMove(index, i, j))
      PROVE  PlaceIsKept'
    <2>1. PICK copy, d : /\ d = Edited("move", {i}, j, copy)
                         /\ CollectSlides(d, IndexAfterMove(index, i, j))
                         /\ shown' = slides'[index']
                         /\ inPlace' = (shown' = Goal("move", {i}))
        BY <1>1 DEF EditHere, GoalOf
    <2>2. /\ Len(d) = Len(slides) /\ IndexAfterMove(index, i, j) \in DOMAIN slides
          /\ d[IndexAfterMove(index, i, j)] = slides[index]
        BY <2>1, MovesKeepPlace
    <2>3. slides' = d /\ index' = IndexAfterMove(index, i, j)
        BY <1>0, <2>1, <2>2, InDeckStays
    <2>4. Goal("move", {i}) = slides[index]
        BY GoalStays
    <2>5. QED
        BY <2>1, <2>2, <2>3, <2>4 DEF PlaceIsKept
<1>2. CASE EditHere("duplicate", {i}, 0, i + 1)
    <2>1. PICK copy \in Spare \ ToSet(slides) :
              \E d : /\ d = Edited("duplicate", {i}, 0, copy)
                     /\ CollectSlides(d, i + 1)
                     /\ shown' = slides'[index']
                     /\ inPlace' = (shown' = copy)
        BY <1>2 DEF EditHere, GoalOf, Copies
    <2>2. PICK d : /\ d = Edited("duplicate", {i}, 0, copy)
                   /\ CollectSlides(d, i + 1)
                   /\ shown' = slides'[index']
                   /\ inPlace' = (shown' = copy)
        BY <2>1
    <2>3. Len(d) = Len(slides) + 1 /\ d[i + 1] = copy
        BY <2>2, CopiesFollow DEF Slides
    <2>4. slides' = d /\ index' = i + 1
        <3>1. Len(d) \in Nat /\ i + 1 \in 1..Len(d)
            BY <1>0, <2>3
        <3>2. QED
            BY <2>2, <3>1, InDeckStays
    <2>5. QED
        BY <2>2, <2>3, <2>4 DEF PlaceIsKept
<1>3. QED
    BY <1>1, <1>2

-----------------------------------------------------------------------------
(* Deletions, in decks of any length.                                      *)

(* A function on positions is a sequence.                                  *)
LEMMA Listed ==
    ASSUME NEW S, NEW n \in Nat, NEW f \in [1..n -> S]
    PROVE  f \in Seq(S) /\ Len(f) = n /\ DOMAIN f = 1..n
OBVIOUS

(* What stays of the deck: each slide kept, at its rank.                   *)
Ranked(deck, kept) ==
    /\ Cardinality(kept) \in Nat
    /\ Len(deck) = Cardinality(kept)
    /\ \A i \in kept : /\ Rank(kept, i) \in 1..Cardinality(kept)
                       /\ deck[Rank(kept, i)] = slides[i]
    /\ \A k \in 1..Cardinality(kept) :
           \E i \in kept : Rank(kept, i) = k /\ deck[k] = slides[i]

(* Without, by index.                                                      *)
LEMMA WithoutRank ==
    ASSUME NEW S, slides \in Seq(S), NEW list, NEW kept, kept = DOMAIN slides \ list
    PROVE  Without(list) \in Seq(S) /\ Ranked(Without(list), kept)
<1>1. PICK n \in Nat : n = Len(slides) /\ DOMAIN slides = 1..n
    BY LenProperties
<1>2. kept \in SUBSET (1..n)
    BY <1>1
<1>3. PICK m \in Nat : m = Cardinality(kept)
    BY <1>2, PositionsFinite
<1>4. \A i \in kept : Rank(kept, i) \in 1..m
    BY <1>2, <1>3, RankType
<1>5. \A k \in 1..m : \E i \in kept : Rank(kept, i) = k
                                      /\ \A j \in kept : Rank(kept, j) = k => j = i
    BY <1>2, <1>3, RankIsOnto
<1>6. PICK d : d = Without(list)
    OBVIOUS
<1> DEFINE At(k) == CHOOSE i \in kept : Cardinality({j \in kept : j < i}) = k - 1
<1>7. d = [k \in 1..m |-> slides[At(k)]]
    BY <1>3, <1>6 DEF Without
<1>8. ASSUME NEW k \in 1..m, NEW i \in kept, Rank(kept, i) = k PROVE At(k) = i
    <2>1. \A j \in kept : Cardinality({x \in kept : x < j}) = k - 1 <=> Rank(kept, j) = k
        <3>1. ASSUME NEW j \in kept
              PROVE  Cardinality({x \in kept : x < j}) = k - 1 <=> Rank(kept, j) = k
            <4>1. Lower(kept, j) = Cardinality({x \in kept : x < j})
                BY DEF Lower
            <4>2. Lower(kept, j) \in Nat
                <5>1. PICK low \in SUBSET (1..n) : low = {x \in kept : x < j}
                    BY <1>2
                <5>2. QED
                    BY <4>1, <5>1, PositionsFinite
            <4>3. QED
                BY <4>1, <4>2 DEF Rank
        <3>2. QED
            BY <3>1
    <2>2. \A j \in kept : Rank(kept, j) = k => j = i
        BY <1>5, <1>8
    <2>3. QED
        BY <1>8, <2>1, <2>2
<1> HIDE DEF At
<1>9. \A k \in 1..m : d[k] = slides[At(k)]
    BY <1>7
<1>10. \A i \in kept : Rank(kept, i) \in 1..m /\ d[Rank(kept, i)] = slides[i]
    BY <1>4, <1>8, <1>9
<1>11. \A k \in 1..m : \E i \in kept : Rank(kept, i) = k /\ d[k] = slides[i]
    BY <1>5, <1>10
<1>12. d \in [1..m -> S]
    <2>1. \A k \in 1..m : d[k] \in S
        BY <1>1, <1>11
    <2>2. QED
        BY <1>7, <2>1
<1>13. d \in Seq(S) /\ Len(d) = m
    BY <1>12, Listed
<1>14. QED
    <2>1. Ranked(d, kept)
        BY <1>3, <1>10, <1>11, <1>13 DEF Ranked
    <2>2. QED
        BY <1>6, <1>13, <2>1

(* What the code asks for is what the survivor is: the slide that was on   *)
(* screen, else the next, else the last that stays.                        *)
LEMMA GoalSurvives ==
    ASSUME NEW S, slides \in Seq(S), index \in DOMAIN slides,
           NEW list \in SUBSET DOMAIN slides, list # DOMAIN slides
    PROVE  /\ Survivor(index, Len(slides), list) \in DOMAIN slides \ list
           /\ Goal("remove", list) = slides[Survivor(index, Len(slides), list)]
<1>1. PICK n \in Nat : n = Len(slides) /\ DOMAIN slides = 1..n
    BY LenProperties
<1>2. PICK kept, after : kept = (1..n) \ list /\ after = {k \in kept : k >= index}
    OBVIOUS
<1>3. Survivor(index, n, list) \in kept
    BY <1>1, <1>2, SurvivorStays
<1>4. Survivor(index, n, list) = IF after # {} THEN Min(after) ELSE Max(kept)
    BY <1>2 DEF Survivor
<1>5. kept # {}
    BY <1>3
<1>6. Goal("remove", list) = SlideAt(IF after # {} THEN Min(after)
                                     ELSE IF kept # {} THEN Max(kept) ELSE 0)
    BY <1>1, <1>2 DEF Goal
<1>7. Goal("remove", list) = SlideAt(Survivor(index, n, list))
    BY <1>4, <1>5, <1>6
<1>8. QED
    BY <1>1, <1>2, <1>3, <1>7 DEF SlideAt

(* The index of the current slide after a deletion.                        *)
RemovalIndex(list) ==
    IF Cardinality(list) = 1 THEN IndexAfterRemove(index, Len(slides), Pick(list))
    ELSE IndexAfterRemoveMany(index, Len(slides), list)

(* The computed index is the rank of the slide to be shown.                *)
LEMMA RemovalIndexIsRank ==
    ASSUME NEW S, slides \in Seq(S), index \in DOMAIN slides,
           NEW list \in SUBSET DOMAIN slides, list # {}, list # DOMAIN slides
    PROVE  RemovalIndex(list)
               = Rank(DOMAIN slides \ list, Survivor(index, Len(slides), list))
<1>1. PICK n \in Nat : n = Len(slides) /\ DOMAIN slides = 1..n
    BY LenProperties
<1>2. CASE Cardinality(list) = 1
    <2>1. IsFiniteSet(list)
        BY <1>1, PositionsFinite
    <2>2. PICK i : list = {i}
        BY <1>2, <2>1, FS_Singleton
    <2>3. Pick(list) = i /\ i \in 1..n
        BY <1>1, <2>2 DEF Pick
    <2>4. n # 1
        BY <1>1, <2>2, <2>3
    <2>5. IndexAfterRemove(index, n, i) = Rank((1..n) \ {i}, Survivor(index, n, {i}))
        BY <1>1, <2>3, <2>4, RemoveIndex
    <2>6. QED
        BY <1>1, <1>2, <2>2, <2>3, <2>5 DEF RemovalIndex
<1>3. CASE Cardinality(list) # 1
    BY <1>1, <1>3, RemoveManyIndex DEF RemovalIndex
<1>4. QED
    BY <1>2, <1>3

(* _deleteSlides, _deleteSlide: after a deletion of any of the slides, but *)
(* not of all of them, the slide on screen, or else its neighbour, is at   *)
(* the index computed for it.                                              *)
THEOREM DeletionsKeepPlace ==
    ASSUME NEW S, slides \in Seq(S), index \in DOMAIN slides,
           NEW list \in SUBSET DOMAIN slides, list # {}, list # DOMAIN slides, NEW copy
    PROVE  /\ RemovalIndex(list) \in DOMAIN Edited("remove", list, 0, copy)
           /\ Edited("remove", list, 0, copy)[RemovalIndex(list)] = Goal("remove", list)
<1>1. PICK kept : kept = DOMAIN slides \ list
    OBVIOUS
<1>2. PICK s : s = Survivor(index, Len(slides), list)
    OBVIOUS
<1>3. s \in kept /\ Goal("remove", list) = slides[s]
    BY <1>1, <1>2, GoalSurvives
<1>4. PICK d : d = Without(list)
    OBVIOUS
<1>5. d = Edited("remove", list, 0, copy)
    BY <1>4 DEF Edited
<1>6. /\ d \in Seq(S) /\ Len(d) = Cardinality(kept)
      /\ Rank(kept, s) \in 1..Cardinality(kept) /\ d[Rank(kept, s)] = slides[s]
    <2>1. d \in Seq(S) /\ Ranked(d, kept)
        BY <1>1, <1>4, WithoutRank
    <2>2. QED
        BY <1>3, <2>1 DEF Ranked
<1>7. RemovalIndex(list) = Rank(kept, s)
    BY <1>1, <1>2, RemovalIndexIsRank
<1>8. QED
    BY <1>3, <1>5, <1>6, <1>7, LenProperties

-----------------------------------------------------------------------------
(* The decks that edits make: no slide is lost or shown twice.             *)

GoodDeck(deck) == deck \in Seq(Slides) /\ deck # <<>> /\ IsInjective(deck)

(* There are finitely many slides.                                         *)
LEMMA SlidesFinite == IsFiniteSet(Slides) /\ Cardinality(Slides) \in Nat
<1>1. PICK n \in Nat : n = Len(Deck) /\ DOMAIN Deck = 1..n
    BY DeckConstants, LenProperties
<1>2. Deck \in Surjection(1..n, ToSet(Deck))
    BY <1>1, DeckConstants DEF Surjection, ToSet
<1>3. IsFiniteSet(ToSet(Deck))
    BY <1>2, FS_Interval, FS_Surjection
<1>4. IsFiniteSet(Slides)
    BY <1>3, DeckConstants, FS_Union DEF Slides
<1>5. QED
    BY <1>4, FS_CardinalityType

(* A deck shows no slide twice, so it is no longer than there are slides.  *)
LEMMA DeckLength ==
    ASSUME NEW deck, GoodDeck(deck)
    PROVE  /\ Len(deck) \in Nat /\ Len(deck) >= 1 /\ Len(deck) <= Cardinality(Slides)
           /\ DOMAIN deck = 1..Len(deck) /\ Cardinality(Slides) \in Nat
           /\ \A i \in 1..Len(deck) : deck[i] \in Slides
<1>1. PICK n \in Nat : n = Len(deck) /\ DOMAIN deck = 1..n /\ deck \in [1..n -> Slides]
    BY LenProperties DEF GoodDeck
<1>2. n # 0
    BY <1>1, EmptySeq DEF GoodDeck
<1>3. deck \in Injection(1..n, Slides)
    BY <1>1 DEF GoodDeck, Injection
<1>4. Cardinality(1..n) <= Cardinality(Slides)
    BY <1>3, SlidesFinite, FS_Injection
<1>5. Cardinality(1..n) = n
    BY FS_Interval
<1>6. QED
    BY <1>1, <1>2, <1>4, <1>5, SlidesFinite

(* A deck without one of its slides no longer shows it.                    *)
LEMMA RemovedGood ==
    ASSUME NEW deck, GoodDeck(deck), NEW i \in DOMAIN deck, NEW r, r = RemoveAt(deck, i)
    PROVE  /\ r \in Seq(Slides) /\ Len(r) = Len(deck) - 1 /\ IsInjective(r)
           /\ ToSet(r) \subseteq Slides /\ deck[i] \notin ToSet(r)
<1>1. PICK n \in Nat : /\ n = Len(deck) /\ DOMAIN deck = 1..n /\ n >= 1
    BY DeckLength
<1>2. /\ r \in Seq(Slides) /\ Len(r) = n - 1
      /\ \A k \in 1..(n - 1) : r[k] = IF k < i THEN deck[k] ELSE deck[k + 1]
    BY <1>1, RemoveOne DEF GoodDeck
<1>3. DOMAIN r = 1..(n - 1) /\ \A k \in DOMAIN r : r[k] \in Slides
    BY <1>2, LenProperties
<1>4. \A k, m \in 1..n : deck[k] = deck[m] => k = m
    BY <1>1 DEF GoodDeck, IsInjective
<1>5. \A k \in 1..(n - 1) : \E p \in 1..n :
          r[k] = deck[p] /\ p # i /\ p = IF k < i THEN k ELSE k + 1
    <2>1. ASSUME NEW k \in 1..(n - 1)
          PROVE  \E p \in 1..n : r[k] = deck[p] /\ p # i /\ p = IF k < i THEN k ELSE k + 1
        <3>1. CASE k < i
            <4>1. k \in 1..n /\ k # i
                BY <1>1, <3>1
            <4>2. QED
                BY <1>2, <3>1, <4>1
        <3>2. CASE ~(k < i)
            <4>1. k + 1 \in 1..n /\ k + 1 # i
                BY <1>1, <3>2
            <4>2. QED
                BY <1>2, <3>2, <4>1
        <3>3. QED
            BY <3>1, <3>2
    <2>2. QED
        BY <2>1
<1>6. ASSUME NEW k \in 1..(n - 1), NEW m \in 1..(n - 1), r[k] = r[m] PROVE k = m
    <2>1. PICK p \in 1..n : r[k] = deck[p] /\ p = IF k < i THEN k ELSE k + 1
        BY <1>5
    <2>2. PICK q \in 1..n : r[m] = deck[q] /\ q = IF m < i THEN m ELSE m + 1
        BY <1>5
    <2>3. p = q
        BY <1>4, <1>6, <2>1, <2>2
    <2>4. k \in Nat /\ m \in Nat /\ i \in Nat
        BY <1>1
    <2>5. QED
        BY <2>1, <2>2, <2>3, <2>4
<1>7. deck[i] \notin ToSet(r)
    <2>1. ASSUME NEW k \in 1..(n - 1) PROVE r[k] # deck[i]
        BY <1>1, <1>4, <1>5
    <2>2. QED
        BY <1>3, <2>1 DEF ToSet
<1>8. QED
    BY <1>1, <1>2, <1>3, <1>6, <1>7 DEF IsInjective, ToSet

(* A deck with a slide it did not show.                                    *)
LEMMA InsertedGood ==
    ASSUME NEW s \in Seq(Slides), IsInjective(s), NEW j \in 1..Len(s) + 1,
           NEW e \in Slides, e \notin ToSet(s), NEW d, d = InsertAt(s, j, e)
    PROVE  GoodDeck(d) /\ Len(d) = Len(s) + 1
<1>1. PICK n \in Nat : n = Len(s) /\ DOMAIN s = 1..n
    BY LenProperties
<1>2. /\ d \in Seq(Slides) /\ Len(d) = n + 1
      /\ \A k \in 1..(n + 1) : d[k] = IF k < j THEN s[k] ELSE IF k = j THEN e ELSE s[k - 1]
    <2>1. Inserted(Slides, s, j, e)
        BY InsertOne
    <2>2. QED
        BY <1>1, <2>1 DEF Inserted
<1>3. DOMAIN d = 1..(n + 1) /\ d # <<>>
    BY <1>2, LenProperties, EmptySeq
<1>4. \A k, m \in 1..n : s[k] = s[m] => k = m
    BY <1>1 DEF IsInjective
<1>5. \A k \in 1..n : s[k] # e
    BY <1>1 DEF ToSet
<1>6. j \in 1..(n + 1) /\ j \in Nat
    BY <1>1
<1>7. ASSUME NEW k \in 1..(n + 1), k # j
      PROVE  \E p \in 1..n : d[k] = s[p] /\ p = IF k < j THEN k ELSE k - 1
    <2>1. CASE k < j
        <3>1. k \in 1..n
            BY <1>6, <2>1
        <3>2. QED
            BY <1>2, <2>1, <3>1
    <2>2. CASE ~(k < j)
        <3>1. k - 1 \in 1..n
            BY <1>6, <1>7, <2>2
        <3>2. QED
            BY <1>2, <1>7, <2>2, <3>1
    <2>3. QED
        BY <2>1, <2>2
<1>8. d[j] = e
    BY <1>2, <1>6
<1>9. ASSUME NEW k \in 1..(n + 1), NEW m \in 1..(n + 1), d[k] = d[m] PROVE k = m
    <2>1. CASE k # j /\ m # j
        <3>1. PICK p \in 1..n : d[k] = s[p] /\ p = IF k < j THEN k ELSE k - 1
            BY <1>7, <2>1
        <3>2. PICK q \in 1..n : d[m] = s[q] /\ q = IF m < j THEN m ELSE m - 1
            BY <1>7, <2>1
        <3>3. p = q
            BY <1>4, <1>9, <3>1, <3>2
        <3>4. k \in Nat /\ m \in Nat
            OBVIOUS
        <3>5. QED
            BY <1>6, <2>1, <3>1, <3>2, <3>3, <3>4
    <2>2. CASE k = j
        BY <1>5, <1>7, <1>8, <1>9, <2>2
    <2>3. CASE m = j
        BY <1>5, <1>7, <1>8, <1>9, <2>3
    <2>4. QED
        BY <2>1, <2>2, <2>3
<1>10. QED
    BY <1>1, <1>2, <1>3, <1>9 DEF GoodDeck, IsInjective

(* A deck after a deletion of some, but not all, of its slides.            *)
LEMMA WithoutGood ==
    ASSUME GoodDeck(slides), NEW list \in SUBSET DOMAIN slides, list # DOMAIN slides
    PROVE  GoodDeck(Without(list))
<1>1. PICK n \in Nat : n = Len(slides) /\ DOMAIN slides = 1..n
    BY DeckLength
<1>2. PICK kept, d : kept = DOMAIN slides \ list /\ d = Without(list)
    OBVIOUS
<1>3. d \in Seq(Slides) /\ Ranked(d, kept)
    BY <1>2, WithoutRank DEF GoodDeck
<1>4. PICK m \in Nat : m = Cardinality(kept) /\ m = Len(d) /\ DOMAIN d = 1..m
    BY <1>3, LenProperties DEF Ranked
<1>5. \A k \in 1..m : \E i \in kept : Rank(kept, i) = k /\ d[k] = slides[i]
    BY <1>3, <1>4 DEF Ranked
<1>6. \A k, p \in 1..m : d[k] = d[p] => k = p
    <2>1. \A i, j \in kept : slides[i] = slides[j] => i = j
        BY <1>2 DEF GoodDeck, IsInjective
    <2>2. QED
        BY <1>5, <2>1
<1>7. m # 0
    <2>1. PICK i \in kept : TRUE
        BY <1>2
    <2>2. Rank(kept, i) \in 1..m
        BY <1>3, <1>4 DEF Ranked
    <2>3. QED
        BY <2>2
<1>8. d # <<>>
    BY <1>4, <1>7, EmptySeq
<1>9. QED
    BY <1>2, <1>3, <1>4, <1>6, <1>8 DEF GoodDeck, IsInjective

(* What the handlers and the host take for an edit they can make.          *)
Sound(name, list, to) ==
    /\ list \subseteq DOMAIN slides /\ list # {}
    /\ \/ name = "remove" /\ list # DOMAIN slides
       \/ name = "move" /\ to \in DOMAIN slides /\ \E i \in DOMAIN slides : list = {i}
       \/ name = "duplicate" /\ \E i \in DOMAIN slides : list = {i}
       \/ name = "toggleSkip"

(* A deck after any sound edit.                                            *)
LEMMA EditedGood ==
    ASSUME GoodDeck(slides), NEW name, NEW list, NEW to, Sound(name, list, to),
           NEW copy \in Copies(name)
    PROVE  /\ GoodDeck(Edited(name, list, to, copy))
           /\ name = "move" => Len(Edited(name, list, to, copy)) = Len(slides)
           /\ name = "duplicate" => Len(Edited(name, list, to, copy)) = Len(slides) + 1
<1>1. PICK n \in Nat : /\ n = Len(slides) /\ DOMAIN slides = 1..n /\ n >= 1
                       /\ \A i \in 1..n : slides[i] \in Slides
    BY DeckLength
<1>2. CASE name = "remove"
    <2>1. Edited(name, list, to, copy) = Without(list)
        BY <1>2 DEF Edited
    <2>2. QED
        BY <1>2, <2>1, WithoutGood DEF Sound
<1>3. CASE name = "move"
    <2>1. PICK i \in 1..n : list = {i} /\ to \in 1..n
        BY <1>1, <1>3 DEF Sound
    <2>2. PICK r, d : r = RemoveAt(slides, i) /\ d = InsertAt(r, to, slides[i])
        OBVIOUS
    <2>3. Edited(name, list, to, copy) = d
        <3>1. Pick(list) = i
            BY <2>1 DEF Pick
        <3>2. QED
            BY <1>3, <2>2, <3>1 DEF Edited
    <2>4. /\ r \in Seq(Slides) /\ Len(r) = n - 1 /\ IsInjective(r)
          /\ slides[i] \notin ToSet(r)
        BY <1>1, <2>2, RemovedGood
    <2>5. slides[i] \in Slides /\ to \in 1..Len(r) + 1
        BY <1>1, <2>1, <2>4
    <2>6. GoodDeck(d) /\ Len(d) = n
        BY <2>2, <2>4, <2>5, InsertedGood
    <2>7. QED
        BY <1>1, <1>3, <2>3, <2>6
<1>4. CASE name = "duplicate"
    <2>1. PICK i \in 1..n : list = {i}
        BY <1>1, <1>4 DEF Sound
    <2>2. PICK d : d = InsertAt(slides, i + 1, copy)
        OBVIOUS
    <2>3. Edited(name, list, to, copy) = d
        <3>1. Pick(list) = i
            BY <2>1 DEF Pick
        <3>2. QED
            BY <1>4, <2>2, <3>1 DEF Edited
    <2>4. copy \in Slides /\ copy \notin ToSet(slides)
        BY <1>4 DEF Copies, Slides
    <2>5. i + 1 \in 1..Len(slides) + 1
        BY <1>1
    <2>6. GoodDeck(d) /\ Len(d) = n + 1
        BY <1>1, <2>2, <2>4, <2>5, InsertedGood DEF GoodDeck
    <2>7. QED
        BY <1>1, <1>4, <2>3, <2>6
<1>5. CASE name = "toggleSkip"
    BY <1>5 DEF Edited
<1>6. QED
    BY <1>2, <1>3, <1>4, <1>5 DEF Sound

-----------------------------------------------------------------------------
(* An edit as the handlers ask for it: of slides of the deck, not all of   *)
(* them deleted, with the index that is right for it.  A dragged slide is  *)
(* known by its place, which in a hosted deck may be gone.                 *)
Meant(name, list, to, ni) ==
    /\ list \subseteq DOMAIN slides
    /\ ~hosted => list # {}
    /\ \/ /\ name = "remove" /\ list # {} /\ Cardinality(list) < Len(slides)
          /\ to = 0 /\ ni = RemovalIndex(list)
       \/ /\ name = "move" /\ to \in DOMAIN slides
          /\ \E i \in 1..Cardinality(Slides) :
                 list = {i} \intersect DOMAIN slides /\ ni = IndexAfterMove(index, i, to)
       \/ /\ name = "duplicate" /\ to = 0
          /\ \E i \in DOMAIN slides : list = {i} /\ ni = i + 1
       \/ /\ name = "toggleSkip" /\ to = 0 /\ list # {} /\ ni = index

(* The guard of a deletion.                                                *)
LEMMA NotAll ==
    ASSUME GoodDeck(slides), NEW list, Cardinality(list) < Len(slides)
    PROVE  list # DOMAIN slides
<1>1. PICK n \in Nat : n = Len(slides) /\ DOMAIN slides = 1..n
    BY DeckLength
<1>2. Cardinality(1..n) = n
    BY FS_Interval
<1>3. QED
    BY <1>1, <1>2

(* What the handlers ask for is sound, if its slide is still there.        *)
LEMMA MeantIsSound ==
    ASSUME GoodDeck(slides), NEW name, NEW list, NEW to, NEW ni,
           Meant(name, list, to, ni), list # {}
    PROVE  Sound(name, list, to)
<1>1. CASE name = "move"
    <2>1. PICK i \in 1..Cardinality(Slides) : list = {i} \intersect DOMAIN slides
        BY <1>1 DEF Meant
    <2>2. i \in DOMAIN slides /\ list = {i}
        BY <2>1
    <2>3. QED
        BY <1>1, <2>2 DEF Meant, Sound
<1>2. CASE name # "move"
    BY <1>2, NotAll DEF Meant, Sound
<1>3. QED
    BY <1>1, <1>2

(* The index of an edit is one a deck of these slides may have, even if it *)
(* was computed from one that this deck has not.                           *)
LEMMA RemovalIndexBound ==
    ASSUME GoodDeck(slides), index \in 1..Cardinality(Slides) + 1,
           NEW list \in SUBSET DOMAIN slides, list # {}, Cardinality(list) < Len(slides)
    PROVE  RemovalIndex(list) \in 1..Cardinality(Slides) + 1
<1>1. PICK n \in Nat : /\ n = Len(slides) /\ DOMAIN slides = 1..n
                       /\ n <= Cardinality(Slides) /\ Cardinality(Slides) \in Nat
    BY DeckLength
<1>2. CASE index \in DOMAIN slides
    <2>1. list # DOMAIN slides
        BY NotAll
    <2>2. PICK kept, s : kept = DOMAIN slides \ list /\ s = Survivor(index, n, list)
        OBVIOUS
    <2>3. s \in kept
        BY <1>1, <1>2, <2>1, <2>2, GoalSurvives DEF GoodDeck
    <2>4. kept \in SUBSET (1..n)
        BY <1>1, <2>2
    <2>5. Rank(kept, s) \in 1..Cardinality(kept)
        BY <2>3, <2>4, RankType
    <2>6. Cardinality(kept) \in Nat /\ Cardinality(kept) <= n
        BY <2>4, PositionsFinite
    <2>7. RemovalIndex(list) = Rank(kept, s)
        BY <1>1, <1>2, <2>1, <2>2, RemovalIndexIsRank DEF GoodDeck
    <2>8. QED
        BY <1>1, <2>5, <2>6, <2>7
<1>3. CASE index \notin DOMAIN slides
    <2>1. index > n /\ index \in Nat /\ index \notin list
        BY <1>1, <1>3
    <2>2. CASE Cardinality(list) = 1
        <3>1. IsFiniteSet(list)
            BY <1>1, PositionsFinite
        <3>2. PICK i : list = {i}
            BY <2>2, <3>1, FS_Singleton
        <3>3. Pick(list) = i /\ i \in 1..n
            BY <1>1, <3>2 DEF Pick
        <3>4. IndexAfterRemove(index, n, i) = index - 1
            BY <2>1, <3>3 DEF IndexAfterRemove
        <3>5. QED
            BY <1>1, <2>1, <2>2, <3>3, <3>4 DEF RemovalIndex
    <2>3. CASE Cardinality(list) # 1
        <3>1. PICK low : low = {x \in list : x < index}
            OBVIOUS
        <3>2. low = list
            BY <1>1, <2>1, <3>1
        <3>3. IndexAfterRemoveMany(index, n, list) = index - Cardinality(list)
            BY <2>1, <3>1, <3>2 DEF IndexAfterRemoveMany
        <3>4. Cardinality(list) \in Nat
            BY <1>1, PositionsFinite
        <3>5. QED
            BY <1>1, <2>1, <2>3, <3>3, <3>4 DEF RemovalIndex
    <2>4. QED
        BY <2>2, <2>3
<1>4. QED
    BY <1>2, <1>3

(* The same of the index of every edit.                                    *)
LEMMA MeantIndex ==
    ASSUME GoodDeck(slides), index \in 1..Cardinality(Slides) + 1,
           NEW name, NEW list, NEW to, NEW ni, Meant(name, list, to, ni)
    PROVE  ni \in 1..Cardinality(Slides) + 1
<1>1. PICK n, m \in Nat : /\ n = Len(slides) /\ DOMAIN slides = 1..n
                          /\ n <= m /\ m = Cardinality(Slides)
    BY DeckLength
<1>2. CASE name = "remove"
    BY <1>2, RemovalIndexBound DEF Meant
<1>3. CASE name = "move"
    <2>1. PICK i \in 1..m : ni = IndexAfterMove(index, i, to) /\ to \in 1..n
        BY <1>1, <1>3 DEF Meant
    <2>2. index \in Nat /\ 1 <= index /\ index <= m + 1
        BY <1>1
    <2>3. QED
        BY <1>1, <2>1, <2>2 DEF IndexAfterMove
<1>4. CASE name = "duplicate"
    BY <1>1, <1>4 DEF Meant
<1>5. CASE name = "toggleSkip"
    BY <1>5 DEF Meant
<1>6. QED
    BY <1>2, <1>3, <1>4, <1>5 DEF Meant

(* ... and if it was, the slide to be on screen is at that index.          *)
LEMMA MeantArrives ==
    ASSUME GoodDeck(slides), index \in DOMAIN slides,
           NEW name, NEW list, NEW to, NEW ni, Meant(name, list, to, ni),
           list # {}, name # "toggleSkip", NEW copy \in Copies(name)
    PROVE  /\ ni \in DOMAIN Edited(name, list, to, copy)
           /\ Edited(name, list, to, copy)[ni] = GoalOf(name, Goal(name, list), copy)
<1>0. PICK n \in Nat : n = Len(slides) /\ DOMAIN slides = 1..n
    BY DeckLength
<1>1. CASE name = "remove"
    <2>1. list # DOMAIN slides
        BY <1>1, NotAll DEF Meant
    <2>2. QED
        BY <1>1, <2>1, DeletionsKeepPlace DEF Meant, GoalOf, GoodDeck
<1>2. CASE name = "move"
    <2>1. PICK i \in 1..Cardinality(Slides) :
              list = {i} \intersect DOMAIN slides /\ ni = IndexAfterMove(index, i, to)
        BY <1>2 DEF Meant
    <2>2. i \in DOMAIN slides /\ list = {i} /\ to \in DOMAIN slides
        BY <1>2, <2>1 DEF Meant
    <2>3. PICK d : d = Edited("move", {i}, to, copy)
        OBVIOUS
    <2>4. /\ d \in Seq(Slides) /\ Len(d) = Len(slides)
          /\ ni \in DOMAIN slides /\ d[ni] = slides[index]
        BY <2>1, <2>2, <2>3, MovesKeepPlace DEF GoodDeck
    <2>5. Goal("move", list) = slides[index]
        BY GoalStays DEF GoodDeck
    <2>6. DOMAIN d = DOMAIN slides
        BY <1>0, <2>4, LenProperties
    <2>7. QED
        BY <1>2, <2>2, <2>3, <2>4, <2>5, <2>6 DEF GoalOf
<1>3. CASE name = "duplicate"
    <2>1. PICK i \in DOMAIN slides : list = {i} /\ ni = i + 1 /\ to = 0
        BY <1>3 DEF Meant
    <2>2. copy \in Slides
        BY <1>3 DEF Copies, Slides
    <2>3. PICK d : d = Edited("duplicate", {i}, 0, copy)
        OBVIOUS
    <2>4. d \in Seq(Slides) /\ Len(d) = Len(slides) + 1 /\ d[i + 1] = copy
        BY <2>2, <2>3, CopiesFollow DEF GoodDeck
    <2>5. i + 1 \in DOMAIN d
        <3>1. DOMAIN d = 1..(n + 1)
            BY <1>0, <2>4, LenProperties
        <3>2. QED
            BY <1>0, <3>1
    <2>6. QED
        BY <1>3, <2>1, <2>3, <2>4, <2>5 DEF GoalOf
<1>4. QED
    BY <1>1, <1>2, <1>3 DEF Meant

-----------------------------------------------------------------------------
(* An operator of the deck has the same value while the deck is the same.  *)
LEMMA SameWithout ==
    ASSUME NEW list, slides' = slides
    PROVE  Without(list)' = Without(list)
<1> DEFINE W(deck) ==
        LET kept == DOMAIN deck \ list
        IN [k \in 1..Cardinality(kept) |->
                deck[CHOOSE i \in kept : Cardinality({j \in kept : j < i}) = k - 1]]
<1>1. Without(list) = W(slides)
    BY DEF Without
<1>2. Without(list)' = W(slides')
    BY DEF Without
<1> HIDE DEF W
<1>3. QED
    BY <1>1, <1>2

(* The same of what an edit would make of it.                              *)
LEMMA SameEdits ==
    ASSUME NEW name, NEW list, NEW to, NEW copy, slides' = slides
    PROVE  /\ Edited(name, list, to, copy)' = Edited(name, list, to, copy)
           /\ Copies(name)' = Copies(name)
<1>1. Without(list)' = Without(list)
    BY SameWithout
<1>2. QED
    BY <1>1 DEF Edited, Copies

-----------------------------------------------------------------------------
(* The inductive invariant.                                                *)

(* In a page without a host the deck and what refers to it by index are    *)
(* never out of step, and nothing is waited for.                           *)
WithoutHost ==
    ~hosted => /\ index \in DOMAIN slides /\ dragFrom \in 0..Len(slides)
               /\ ops = <<>> /\ acks = <<>> /\ before = 0 /\ ~railLock

MenuInDeck == menu = NoMenu \/ menu.at \in DOMAIN slides

Names == {"remove", "move", "duplicate", "toggleSkip"}

Ack == [applied : BOOLEAN, op : Names, watch : Watch]

AcksTyped == acks \in Seq(Ack)

(* _collectSlides: the index of the last slide if there are fewer.         *)
Clamp(i, n) == IF i > n THEN n ELSE i

(* Were the host to make this edit now, the slide to be on screen would be *)
(* at the index that was computed when it was sent.                        *)
Arrives(op) ==
    \A copy \in Copies(op.op) :
        LET deck == Edited(op.op, op.at, op.to, copy)
        IN deck[Clamp(op.watch.index, Len(deck))] = GoalOf(op.op, op.watch.goal, copy)

(* Were it to refuse it now, the slide that was on screen would be at the  *)
(* index that is taken back.                                               *)
Returns(watch) ==
    SlideAt(IF before # 0 THEN before ELSE watch.index) = watch.from

(* An edit that was sent when nothing else was to be answered, and since   *)
(* which nobody has edited.  Until the host acknowledges it, it may refuse *)
(* it, and nothing else can have touched _indexBeforeEmit.                 *)
Current(watch) == watch.from # NoSlide /\ watch.edit = edits

SoundOp(op) ==
    /\ op.op \in {"move", "duplicate"} => \A i, j \in op.at : i = j
    /\ op.op = "move" => op.to \in 1..op.witness
    /\ op.op = "remove" => Cardinality(op.at) < op.witness
    /\ ~Locking(op.op) => op.watch = NoWatch
    /\ op.watch.edit <= edits

OpDue(op) ==
    /\ SoundOp(op)
    /\ Current(op.watch) => /\ Len(ops) = 1
                            /\ op.at # {} => Arrives(op)
                            /\ ~early => acks = <<>> /\ Returns(op.watch)

AckDue(ack) ==
    /\ ack.watch.edit <= edits
    /\ Current(ack.watch) => ops = <<>> /\ Len(acks) = 1 /\ Returns(ack.watch)

OpsArrive == \A n \in DOMAIN ops : OpDue(ops[n])

AcksReturn == \A n \in DOMAIN acks : AckDue(acks[n])

Inv == /\ TypeOK /\ Fresh /\ WithoutHost /\ MenuInDeck /\ AcksTyped
       /\ OpsArrive /\ AcksReturn /\ LockIsOwed /\ PlaceIsKept

-----------------------------------------------------------------------------

(* The deck of a typed state.                                              *)
LEMMA TypedDeck ==
    ASSUME TypeOK
    PROVE  /\ GoodDeck(slides)
           /\ Len(slides) \in Nat /\ Len(slides) >= 1 /\ Len(slides) <= Cardinality(Slides)
           /\ DOMAIN slides = 1..Len(slides) /\ Cardinality(Slides) \in Nat
           /\ \A i \in DOMAIN slides : slides[i] \in Slides
           /\ ToSet(slides) \subseteq Slides
<1>1. GoodDeck(slides)
    BY DEF TypeOK, GoodDeck
<1>2. QED
    BY <1>1, DeckLength DEF ToSet

(* NoSlide is no slide.                                                    *)
LEMMA NoSlideIsNone == NoSlide \notin Slides
BY DeckConstants DEF Slides

(* What is at an index, or at several.                                     *)
LEMMA SlideAtType ==
    ASSUME TypeOK
    PROVE  /\ \A i : SlideAt(i) \in Slides \union {NoSlide}
           /\ \A i : SlideAt(i) # NoSlide => i \in DOMAIN slides
           /\ \A name, list : Goal(name, list) \in Slides \union {NoSlide}
           /\ \A list : SlidesAt(list) \subseteq Slides
<1>1. \A i : SlideAt(i) \in Slides \union {NoSlide}
    BY TypedDeck DEF SlideAt
<1>2. \A i : SlideAt(i) # NoSlide => i \in DOMAIN slides
    BY DEF SlideAt
<1>3. \A name, list : \E i : Goal(name, list) = SlideAt(i)
    BY DEF Goal
<1>4. \A list : SlidesAt(list) \subseteq Slides
    BY TypedDeck DEF SlidesAt
<1>5. QED
    BY <1>1, <1>2, <1>3, <1>4

(* The history of an edit that is not watched.                             *)
LEMMA NoWatchType == NoWatch \in Watch /\ NoWatch.from = NoSlide /\ NoWatch.edit = 0
BY DeckConstants DEF NoWatch, Watch

(* At first nothing is under way.                                          *)
LEMMA InvInit == Init => Inv
<1> SUFFICES ASSUME Init PROVE Inv
    OBVIOUS
<1>1. /\ slides = Deck /\ index \in DOMAIN Deck /\ shown = Deck[index]
      /\ hosted \in BOOLEAN /\ skipped = {} /\ selected = {} /\ menu = NoMenu
      /\ confirm = {} /\ dragFrom = 0 /\ railLock = FALSE /\ before = 0
      /\ ops = <<>> /\ early = FALSE /\ acks = <<>> /\ unheard = FALSE /\ edits = 0
      /\ inPlace = TRUE
    BY DEF Init
<1>2. GoodDeck(slides)
    <2>1. Deck \in Seq(Slides)
        BY DeckConstants, SeqMonotonic DEF Slides
    <2>2. QED
        BY <1>1, <2>1, DeckConstants DEF GoodDeck
<1>3. /\ Len(slides) \in Nat /\ Len(slides) <= Cardinality(Slides)
      /\ DOMAIN slides = 1..Len(slides) /\ Cardinality(Slides) \in Nat
      /\ \A i \in 1..Len(slides) : slides[i] \in Slides
    BY <1>2, DeckLength
<1>4. TypeOK
    <2>1. menu.at = 0
        BY <1>1 DEF NoMenu
    <2>2. ops \in Seq(Op)
        BY <1>1, EmptySeq
    <2>3. edits \in 0..MaxEdits
        BY <1>1, DeckConstants
    <2>4. index \in 1..Cardinality(Slides) + 1 /\ shown \in Slides
        BY <1>1, <1>3
    <2>5. /\ menu.at \in 0..Len(slides) /\ dragFrom \in 0..Cardinality(Slides)
          /\ before \in 0..Cardinality(Slides) + 1
        BY <1>1, <1>3, <2>1
    <2>6. /\ hosted \in BOOLEAN /\ railLock \in BOOLEAN
          /\ early \in BOOLEAN /\ unheard \in BOOLEAN
          /\ skipped \subseteq Slides /\ selected \subseteq Slides /\ confirm \subseteq Slides
        BY <1>1
    <2>7. QED
        BY <1>2, <2>2, <2>3, <2>4, <2>5, <2>6 DEF TypeOK, GoodDeck
<1>5. WithoutHost /\ MenuInDeck
    BY <1>1, <1>3 DEF WithoutHost, MenuInDeck
<1>6. AcksTyped
    BY <1>1, EmptySeq DEF AcksTyped
<1>7. OpsArrive /\ AcksReturn
    BY <1>1 DEF OpsArrive, AcksReturn
<1>8. LockIsOwed /\ PlaceIsKept
    BY <1>1 DEF LockIsOwed, PlaceIsKept
<1>9. QED
    BY <1>4, <1>5, <1>6, <1>7, <1>8, FreshInit DEF Inv

(* What is under way is judged by the deck, the numbers of edits and the   *)
(* index to be taken back.                                                 *)
LEMMA SameHostSame ==
    ASSUME Inv, UNCHANGED <<slides, host, edits>>
    PROVE  OpsArrive' /\ AcksReturn' /\ LockIsOwed' /\ AcksTyped'
<1>0. UNCHANGED <<railLock, before, ops, early, acks, unheard>>
    BY DEF host
<1>1. \A op : Arrives(op) => Arrives(op)'
    BY <1>0, SameEdits DEF Arrives, GoalOf
<1>2. \A watch : Returns(watch) => Returns(watch)'
    BY <1>0 DEF Returns, SlideAt
<1>3. \A op : SoundOp(op) => SoundOp(op)'
    BY DEF SoundOp
<1>4. \A watch : Current(watch)' => Current(watch)
    BY DEF Current
<1>5. OpsArrive'
    <2>1. \A op : OpDue(op) => OpDue(op)'
        BY <1>0, <1>1, <1>2, <1>3, <1>4 DEF OpDue
    <2>2. QED
        BY <1>0, <2>1 DEF Inv, OpsArrive
<1>6. AcksReturn'
    <2>1. \A ack : AckDue(ack) => AckDue(ack)'
        BY <1>0, <1>2, <1>4 DEF AckDue
    <2>2. QED
        BY <1>0, <2>1 DEF Inv, AcksReturn
<1>7. QED
    BY <1>0, <1>5, <1>6 DEF Inv, LockIsOwed, AcksTyped

(* A gesture that edits nothing.                                           *)
LEMMA SameDeckInv ==
    ASSUME Inv, UNCHANGED <<hosted, slides, skipped, host, edits, inPlace>>, Fresh',
           index' = index \/ index' \in DOMAIN slides, shown' \in Slides,
           menu' = menu \/ menu' = NoMenu \/ menu'.at \in DOMAIN slides,
           dragFrom' = dragFrom \/ dragFrom' = 0 \/ dragFrom' \in DOMAIN slides
    PROVE  Inv'
<1>0. TypeOK /\ WithoutHost /\ MenuInDeck
    BY DEF Inv
<1>1. /\ Len(slides) \in Nat /\ Len(slides) <= Cardinality(Slides)
      /\ DOMAIN slides = 1..Len(slides) /\ Cardinality(Slides) \in Nat
      /\ ToSet(slides) \subseteq Slides
    BY <1>0, TypedDeck
<1>2. UNCHANGED <<railLock, before, ops, early, acks, unheard>>
    BY DEF host
<1>3. selected' \subseteq Slides /\ confirm' \subseteq Slides
    <2>1. selected' \subseteq ToSet(slides)' /\ confirm' \subseteq ToSet(slides)'
        BY DEF Fresh, RailIsFresh
    <2>2. ToSet(slides)' = ToSet(slides)
        BY DEF ToSet
    <2>3. QED
        BY <1>1, <2>1, <2>2
<1>4. index' \in 1..Cardinality(Slides) + 1
    BY <1>0, <1>1 DEF TypeOK
<1>5. menu'.at \in 0..Len(slides)
    <2>1. NoMenu.at = 0
        BY DEF NoMenu
    <2>2. CASE menu' = menu
        BY <1>0, <2>2 DEF TypeOK
    <2>3. CASE menu' = NoMenu
        BY <1>1, <2>1, <2>3
    <2>4. CASE menu'.at \in DOMAIN slides
        BY <1>1, <2>4
    <2>5. QED
        BY <2>2, <2>3, <2>4
<1>6. dragFrom' \in 0..Cardinality(Slides)
    BY <1>0, <1>1 DEF TypeOK
<1>7. TypeOK'
    BY <1>0, <1>2, <1>3, <1>4, <1>5, <1>6 DEF TypeOK
<1>8. WithoutHost'
    BY <1>0, <1>1, <1>2 DEF WithoutHost
<1>9. MenuInDeck'
    BY <1>0 DEF MenuInDeck
<1>10. OpsArrive' /\ AcksReturn' /\ LockIsOwed' /\ AcksTyped'
    BY SameHostSame
<1>11. PlaceIsKept'
    BY DEF Inv, PlaceIsKept
<1>12. QED
    BY <1>7, <1>8, <1>9, <1>10, <1>11 DEF Inv

-----------------------------------------------------------------------------
(* The marks after an edit are of slides.                                  *)
LEMMA NewSkippedType ==
    ASSUME TypeOK, NEW name \in Names, NEW list, NEW copy \in Copies(name)
    PROVE  NewSkipped(name, list, copy) \subseteq Slides
<1>1. SlidesAt(list) \subseteq Slides /\ skipped \subseteq Slides
    BY SlideAtType DEF TypeOK
<1>2. name = "duplicate" => copy \in Slides
    BY DEF Copies, Slides
<1>3. QED
    BY <1>1, <1>2 DEF NewSkipped, Names

(* An edit that is sent: nothing of it can be seen yet but the index.      *)
LEMMA SendKeepsInv ==
    ASSUME Inv, NEW name, NEW list, NEW to, NEW ni, Meant(name, list, to, ni),
           Send(name, list, to, ni), UNCHANGED hosted, Fresh',
           dragFrom' = 0, menu' = NoMenu \/ menu' = menu
    PROVE  Inv'
<1>0. TypeOK /\ WithoutHost /\ MenuInDeck /\ AcksTyped /\ OpsArrive /\ AcksReturn /\ LockIsOwed
    BY DEF Inv
<1>1. PICK n, m \in Nat : /\ n = Len(slides) /\ DOMAIN slides = 1..n /\ n >= 1
                          /\ n <= m /\ m = Cardinality(Slides)
                          /\ ToSet(slides) \subseteq Slides /\ GoodDeck(slides)
    BY <1>0, TypedDeck
<1>2. PICK new : new =
           [op |-> name, at |-> list, to |-> to, witness |-> Len(slides),
            watch |-> IF /\ ops = <<>> /\ acks = <<>> /\ Locking(name)
                         /\ before = 0 \/ ni # index
                      THEN [edit |-> edits + 1, index |-> ni,
                            from |-> SlideAt(index), goal |-> Goal(name, list)]
                      ELSE NoWatch]
    OBVIOUS
<1>3. /\ hosted /\ edits < MaxEdits /\ edits' = edits + 1
      /\ ops' = Append(ops, new) /\ railLock' = Locking(name) /\ index' = ni
      /\ before' = (IF ni # index THEN index ELSE before)
      /\ UNCHANGED <<slides, skipped, shown, selected, early, acks, unheard, inPlace>>
    BY <1>2 DEF Send
<1>4. edits \in Nat /\ MaxEdits \in Nat /\ edits + 1 \in 0..MaxEdits
    BY <1>0, <1>3, DeckConstants DEF TypeOK
<1>5. index \in 1..(m + 1) /\ ni \in 1..(m + 1)
    <2>1. index \in 1..(m + 1)
        BY <1>0, <1>1 DEF TypeOK
    <2>2. QED
        BY <1>1, <2>1, MeantIndex
<1>6. /\ new.op = name /\ new.at = list /\ new.to = to /\ new.witness = n
      /\ new.watch \in Watch
      /\ \/ new.watch = NoWatch
         \/ /\ ops = <<>> /\ acks = <<>> /\ name # "toggleSkip"
            /\ before = 0 \/ ni # index
            /\ new.watch = [edit |-> edits + 1, index |-> ni,
                            from |-> SlideAt(index), goal |-> Goal(name, list)]
      /\ name = "toggleSkip" => new.watch = NoWatch
    <2>1. [edit |-> edits + 1, index |-> ni, from |-> SlideAt(index), goal |-> Goal(name, list)]
              \in Watch
        BY <1>0, <1>4, <1>5, SlideAtType DEF Watch
    <2>2. QED
        BY <1>1, <1>2, <2>1, NoWatchType DEF Locking
<1>7. new \in Op
    <2>1. name \in Names /\ to \in 0..m /\ list \in SUBSET (1..m)
        BY <1>1 DEF Meant, Names
    <2>2. QED
        BY <1>1, <1>2, <1>6, <2>1 DEF Op, Names
<1>8. /\ ops \in Seq(Op) /\ ops' \in Seq(Op) /\ Len(ops') = Len(ops) + 1 /\ Len(ops) \in Nat
      /\ DOMAIN ops = 1..Len(ops) /\ DOMAIN ops' = 1..Len(ops) + 1
      /\ \A k \in 1..Len(ops) : ops'[k] = ops[k]
      /\ ops'[Len(ops) + 1] = new
    <2>1. ops \in Seq(Op)
        BY <1>0 DEF TypeOK
    <2>2. QED
        BY <1>3, <1>7, <2>1
<1>9. TypeOK'
    <2>1. selected' \subseteq Slides /\ confirm' \subseteq Slides
        <3>1. selected' \subseteq ToSet(slides)' /\ confirm' \subseteq ToSet(slides)'
            BY DEF Fresh, RailIsFresh
        <3>2. ToSet(slides)' = ToSet(slides)
            BY <1>3 DEF ToSet
        <3>3. QED
            BY <1>1, <3>1, <3>2
    <2>2. menu'.at \in 0..Len(slides)
        <3>1. NoMenu.at = 0
            BY DEF NoMenu
        <3>2. menu.at \in 0..Len(slides)
            BY <1>0 DEF TypeOK
        <3>3. QED
            BY <1>1, <3>1, <3>2
    <2>3. /\ index' \in 1..Cardinality(Slides) + 1 /\ dragFrom' \in 0..Cardinality(Slides)
          /\ before' \in 0..Cardinality(Slides) + 1
        BY <1>0, <1>1, <1>3, <1>5 DEF TypeOK
    <2>4. railLock' \in BOOLEAN
        BY <1>3 DEF Locking
    <2>5. QED
        BY <1>0, <1>3, <1>4, <1>8, <2>1, <2>2, <2>3, <2>4 DEF TypeOK
<1>10. WithoutHost' /\ MenuInDeck' /\ AcksTyped' /\ PlaceIsKept'
    BY <1>0, <1>3 DEF Inv, WithoutHost, MenuInDeck, AcksTyped, PlaceIsKept
<1>11. LockIsOwed'
    <2>1. PICK k : k = Len(ops) + 1 /\ k \in DOMAIN ops' /\ ops'[k] = new
        BY <1>8
    <2>2. ops'[k].op = name
        BY <1>6, <2>1
    <2>3. railLock' => Locking(ops'[k].op)
        BY <1>3, <2>2
    <2>4. QED
        BY <2>1, <2>3 DEF LockIsOwed
<1>12. \A op \in Op : SoundOp(op) => OpDue(op)'
    <2>1. \A op \in Op : op.watch.edit \in Nat
        BY <1>4 DEF Op, Watch
    <2>2. \A op \in Op : SoundOp(op) => SoundOp(op)' /\ op.watch.edit < edits'
        BY <1>3, <1>4, <2>1 DEF SoundOp
    <2>3. QED
        BY <1>3, <1>4, <2>1, <2>2 DEF OpDue, Current
<1>13. SoundOp(new)'
    <2>1. name \in {"move", "duplicate"} => \A i, j \in list : i = j
        BY DEF Meant
    <2>2. name = "move" => to \in 1..n
        BY <1>1 DEF Meant
    <2>3. name = "remove" => Cardinality(list) < n
        BY <1>1 DEF Meant
    <2>4. new.watch.edit <= edits'
        BY <1>3, <1>4, <1>6, NoWatchType
    <2>5. QED
        BY <1>6, <2>1, <2>2, <2>3, <2>4 DEF SoundOp, Locking
<1>14. ASSUME Current(new.watch)'
       PROVE  /\ ops = <<>> /\ acks = <<>>
              /\ list # {} => Arrives(new)'
              /\ Returns(new.watch)'
    <2>1. /\ ops = <<>> /\ acks = <<>> /\ name # "toggleSkip"
          /\ before = 0 \/ ni # index
          /\ new.watch = [edit |-> edits + 1, index |-> ni,
                          from |-> SlideAt(index), goal |-> Goal(name, list)]
        BY <1>6, <1>14, NoWatchType DEF Current
    <2>2. /\ new.watch.index = ni /\ new.watch.from = SlideAt(index)
          /\ new.watch.goal = Goal(name, list)
        BY <2>1
    <2>3. index \in DOMAIN slides
        BY <1>0, <1>14, <2>2, SlideAtType DEF Current
    <2>4. ASSUME list # {} PROVE Arrives(new)
        <3>1. ASSUME NEW copy \in Copies(name)
              PROVE  LET deck == Edited(name, list, to, copy)
                     IN deck[Clamp(ni, Len(deck))] = GoalOf(name, Goal(name, list), copy)
            <4>1. PICK deck : deck = Edited(name, list, to, copy)
                OBVIOUS
            <4>2. ni \in DOMAIN deck /\ deck[ni] = GoalOf(name, Goal(name, list), copy)
                BY <1>1, <2>1, <2>3, <2>4, <4>1, MeantArrives
            <4>3. GoodDeck(deck)
                BY <1>1, <2>4, <4>1, MeantIsSound, EditedGood
            <4>4. ni \in 1..Len(deck) /\ Len(deck) \in Nat
                BY <4>2, <4>3, DeckLength
            <4>5. Clamp(ni, Len(deck)) = ni
                BY <4>4 DEF Clamp
            <4>6. QED
                BY <4>1, <4>2, <4>5
        <3>2. QED
            BY <1>6, <2>2, <3>1 DEF Arrives
    <2>5. Arrives(new) => Arrives(new)'
        BY <1>3, SameEdits DEF Arrives, GoalOf
    <2>6. Returns(new.watch)'
        <3>1. index # 0
            BY <1>5
        <3>2. (IF before' # 0 THEN before' ELSE ni) = index
            BY <1>3, <2>1, <3>1
        <3>3. new.watch.index = ni
            BY <2>2
        <3>4. \A i : SlideAt(i)' = SlideAt(i)
            BY <1>3 DEF SlideAt
        <3>5. QED
            BY <2>2, <3>2, <3>3, <3>4 DEF Returns
    <2>7. QED
        BY <2>1, <2>4, <2>5, <2>6
<1>15. OpDue(new)'
    <2>1. ops = <<>> => Len(ops') = 1
        BY <1>8, EmptySeq
    <2>2. QED
        BY <1>3, <1>6, <1>13, <1>14, <2>1 DEF OpDue
<1>16. OpsArrive'
    <2>1. \A k \in 1..Len(ops) : ops[k] \in Op /\ SoundOp(ops[k])
        BY <1>0, <1>8 DEF OpsArrive, OpDue
    <2>2. ASSUME NEW k \in DOMAIN ops' PROVE OpDue(ops[k])'
        <3>1. CASE k \in 1..Len(ops)
            <4>1. PICK op : op = ops[k]
                OBVIOUS
            <4>2. ops'[k] = op /\ OpDue(op)'
                BY <1>8, <1>12, <2>1, <3>1, <4>1
            <4>3. QED
                BY <4>2
        <3>2. CASE k = Len(ops) + 1
            <4>1. ops'[k] = new
                BY <1>8, <3>2
            <4>2. QED
                BY <1>15, <4>1
        <3>3. QED
            BY <1>8, <3>1, <3>2
    <2>3. QED
        BY <2>2 DEF OpsArrive
<1>17. AcksReturn'
    <2>1. acks \in Seq(Ack)
        BY <1>0 DEF AcksTyped
    <2>2. \A k \in DOMAIN acks : acks[k].watch.edit \in Nat
        <3>1. \A k \in DOMAIN acks : acks[k] \in Ack
            BY <2>1, LenProperties
        <3>2. QED
            BY <1>4, <3>1 DEF Ack, Watch
    <2>3. \A ack : ack.watch.edit \in Nat /\ AckDue(ack) => AckDue(ack)'
        BY <1>3, <1>4 DEF AckDue, Current
    <2>4. QED
        BY <1>0, <1>3, <2>2, <2>3 DEF AcksReturn
<1>18. QED
    BY <1>9, <1>10, <1>11, <1>16, <1>17 DEF Inv

(* An edit made in the page itself.                                        *)
LEMMA EditHereKeepsInv ==
    ASSUME Inv, NEW name, NEW list, NEW to, NEW ni, Meant(name, list, to, ni),
           EditHere(name, list, to, ni), UNCHANGED hosted, Fresh',
           dragFrom' = 0, menu' = NoMenu \/ (menu' = menu /\ name = "move")
    PROVE  Inv'
<1>0. TypeOK /\ WithoutHost /\ MenuInDeck /\ AcksTyped
    BY DEF Inv
<1>1. PICK copy \in Copies(name) :
          /\ CollectSlides(Edited(name, list, to, copy), ni)
          /\ skipped' = NewSkipped(name, list, copy)
          /\ shown' = IF name = "toggleSkip" THEN shown ELSE slides'[index']
          /\ inPlace' = IF name = "toggleSkip" THEN inPlace
                        ELSE shown' = GoalOf(name, Goal(name, list), copy)
    BY DEF EditHere
<1>2. /\ ~hosted /\ edits < MaxEdits /\ edits' = edits + 1 /\ list # {}
      /\ UNCHANGED <<railLock, before, ops, early, acks, unheard>>
    BY DEF EditHere, host, Meant
<1>3. /\ index \in DOMAIN slides /\ ops = <<>> /\ acks = <<>> /\ before = 0 /\ ~railLock
      /\ GoodDeck(slides) /\ edits \in Nat /\ MaxEdits \in Nat
    BY <1>0, <1>2, TypedDeck, DeckConstants DEF WithoutHost, TypeOK
<1>4. PICK d : d = Edited(name, list, to, copy)
    OBVIOUS
<1>5. GoodDeck(d) /\ (name = "move" => Len(d) = Len(slides))
    <2>1. Sound(name, list, to)
        BY <1>2, <1>3, MeantIsSound
    <2>2. QED
        BY <1>3, <1>4, <2>1, EditedGood
<1>6. /\ Len(d) \in Nat /\ Len(d) <= Cardinality(Slides) /\ Len(d) >= 1
      /\ DOMAIN d = 1..Len(d) /\ \A i \in DOMAIN d : d[i] \in Slides
      /\ Cardinality(Slides) \in Nat /\ ToSet(d) \subseteq Slides
    BY <1>5, DeckLength DEF ToSet
<1>7. /\ ni \in DOMAIN d
      /\ name # "toggleSkip" => d[ni] = GoalOf(name, Goal(name, list), copy)
    <2>1. CASE name = "toggleSkip"
        BY <1>3, <1>4, <2>1 DEF Meant, Edited
    <2>2. CASE name # "toggleSkip"
        BY <1>2, <1>3, <1>4, <2>2, MeantArrives
    <2>3. QED
        BY <2>1, <2>2
<1>8. slides' = d /\ index' = ni
    <2>1. CollectSlides(d, ni) /\ ni \in 1..Len(d) /\ Len(d) \in Nat
        BY <1>1, <1>4, <1>6, <1>7
    <2>2. QED
        BY <2>1, InDeckStays
<1>9. menu'.at \in 0..Len(slides') /\ MenuInDeck'
    <2>1. CASE menu' = NoMenu
        BY <1>6, <1>8, <2>1 DEF NoMenu, MenuInDeck
    <2>2. CASE menu' = menu /\ name = "move"
        <3>1. Len(slides') = Len(slides)
            BY <1>5, <1>8, <2>2
        <3>2. DOMAIN slides' = DOMAIN slides
            BY <1>0, <1>6, <1>8, <3>1, TypedDeck
        <3>3. QED
            BY <1>0, <2>2, <3>1, <3>2 DEF TypeOK, MenuInDeck
    <2>3. QED
        BY <2>1, <2>2
<1>10. TypeOK'
    <2>1. selected' \subseteq Slides /\ confirm' \subseteq Slides
        <3>1. selected' \subseteq ToSet(slides)' /\ confirm' \subseteq ToSet(slides)'
            BY DEF Fresh, RailIsFresh
        <3>2. ToSet(slides)' = ToSet(d)
            BY <1>8 DEF ToSet
        <3>3. QED
            BY <1>6, <3>1, <3>2
    <2>2. skipped' \subseteq Slides
        <3>1. name \in Names
            BY DEF Meant, Names
        <3>2. QED
            BY <1>0, <1>1, <3>1, NewSkippedType
    <2>3. /\ index' \in 1..Cardinality(Slides) + 1 /\ dragFrom' \in 0..Cardinality(Slides)
          /\ edits' \in 0..MaxEdits
        BY <1>2, <1>3, <1>6, <1>7, <1>8
    <2>4. shown' \in Slides
        BY <1>0, <1>1, <1>6, <1>7, <1>8 DEF TypeOK
    <2>5. slides' \in Seq(Slides) /\ slides' # <<>> /\ IsInjective(slides')
        BY <1>5, <1>8 DEF GoodDeck
    <2>6. /\ hosted' \in BOOLEAN /\ railLock' \in BOOLEAN
          /\ early' \in BOOLEAN /\ unheard' \in BOOLEAN
        BY <1>0, <1>2 DEF TypeOK
    <2>7. before' \in 0..Cardinality(Slides) + 1 /\ ops' \in Seq(Op)
        BY <1>0, <1>2 DEF TypeOK
    <2>8. QED
        BY <1>9, <2>1, <2>2, <2>3, <2>4, <2>5, <2>6, <2>7 DEF TypeOK
<1>11. WithoutHost'
    BY <1>2, <1>3, <1>6, <1>7, <1>8 DEF WithoutHost
<1>12. AcksTyped' /\ OpsArrive' /\ AcksReturn' /\ LockIsOwed'
    BY <1>0, <1>2, <1>3 DEF AcksTyped, OpsArrive, AcksReturn, LockIsOwed
<1>13. PlaceIsKept'
    BY <1>1, <1>7, <1>8 DEF PlaceIsKept, Inv
<1>14. QED
    BY <1>9, <1>10, <1>11, <1>12, <1>13 DEF Inv

(* An edit is sent, made here, or dropped.                                 *)
LEMMA EditKeepsInv ==
    ASSUME Inv, NEW name, NEW list, NEW to, NEW ni, Meant(name, list, to, ni),
           Edit(name, list, to, ni), UNCHANGED hosted, Fresh',
           dragFrom' = 0, menu' = NoMenu \/ (menu' = menu /\ name = "move")
    PROVE  Inv'
<1>1. CASE NoEdit
    <2>1. shown' \in Slides
        BY <1>1 DEF NoEdit, Inv, TypeOK
    <2>2. QED
        BY <1>1, <2>1, SameDeckInv DEF NoEdit
<1>2. CASE Send(name, list, to, ni)
    BY <1>2, SendKeepsInv
<1>3. CASE EditHere(name, list, to, ni)
    BY <1>3, EditHereKeepsInv
<1>4. QED
    BY <1>1, <1>2, <1>3 DEF Edit

(* The deck as the host renders it.                                        *)
LEMMA RenderTypes ==
    ASSUME Inv, NEW deck, GoodDeck(deck), Render(deck), Fresh'
    PROVE  /\ GoodDeck(slides') /\ slides' = deck
           /\ index' = Clamp(index, Len(deck)) /\ index' \in DOMAIN slides'
           /\ shown' = slides'[index'] /\ shown' \in Slides
           /\ index' \in 1..Cardinality(Slides) + 1
           /\ selected' \subseteq Slides /\ confirm' \subseteq Slides
           /\ MenuInDeck' /\ menu'.at \in 0..Len(slides') /\ dragFrom' = dragFrom
           /\ railLock' = FALSE /\ unheard' = FALSE
<1>1. /\ Len(deck) \in Nat /\ Len(deck) >= 1 /\ Len(deck) <= Cardinality(Slides)
      /\ DOMAIN deck = 1..Len(deck) /\ Cardinality(Slides) \in Nat
      /\ \A i \in DOMAIN deck : deck[i] \in Slides
    BY DeckLength
<1>2. /\ slides' = deck /\ index' = (IF index > Len(deck) THEN Len(deck) ELSE index)
      /\ shown' = slides'[index'] /\ menu' = NoMenu /\ dragFrom' = dragFrom
      /\ railLock' = FALSE /\ unheard' = FALSE
    BY DEF Render, CollectSlides
<1>3. index \in Nat /\ index >= 1
    BY <1>1 DEF Inv, TypeOK
<1>4. index' \in 1..Len(deck) /\ index' = Clamp(index, Len(deck))
    BY <1>1, <1>2, <1>3 DEF Clamp
<1>5. selected' \subseteq Slides /\ confirm' \subseteq Slides
    <2>1. selected' \subseteq ToSet(slides)' /\ confirm' \subseteq ToSet(slides)'
        BY DEF Fresh, RailIsFresh
    <2>2. ToSet(slides)' = ToSet(deck)
        BY <1>2 DEF ToSet
    <2>3. ToSet(deck) \subseteq Slides
        BY <1>1 DEF ToSet
    <2>4. QED
        BY <2>1, <2>2, <2>3
<1>6. MenuInDeck' /\ menu'.at \in 0..Len(slides')
    BY <1>1, <1>2 DEF MenuInDeck, NoMenu
<1>7. QED
    BY <1>1, <1>2, <1>4, <1>5, <1>6

-----------------------------------------------------------------------------
(* The two queues.                                                         *)

(* A queue, its head and its tail.                                         *)
LEMMA FirstAndRest ==
    ASSUME NEW S, NEW q \in Seq(S), q # <<>>
    PROVE  /\ Len(q) \in Nat /\ Len(q) >= 1 /\ 1 \in DOMAIN q /\ DOMAIN q = 1..Len(q)
           /\ Head(q) = q[1] /\ Head(q) \in S /\ Tail(q) \in Seq(S)
           /\ DOMAIN Tail(q) = 1..Len(q) - 1
           /\ \A k \in DOMAIN Tail(q) : Tail(q)[k] = q[k + 1] /\ k + 1 \in DOMAIN q /\ Len(q) # 1
<1>1. /\ Len(q) \in Nat /\ Len(q) # 0 /\ DOMAIN q = 1..Len(q)
    BY LenProperties, EmptySeq
<1>2. /\ Head(q) \in S /\ Tail(q) \in Seq(S) /\ Len(Tail(q)) = Len(q) - 1
      /\ \A k \in 1..Len(Tail(q)) : Tail(q)[k] = q[k + 1]
    BY HeadTailProperties
<1>3. DOMAIN Tail(q) = 1..Len(q) - 1
    BY <1>2, LenProperties
<1>4. Head(q) = q[1]
    OBVIOUS
<1>5. QED
    BY <1>1, <1>2, <1>3, <1>4

(* Edits are numbered.                                                     *)
LEMMA EditNumbers ==
    ASSUME TypeOK
    PROVE  /\ edits \in Nat /\ MaxEdits \in Nat
           /\ \A watch \in Watch : watch.edit \in Nat
           /\ \A op \in Op : op.watch \in Watch
BY DeckConstants DEF TypeOK, Watch, Op

(* Of an edit that is not the only one under way nothing is known.         *)
LEMMA RestOfOps ==
    ASSUME Inv, ops # <<>>, ops' = Tail(ops), edits' = edits
    PROVE  ops' \in Seq(Op) /\ OpsArrive'
<1>1. PICK q \in Seq(Op) : q = ops /\ q # <<>>
    BY DEF Inv, TypeOK
<1>2. /\ Len(q) \in Nat /\ Len(q) >= 1 /\ 1 \in DOMAIN q /\ DOMAIN q = 1..Len(q)
      /\ Tail(q) \in Seq(Op)
      /\ \A k \in DOMAIN Tail(q) : Tail(q)[k] = q[k + 1] /\ k + 1 \in DOMAIN q /\ Len(q) # 1
    BY <1>1, FirstAndRest
<1>3. \A k \in DOMAIN q : OpDue(q[k])
    BY <1>1 DEF Inv, OpsArrive
<1>4. \A op : Len(ops) # 1 /\ OpDue(op) => OpDue(op)'
    <2>1. \A op : SoundOp(op) => SoundOp(op)'
        BY DEF SoundOp
    <2>2. \A watch : Current(watch)' => Current(watch)
        BY DEF Current
    <2>3. QED
        BY <2>1, <2>2 DEF OpDue
<1>5. ASSUME NEW k \in DOMAIN ops' PROVE OpDue(ops[k])'
    <2>1. PICK op : op = q[k + 1]
        OBVIOUS
    <2>2. ops'[k] = op /\ OpDue(op) /\ Len(ops) # 1
        BY <1>1, <1>2, <1>3, <2>1
    <2>3. OpDue(op)'
        BY <1>4, <2>2
    <2>4. QED
        BY <2>2, <2>3
<1>6. QED
    BY <1>1, <1>2, <1>5 DEF OpsArrive

(* The same of the answers that remain.                                    *)
LEMMA RestOfAcks ==
    ASSUME Inv, acks # <<>>, acks' = Tail(acks), UNCHANGED <<slides, ops, early, edits>>
    PROVE  AcksTyped' /\ AcksReturn' /\ OpsArrive'
<1>1. PICK q \in Seq(Ack) : q = acks /\ q # <<>>
    BY DEF Inv, AcksTyped, Ack
<1>2. /\ Len(q) \in Nat /\ Len(q) >= 1 /\ 1 \in DOMAIN q /\ DOMAIN q = 1..Len(q)
      /\ Tail(q) \in Seq(Ack)
      /\ \A k \in DOMAIN Tail(q) : Tail(q)[k] = q[k + 1] /\ k + 1 \in DOMAIN q /\ Len(q) # 1
    BY <1>1, FirstAndRest
<1>3. \A k \in DOMAIN q : AckDue(q[k])
    BY <1>1 DEF Inv, AcksReturn
<1>4. \A watch : Current(watch)' => Current(watch)
    BY DEF Current
<1>5. ASSUME NEW k \in DOMAIN acks' PROVE AckDue(acks[k])'
    <2>1. PICK ack : ack = q[k + 1]
        OBVIOUS
    <2>2. acks'[k] = ack /\ AckDue(ack) /\ Len(acks) # 1
        BY <1>1, <1>2, <1>3, <2>1
    <2>3. AckDue(ack)'
        BY <1>4, <2>2 DEF AckDue
    <2>4. QED
        BY <2>2, <2>3
<1>6. OpsArrive'
    <2>1. \A op : OpDue(op) => OpDue(op)'
        <3>1. \A op : SoundOp(op) => SoundOp(op)'
            BY DEF SoundOp
        <3>2. \A op : Arrives(op) => Arrives(op)'
            BY SameEdits DEF Arrives, GoalOf
        <3>3. QED
            BY <1>4, <3>1, <3>2 DEF OpDue
    <2>2. QED
        BY <2>1 DEF Inv, OpsArrive
<1>7. QED
    BY <1>1, <1>2, <1>5, <1>6 DEF AcksReturn, AcksTyped, Ack

(* An answer to the only operation under way may be of an edit that        *)
(* nothing interfered with; those that were waiting are not.               *)
LEMMA OneMoreAck ==
    ASSUME Inv, ops # <<>>, NEW ack \in Ack, acks' = Append(acks, ack), edits' = edits,
           AckDue(ack)'
    PROVE  AcksTyped' /\ AcksReturn' /\ acks' # <<>>
<1>1. PICK q \in Seq(Ack) : q = acks
    BY DEF Inv, AcksTyped, Ack
<1>2. /\ acks' \in Seq(Ack) /\ Len(q) \in Nat
      /\ DOMAIN q = 1..Len(q) /\ DOMAIN acks' = 1..Len(q) + 1
      /\ \A k \in 1..Len(q) : acks'[k] = q[k]
      /\ acks'[Len(q) + 1] = ack
    BY <1>1
<1>3. ASSUME NEW k \in DOMAIN acks' PROVE AckDue(acks[k])'
    <2>1. CASE k \in 1..Len(q)
        <3>1. PICK old : old = q[k]
            OBVIOUS
        <3>2. acks'[k] = old /\ AckDue(old)
            BY <1>1, <1>2, <2>1, <3>1 DEF Inv, AcksReturn
        <3>3. AckDue(old)'
            BY <3>2 DEF AckDue, Current
        <3>4. QED
            BY <3>2, <3>3
    <2>2. CASE k = Len(q) + 1
        <3>1. acks'[k] = ack
            BY <1>2, <2>2
        <3>2. QED
            BY <3>1
    <2>3. QED
        BY <1>2, <2>1, <2>2
<1>4. QED
    BY <1>1, <1>2, <1>3, EmptySeq DEF AcksReturn, AcksTyped, Ack

(* An answer more is on its way: the earlier ones still are.               *)
LEMMA EarlierAcks ==
    ASSUME AcksTyped, NEW ack \in Ack, acks' = acks \/ acks' = Append(acks, ack)
    PROVE  /\ (\E k \in DOMAIN acks : Unlocks(acks[k])) =>
                  \E k \in DOMAIN acks' : Unlocks(acks'[k])
           /\ acks' = Append(acks, ack) =>
                  \E k \in DOMAIN acks' : acks'[k] = ack
<1>1. PICK q \in Seq(Ack) : q = acks
    BY DEF AcksTyped
<1>2. ASSUME acks' = Append(acks, ack)
      PROVE  /\ DOMAIN q = 1..Len(q) /\ DOMAIN acks' = 1..Len(q) + 1 /\ Len(q) \in Nat
             /\ \A k \in 1..Len(q) : acks'[k] = q[k]
             /\ acks'[Len(q) + 1] = ack
    BY <1>1, <1>2
<1>3. ASSUME acks' = Append(acks, ack)
      PROVE  /\ \A k \in DOMAIN acks : k \in DOMAIN acks' /\ acks'[k] = acks[k]
             /\ \E k \in DOMAIN acks' : acks'[k] = ack
    BY <1>1, <1>2, <1>3
<1>4. QED
    BY <1>3

(* The head of a queue leaves: the others are still in it.                 *)
LEMMA OthersStay ==
    ASSUME NEW S, NEW q \in Seq(S), q # <<>>, NEW k \in DOMAIN q, q[k] # Head(q)
    PROVE  \E m \in DOMAIN Tail(q) : Tail(q)[m] = q[k]
<1>1. /\ DOMAIN q = 1..Len(q) /\ Len(q) \in Nat /\ Head(q) = q[1]
      /\ Len(Tail(q)) = Len(q) - 1 /\ Tail(q) \in Seq(S)
      /\ \A m \in 1..Len(Tail(q)) : Tail(q)[m] = q[m + 1]
    BY HeadTailProperties, LenProperties
<1>2. DOMAIN Tail(q) = 1..Len(q) - 1
    BY <1>1, LenProperties
<1>3. k \in 2..Len(q)
    BY <1>1
<1>4. k - 1 \in 1..Len(q) - 1 /\ (k - 1) + 1 = k
    BY <1>1, <1>3
<1>5. QED
    BY <1>1, <1>2, <1>4

(* An operation leaves the host: one that locked the rail with its refusal *)
(* on the way.                                                             *)
LEMMA LockAfterAnswer ==
    ASSUME TypeOK, AcksTyped, LockIsOwed, ops # <<>>, ops' = Tail(ops),
           NEW ack \in Ack, acks' = acks \/ acks' = Append(acks, ack),
           Locking(Head(ops).op) => Unlocks(ack) /\ acks' = Append(acks, ack),
           UNCHANGED <<railLock, unheard>>
    PROVE  LockIsOwed'
<1>1. \A k \in DOMAIN ops : \/ ops[k] = Head(ops)
                            \/ \E m \in DOMAIN ops' : ops'[m] = ops[k]
    BY OthersStay DEF TypeOK
<1>2. CASE \E k \in DOMAIN ops : Locking(ops[k].op)
    <2>1. PICK k \in DOMAIN ops : Locking(ops[k].op)
        BY <1>2
    <2>2. CASE ops[k] = Head(ops)
        <3>1. \E m \in DOMAIN acks' : Unlocks(acks'[m])
            BY <2>1, <2>2, EarlierAcks
        <3>2. QED
            BY <3>1 DEF LockIsOwed, Unlocks
    <2>3. CASE \E m \in DOMAIN ops' : ops'[m] = ops[k]
        BY <2>1, <2>3 DEF LockIsOwed
    <2>4. QED
        BY <1>1, <2>2, <2>3
<1>3. CASE \E k \in DOMAIN acks : Unlocks(acks[k])
    <2>1. \E m \in DOMAIN acks' : Unlocks(acks'[m])
        BY <1>3, EarlierAcks
    <2>2. QED
        BY <2>1 DEF LockIsOwed, Unlocks
<1>4. QED
    BY <1>2, <1>3 DEF LockIsOwed

(* Another edit: what was sent before it may not fit any more.             *)
LEMMA OutOfDate ==
    ASSUME Inv, UNCHANGED <<ops, acks>>, edits' = edits + 1
    PROVE  OpsArrive' /\ AcksReturn' /\ AcksTyped'
<1>1. /\ edits \in Nat
      /\ \A watch \in Watch : watch.edit \in Nat
      /\ \A op \in Op : op.watch \in Watch
    BY EditNumbers DEF Inv
<1>2. \A k \in DOMAIN ops : ops[k] \in Op
    BY LenProperties DEF Inv, TypeOK
<1>3. \A k \in DOMAIN acks : acks[k].watch \in Watch
    <2>1. \A k \in DOMAIN acks : acks[k] \in Ack
        BY LenProperties DEF Inv, AcksTyped
    <2>2. QED
        BY <2>1 DEF Ack
<1>4. \A watch \in Watch : watch.edit <= edits => watch.edit <= edits' /\ ~Current(watch)'
    BY <1>1 DEF Current
<1>5. \A op \in Op : OpDue(op) => OpDue(op)'
    <2>1. \A op \in Op : SoundOp(op) => SoundOp(op)'
        BY <1>1, <1>4 DEF SoundOp
    <2>2. \A op \in Op : SoundOp(op) => ~Current(op.watch)'
        BY <1>1, <1>4 DEF SoundOp
    <2>3. QED
        BY <2>1, <2>2 DEF OpDue
<1>6. \A ack : ack.watch \in Watch /\ AckDue(ack) => AckDue(ack)'
    BY <1>4 DEF AckDue
<1>7. OpsArrive'
    BY <1>2, <1>5 DEF Inv, OpsArrive
<1>8. AcksReturn'
    BY <1>3, <1>6 DEF Inv, AcksReturn
<1>9. QED
    BY <1>7, <1>8 DEF Inv, AcksTyped

(* The host acknowledges an edit before it renders the deck: it can no     *)
(* longer refuse it.                                                       *)
LEMMA HostAcksInv ==
    ASSUME Inv, HostAcks, Fresh'
    PROVE  Inv'
<1>0. TypeOK /\ WithoutHost /\ MenuInDeck /\ AcksTyped /\ LockIsOwed
    BY DEF Inv
<1>1. PICK op, ack : op = Head(ops) /\ ack = Answer(op, TRUE)
    OBVIOUS
<1>2. op \in Op /\ ops # <<>>
    <2>1. ops # <<>> /\ ops \in Seq(Op)
        BY <1>0 DEF HostAcks, TypeOK
    <2>2. QED
        BY <1>1, <2>1, FirstAndRest
<1>3. /\ acks' = Append(acks, ack) /\ early' = TRUE
      /\ UNCHANGED <<hosted, slides, skipped, index, shown, railLock, before, ops,
                     unheard, edits, inPlace>>
      /\ UNCHANGED <<selected, menu, confirm, dragFrom>>
    BY <1>1 DEF HostAcks, rail
<1>4. AcksTyped' /\ AcksReturn' /\ acks' # <<>>
    <2>1. ack \in Ack /\ ack.watch = NoWatch
        BY <1>1, <1>2, NoWatchType DEF Ack, Answer, Op, Names
    <2>2. AckDue(ack)'
        BY <1>0, <1>3, <2>1, NoWatchType, EditNumbers DEF AckDue, Current
    <2>3. QED
        BY <1>2, <1>3, <2>1, <2>2, OneMoreAck
<1>5. OpsArrive'
    <2>1. \A o : Arrives(o) => Arrives(o)'
        BY <1>3, SameEdits DEF Arrives, GoalOf
    <2>2. \A o : SoundOp(o) => SoundOp(o)'
        BY <1>3 DEF SoundOp
    <2>3. \A watch : Current(watch)' => Current(watch)
        BY <1>3 DEF Current
    <2>4. \A o : OpDue(o) => OpDue(o)'
        BY <1>3, <2>1, <2>2, <2>3 DEF OpDue
    <2>5. QED
        BY <1>3, <2>4 DEF Inv, OpsArrive
<1>6. LockIsOwed'
    <2>1. ack \in Ack
        BY <1>1, <1>2, NoWatchType DEF Ack, Answer, Op, Names
    <2>2. (\E k \in DOMAIN acks : Unlocks(acks[k])) =>
              \E k \in DOMAIN acks' : Unlocks(acks'[k])
        BY <1>0, <1>3, <2>1, EarlierAcks
    <2>3. QED
        BY <1>0, <1>3, <2>2 DEF LockIsOwed, Unlocks
<1>7. TypeOK'
    BY <1>0, <1>3 DEF TypeOK
<1>8. WithoutHost' /\ MenuInDeck' /\ PlaceIsKept'
    BY <1>0, <1>2, <1>3 DEF WithoutHost, MenuInDeck, PlaceIsKept, Inv
<1>9. QED
    BY <1>4, <1>5, <1>6, <1>7, <1>8 DEF Inv

(* The host makes an edit.  If it is one that nothing interfered with, the *)
(* slide to be on screen is at the index the deck has had since.           *)
LEMMA HostAppliesInv ==
    ASSUME Inv, HostApplies, Fresh'
    PROVE  Inv'
<1>0. TypeOK /\ WithoutHost /\ MenuInDeck /\ AcksTyped /\ LockIsOwed
    BY DEF Inv
<1>1. PICK op : op = Head(ops)
    OBVIOUS
<1>2. /\ op \in Op /\ OpDue(op) /\ ops # <<>>
    <2>1. ops # <<>> /\ ops \in Seq(Op)
        BY <1>0 DEF HostApplies, TypeOK
    <2>2. 1 \in DOMAIN ops /\ Head(ops) = ops[1] /\ Head(ops) \in Op
        BY <2>1, FirstAndRest
    <2>3. QED
        BY <1>1, <2>1, <2>2 DEF Inv, OpsArrive
<1>3. hosted
    BY <1>0, <1>2 DEF WithoutHost
<1>4. /\ Len(slides) = op.witness /\ op.at # {} /\ op.at \subseteq DOMAIN slides
      /\ ops' = Tail(ops) /\ early' = FALSE /\ UNCHANGED <<hosted, before, edits>>
      /\ acks' = acks \/ acks' = Append(acks, Answer(op, TRUE))
    BY <1>1 DEF HostApplies, Applicable
<1>5. PICK copy \in Copies(op.op) :
          /\ skipped' = NewSkipped(op.op, op.at, copy)
          /\ IF ~Locking(op.op)
             THEN UNCHANGED <<slides, index, shown, rail, railLock, unheard, inPlace>>
             ELSE /\ Render(Edited(op.op, op.at, op.to, copy))
                  /\ inPlace' = IF Undisturbed(op.watch)
                                THEN shown' = GoalOf(op.op, op.watch.goal, copy)
                                ELSE inPlace
    BY <1>1 DEF HostApplies
<1>6. ops' \in Seq(Op) /\ OpsArrive'
    BY <1>2, <1>4, RestOfOps
<1>a. PICK ack \in Ack : ack = Answer(op, TRUE) /\ ack.watch = NoWatch
    <2>1. Answer(op, TRUE) \in Ack /\ Answer(op, TRUE).watch = NoWatch
        BY <1>2, NoWatchType DEF Ack, Answer, Op, Names
    <2>2. QED
        BY <2>1
<1>7. AcksTyped' /\ AcksReturn'
    <2>1. AckDue(ack)'
        <3>1. PICK watch : watch = ack.watch /\ watch = NoWatch
            BY <1>a
        <3>2. watch.edit <= edits' /\ ~Current(watch)'
            BY <1>0, <1>4, <3>1, NoWatchType, EditNumbers DEF Current
        <3>3. QED
            BY <3>1, <3>2 DEF AckDue
    <2>2. CASE acks' = acks
        <3>1. \A old : ~Current(old.watch) /\ AckDue(old) => AckDue(old)'
            BY <1>4 DEF AckDue, Current
        <3>2. \A k \in DOMAIN acks : ~Current(acks[k].watch)
            BY <1>2 DEF Inv, AcksReturn, AckDue
        <3>3. QED
            BY <1>0, <2>2, <3>1, <3>2 DEF Inv, AcksTyped, AcksReturn
    <2>3. CASE acks' = Append(acks, ack)
        BY <1>2, <1>4, <2>1, <2>3, OneMoreAck
    <2>4. QED
        BY <1>4, <1>a, <2>2, <2>3
<1>9. skipped' \subseteq Slides
    <2>1. op.op \in Names
        BY <1>2 DEF Op, Names
    <2>2. QED
        BY <1>0, <1>5, <2>1, NewSkippedType
<1>10. WithoutHost'
    BY <1>3, <1>4 DEF WithoutHost
<1>11. CASE ~Locking(op.op)
    <2>1. /\ UNCHANGED <<slides, index, shown, railLock, unheard, inPlace>>
          /\ UNCHANGED <<selected, menu, confirm, dragFrom>>
        BY <1>5, <1>11 DEF rail
    <2>2. TypeOK'
        BY <1>0, <1>4, <1>6, <1>9, <2>1 DEF TypeOK
    <2>3. MenuInDeck' /\ PlaceIsKept'
        BY <1>0, <2>1 DEF MenuInDeck, PlaceIsKept, Inv
    <2>4. LockIsOwed'
        BY <1>0, <1>1, <1>2, <1>4, <1>11, <1>a, <2>1, LockAfterAnswer
    <2>5. QED
        BY <1>6, <1>7, <1>10, <2>2, <2>3, <2>4 DEF Inv
<1>12. CASE Locking(op.op)
    <2>1. PICK deck : deck = Edited(op.op, op.at, op.to, copy)
        OBVIOUS
    <2>2. GoodDeck(slides) /\ DOMAIN slides = 1..Len(slides)
        BY <1>0, TypedDeck
    <2>3. Sound(op.op, op.at, op.to)
        <3>1. SoundOp(op) /\ op.op \in Names
            BY <1>2 DEF OpDue, Op, Names
        <3>2. op.op = "remove" => op.at # DOMAIN slides
            BY <1>4, <2>2, <3>1, NotAll DEF SoundOp
        <3>3. op.op \in {"move", "duplicate"} => \E i \in DOMAIN slides : op.at = {i}
            <4>1. PICK i \in op.at : TRUE
                BY <1>4
            <4>2. op.op \in {"move", "duplicate"} => op.at = {i}
                BY <3>1, <4>1 DEF SoundOp
            <4>3. QED
                BY <1>4, <4>1, <4>2
        <3>4. op.op = "move" => op.to \in DOMAIN slides
            BY <1>4, <2>2, <3>1 DEF SoundOp
        <3>5. QED
            BY <1>4, <1>12, <3>1, <3>2, <3>3, <3>4 DEF Sound, Names, Locking
    <2>4. GoodDeck(deck)
        BY <2>1, <2>2, <2>3, EditedGood
    <2>5. /\ GoodDeck(slides') /\ slides' = deck
          /\ index' = Clamp(index, Len(deck)) /\ index' \in DOMAIN slides'
          /\ shown' = slides'[index'] /\ shown' \in Slides
          /\ index' \in 1..Cardinality(Slides) + 1
          /\ selected' \subseteq Slides /\ confirm' \subseteq Slides
          /\ MenuInDeck' /\ menu'.at \in 0..Len(slides') /\ dragFrom' = dragFrom
          /\ railLock' = FALSE /\ unheard' = FALSE
        BY <1>5, <1>12, <2>1, <2>4, RenderTypes
    <2>6. TypeOK'
        <3>1. /\ hosted' \in BOOLEAN /\ before' \in 0..Cardinality(Slides) + 1
              /\ early' \in BOOLEAN /\ unheard' \in BOOLEAN
              /\ edits' \in 0..MaxEdits /\ dragFrom' \in 0..Cardinality(Slides)
            BY <1>0, <1>4, <2>5 DEF TypeOK
        <3>2. QED
            BY <1>6, <1>9, <2>5, <3>1 DEF TypeOK, GoodDeck
    <2>7. PlaceIsKept'
        <3>1. CASE Undisturbed(op.watch)
            <4>1. Current(op.watch) /\ index = op.watch.index
                BY <3>1 DEF Undisturbed, Current
            <4>2. Arrives(op)
                BY <1>2, <1>4, <4>1 DEF OpDue
            <4>3. deck[Clamp(op.watch.index, Len(deck))] = GoalOf(op.op, op.watch.goal, copy)
                BY <2>1, <4>2 DEF Arrives
            <4>4. inPlace' = (shown' = GoalOf(op.op, op.watch.goal, copy))
                BY <1>5, <1>12, <3>1
            <4>5. QED
                BY <2>5, <4>1, <4>3, <4>4 DEF PlaceIsKept
        <3>2. CASE ~Undisturbed(op.watch)
            BY <1>5, <1>12, <3>2 DEF PlaceIsKept, Inv
        <3>3. QED
            BY <3>1, <3>2
    <2>8. LockIsOwed'
        BY <2>5 DEF LockIsOwed
    <2>9. QED
        BY <1>6, <1>7, <1>10, <2>5, <2>6, <2>7, <2>8 DEF Inv
<1>13. QED
    BY <1>11, <1>12

(* It refuses one: the index is still to be taken back.                    *)
LEMMA HostRefusesInv ==
    ASSUME Inv, HostRefuses, Fresh'
    PROVE  Inv'
<1>0. TypeOK /\ WithoutHost /\ MenuInDeck /\ AcksTyped /\ LockIsOwed
    BY DEF Inv
<1>1. PICK op, ack : op = Head(ops) /\ ack = Answer(op, FALSE)
    OBVIOUS
<1>2. op \in Op /\ OpDue(op) /\ ops # <<>> /\ (Len(ops) = 1 => Tail(ops) = <<>>)
    <2>1. ops # <<>> /\ ops \in Seq(Op)
        BY <1>0 DEF HostRefuses, TypeOK
    <2>2. 1 \in DOMAIN ops /\ Head(ops) = ops[1] /\ Head(ops) \in Op
        BY <2>1, FirstAndRest
    <2>3. Len(ops) = 1 => Tail(ops) = <<>>
        <3>1. Tail(ops) \in Seq(Op) /\ Len(Tail(ops)) = Len(ops) - 1
            BY <2>1, HeadTailProperties
        <3>2. Len(ops) = 1 => Len(Tail(ops)) = 0
            BY <3>1
        <3>3. QED
            BY <3>1, <3>2, EmptySeq
    <2>4. QED
        BY <1>1, <2>1, <2>2, <2>3 DEF Inv, OpsArrive
<1>3. /\ acks' = Append(acks, ack) /\ ops' = Tail(ops) /\ ~early
      /\ UNCHANGED <<hosted, slides, skipped, index, shown, railLock, before, early,
                     unheard, edits, inPlace>>
      /\ UNCHANGED <<selected, menu, confirm, dragFrom>>
    BY <1>1 DEF HostRefuses, rail
<1>4. ops' \in Seq(Op) /\ OpsArrive'
    BY <1>2, <1>3, RestOfOps
<1>5. AcksTyped' /\ AcksReturn' /\ acks' # <<>>
    <2>1. op.watch \in Watch /\ op.watch.edit <= edits /\ ack.watch = op.watch
        BY <1>0, <1>1, <1>2, EditNumbers DEF OpDue, SoundOp, Answer
    <2>2. ack \in Ack
        BY <1>1, <1>2, <2>1 DEF Ack, Answer, Op, Names
    <2>3. ASSUME Current(op.watch)
          PROVE  ops' = <<>> /\ Len(acks') = 1 /\ Returns(op.watch)
        <3>1. Len(ops) = 1 /\ acks = <<>> /\ Returns(op.watch)
            BY <1>2, <1>3, <2>3 DEF OpDue
        <3>2. Len(acks') = 1
            BY <1>3, <3>1
        <3>3. QED
            BY <1>2, <1>3, <3>1, <3>2
    <2>4. Returns(op.watch) => Returns(op.watch)'
        <3>1. \A watch : Returns(watch) => Returns(watch)'
            BY <1>3 DEF Returns, SlideAt
        <3>2. QED
            BY <3>1
    <2>5. AckDue(ack)'
        <3>1. PICK watch : watch = op.watch
            OBVIOUS
        <3>2. Current(watch)' => Current(watch)
            BY <1>3 DEF Current
        <3>3. Returns(watch) => Returns(watch)'
            BY <1>3 DEF Returns, SlideAt
        <3>4. watch.edit <= edits'
            BY <1>3, <2>1, <3>1
        <3>5. ack.watch = watch
            BY <2>1, <3>1
        <3>6. QED
            BY <2>3, <3>1, <3>2, <3>3, <3>4, <3>5 DEF AckDue
    <2>6. QED
        BY <1>2, <1>3, <2>2, <2>5, OneMoreAck
<1>6. LockIsOwed'
    <2>1. ack \in Ack /\ (Locking(op.op) => Unlocks(ack))
        BY <1>0, <1>1, <1>2, EditNumbers DEF Ack, Answer, Op, Names, Unlocks
    <2>2. QED
        BY <1>0, <1>1, <1>2, <1>3, <2>1, LockAfterAnswer
<1>7. TypeOK'
    BY <1>0, <1>3, <1>4 DEF TypeOK
<1>8. WithoutHost' /\ MenuInDeck' /\ PlaceIsKept'
    BY <1>0, <1>2, <1>3 DEF WithoutHost, MenuInDeck, PlaceIsKept, Inv
<1>9. QED
    BY <1>4, <1>5, <1>6, <1>7, <1>8 DEF Inv

(* The answer: a refusal takes the index back to the slide on screen.      *)
LEMMA AcknowledgeInv ==
    ASSUME Inv, Acknowledge, Fresh'
    PROVE  Inv'
<1>0. TypeOK /\ WithoutHost /\ MenuInDeck
    BY DEF Inv
<1>1. PICK ack : ack = Head(acks)
    OBVIOUS
<1>2. /\ acks # <<>> /\ acks' = Tail(acks) /\ railLock' = FALSE /\ before' = 0
      /\ index' = (IF ~ack.applied /\ before # 0 THEN before ELSE index)
      /\ inPlace' = (IF ~ack.applied /\ Undisturbed(ack.watch)
                     THEN SlideAt(index') = ack.watch.from ELSE inPlace)
      /\ unheard' = FALSE /\ UNCHANGED <<hosted, slides, skipped, shown, ops, early, edits>>
      /\ UNCHANGED <<selected, menu, confirm, dragFrom>>
    BY <1>1 DEF Acknowledge, rail
<1>3. AckDue(ack)
    <2>1. acks \in Seq(Ack)
        BY DEF Inv, AcksTyped, Ack
    <2>2. 1 \in DOMAIN acks /\ Head(acks) = acks[1]
        BY <1>2, <2>1, FirstAndRest
    <2>3. QED
        BY <1>1, <2>2 DEF Inv, AcksReturn
<1>4. AcksTyped' /\ AcksReturn' /\ OpsArrive'
    BY <1>2, RestOfAcks
<1>5. LockIsOwed'
    BY <1>2 DEF LockIsOwed
<1>6. TypeOK'
    <2>1. Cardinality(Slides) \in Nat
        BY SlidesFinite
    <2>2. index' \in 1..Cardinality(Slides) + 1 /\ before' \in 0..Cardinality(Slides) + 1
        BY <1>0, <1>2, <2>1 DEF TypeOK
    <2>3. railLock' \in BOOLEAN
        BY <1>2
    <2>4. QED
        BY <1>0, <1>2, <2>2, <2>3 DEF TypeOK
<1>7. hosted
    BY <1>0, <1>2 DEF WithoutHost
<1>8. WithoutHost' /\ MenuInDeck'
    BY <1>0, <1>2, <1>7 DEF WithoutHost, MenuInDeck
<1>9. PlaceIsKept'
    <2>1. CASE ~ack.applied /\ Undisturbed(ack.watch)
        <3>1. Current(ack.watch) /\ index = ack.watch.index
            BY <2>1 DEF Undisturbed, Current
        <3>2. SlideAt(IF before # 0 THEN before ELSE index) = ack.watch.from
            BY <1>3, <3>1 DEF AckDue, Returns
        <3>3. index' = (IF before # 0 THEN before ELSE index)
            BY <1>2, <2>1
        <3>4. SlideAt(index') = ack.watch.from
            BY <3>2, <3>3
        <3>5. QED
            BY <1>2, <2>1, <3>4 DEF PlaceIsKept
    <2>2. CASE ~(~ack.applied /\ Undisturbed(ack.watch))
        BY <1>2, <2>2 DEF PlaceIsKept, Inv
    <2>3. QED
        BY <2>1, <2>2
<1>10. QED
    BY <1>4, <1>5, <1>6, <1>8, <1>9 DEF Inv

(* An answer is lost: if it was the one to unlock the rail, that is noted. *)
LEMMA AckLostInv ==
    ASSUME Inv, AckLost, Fresh'
    PROVE  Inv'
<1>0. TypeOK /\ WithoutHost /\ MenuInDeck /\ AcksTyped /\ LockIsOwed
    BY DEF Inv
<1>1. /\ acks # <<>> /\ acks' = Tail(acks)
      /\ unheard' = (unheard \/ (railLock /\ Unlocks(Head(acks))))
      /\ UNCHANGED <<hosted, slides, skipped, index, shown, railLock, before,
                     ops, early, edits, inPlace>>
      /\ UNCHANGED <<selected, menu, confirm, dragFrom>>
    BY DEF AckLost, rail
<1>2. AcksTyped' /\ AcksReturn' /\ OpsArrive'
    BY <1>1, RestOfAcks
<1>3. LockIsOwed'
    <2>1. \A k \in DOMAIN acks : \/ acks[k] = Head(acks)
                                 \/ \E m \in DOMAIN acks' : acks'[m] = acks[k]
        BY <1>0, <1>1, OthersStay DEF AcksTyped
    <2>2. ASSUME railLock, NEW k \in DOMAIN acks, Unlocks(acks[k])
          PROVE  unheard' \/ \E m \in DOMAIN acks' : Unlocks(acks'[m])
        BY <1>1, <2>1, <2>2
    <2>3. QED
        BY <1>0, <1>1, <2>2 DEF LockIsOwed, Unlocks
<1>4. TypeOK'
    <2>1. unheard' \in BOOLEAN
        <3>1. unheard \in BOOLEAN
            BY <1>0 DEF TypeOK
        <3>2. QED
            BY <1>1, <3>1
    <2>2. QED
        BY <1>0, <1>1, <2>1 DEF TypeOK
<1>5. hosted
    BY <1>0, <1>1 DEF WithoutHost
<1>6. WithoutHost' /\ MenuInDeck' /\ PlaceIsKept'
    BY <1>0, <1>1, <1>5 DEF WithoutHost, MenuInDeck, PlaceIsKept, Inv
<1>7. QED
    BY <1>2, <1>3, <1>4, <1>6 DEF Inv

(* Others edit a hosted deck.                                              *)
LEMMA OthersEditInv ==
    ASSUME Inv, OthersEdit, Fresh'
    PROVE  Inv'
<1>0. TypeOK /\ LockIsOwed
    BY DEF Inv
<1>1. /\ hosted /\ edits < MaxEdits /\ edits' = edits + 1
      /\ skipped' = skipped \intersect ToSet(slides')
      /\ UNCHANGED <<hosted, before, ops, early, acks, inPlace>>
    BY DEF OthersEdit
<1>2. PICK i \in DOMAIN slides, j \in DOMAIN slides :
          \E deck \in {RemoveAt(slides, i), InsertAt(RemoveAt(slides, i), j, slides[i])}
                      \union {InsertAt(slides, i, s) : s \in Spare \ ToSet(slides)} :
                  Render(deck) /\ deck # <<>>
    BY DEF OthersEdit
<1>3. PICK deck : /\ Render(deck) /\ deck # <<>>
                  /\ \/ deck = RemoveAt(slides, i)
                     \/ deck = InsertAt(RemoveAt(slides, i), j, slides[i])
                     \/ \E s \in Spare \ ToSet(slides) : deck = InsertAt(slides, i, s)
    BY <1>2
<1>4. /\ GoodDeck(slides) /\ Len(slides) \in Nat /\ Len(slides) >= 1
      /\ DOMAIN slides = 1..Len(slides) /\ \A k \in DOMAIN slides : slides[k] \in Slides
    BY <1>0, TypedDeck
<1>5. PICK r : r = RemoveAt(slides, i)
    OBVIOUS
<1>6. /\ r \in Seq(Slides) /\ Len(r) = Len(slides) - 1 /\ IsInjective(r)
      /\ slides[i] \notin ToSet(r)
    BY <1>4, <1>5, RemovedGood
<1>7. GoodDeck(deck)
    <2>1. CASE deck = r
        BY <1>3, <1>6, <2>1 DEF GoodDeck
    <2>2. ASSUME NEW s \in Spare \ ToSet(slides), deck = InsertAt(slides, i, s)
          PROVE  GoodDeck(deck)
        <3>1. s \in Slides /\ i \in 1..Len(slides) + 1
            BY <1>4 DEF Slides
        <3>2. QED
            BY <1>4, <2>2, <3>1, InsertedGood DEF GoodDeck
    <2>3. CASE deck = InsertAt(r, j, slides[i])
        <3>1. slides[i] \in Slides /\ j \in 1..Len(r) + 1
            BY <1>4, <1>6
        <3>2. QED
            BY <1>6, <2>3, <3>1, InsertedGood
    <2>4. QED
        BY <1>3, <1>5, <2>1, <2>2, <2>3
<1>8. /\ GoodDeck(slides') /\ slides' = deck
      /\ index' = Clamp(index, Len(deck)) /\ index' \in DOMAIN slides'
      /\ shown' = slides'[index'] /\ shown' \in Slides
      /\ index' \in 1..Cardinality(Slides) + 1
      /\ selected' \subseteq Slides /\ confirm' \subseteq Slides
      /\ MenuInDeck' /\ menu'.at \in 0..Len(slides') /\ dragFrom' = dragFrom
      /\ railLock' = FALSE /\ unheard' = FALSE
    BY <1>3, <1>7, RenderTypes
<1>9. TypeOK'
    <2>1. /\ hosted' \in BOOLEAN /\ before' \in 0..Cardinality(Slides) + 1
          /\ early' \in BOOLEAN /\ unheard' \in BOOLEAN
          /\ dragFrom' \in 0..Cardinality(Slides) /\ ops' \in Seq(Op)
          /\ skipped' \subseteq Slides
        BY <1>0, <1>1, <1>8 DEF TypeOK
    <2>2. edits' \in 0..MaxEdits
        BY <1>0, <1>1, EditNumbers
    <2>3. QED
        BY <1>8, <2>1, <2>2 DEF TypeOK, GoodDeck
<1>10. OpsArrive' /\ AcksReturn' /\ AcksTyped'
    BY <1>1, OutOfDate
<1>11. WithoutHost' /\ LockIsOwed' /\ PlaceIsKept'
    BY <1>0, <1>1, <1>8 DEF WithoutHost, LockIsOwed, PlaceIsKept, Inv
<1>12. QED
    BY <1>8, <1>9, <1>10, <1>11 DEF Inv

(* They skip a slide of it, or no longer do.                               *)
LEMMA OthersSkipInv ==
    ASSUME Inv, OthersSkip, Fresh'
    PROVE  Inv'
<1>0. TypeOK /\ WithoutHost /\ MenuInDeck
    BY DEF Inv
<1>1. /\ hosted /\ edits < MaxEdits /\ edits' = edits + 1
      /\ UNCHANGED <<hosted, slides, index, shown, inPlace>>
      /\ UNCHANGED <<selected, menu, confirm, dragFrom>>
      /\ UNCHANGED <<railLock, before, ops, early, acks, unheard>>
    BY DEF OthersSkip, rail, host
<1>2. PICK i \in DOMAIN slides : skipped' = NewSkipped("toggleSkip", {i}, NoSlide)
    BY DEF OthersSkip
<1>3. skipped' \subseteq Slides
    <2>1. NoSlide \in Copies("toggleSkip")
        BY DEF Copies
    <2>2. QED
        BY <1>0, <1>2, <2>1, NewSkippedType DEF Names
<1>4. edits' \in 0..MaxEdits
    BY <1>0, <1>1, EditNumbers
<1>5. TypeOK'
    BY <1>0, <1>1, <1>3, <1>4 DEF TypeOK
<1>6. OpsArrive' /\ AcksReturn' /\ AcksTyped'
    BY <1>1, OutOfDate
<1>7. WithoutHost' /\ MenuInDeck' /\ LockIsOwed' /\ PlaceIsKept'
    BY <1>0, <1>1 DEF WithoutHost, MenuInDeck, LockIsOwed, PlaceIsKept, Inv
<1>8. QED
    BY <1>5, <1>6, <1>7 DEF Inv

(* Each gesture, edit and answer.                                          *)
LEMMA InvStep == Inv /\ [Next]_vars => Inv'
<1> SUFFICES ASSUME Inv, [Next]_vars PROVE Inv'
    OBVIOUS
<1>0. TypeOK /\ WithoutHost /\ MenuInDeck /\ Exclusive
    BY DEF Inv, Fresh
<1>f. Fresh'
    BY FreshStep DEF Inv
<1>1. /\ GoodDeck(slides) /\ Len(slides) \in Nat /\ Len(slides) >= 1
      /\ Len(slides) <= Cardinality(Slides) /\ Cardinality(Slides) \in Nat
      /\ DOMAIN slides = 1..Len(slides) /\ \A i \in DOMAIN slides : slides[i] \in Slides
      /\ shown \in Slides
    BY <1>0, TypedDeck DEF TypeOK
<1>2. CASE Navigate
    <2>1. PICK i \in DOMAIN slides : GoTo(i)
        BY <1>2 DEF Navigate, Advance, Jump, NextSlide
    <2>2. /\ UNCHANGED <<hosted, slides, skipped, host, edits, inPlace, dragFrom>>
          /\ menu' = menu \/ menu' = NoMenu
        BY <1>2 DEF Navigate, Advance, Jump, Key, Tap, Button, Script
    <2>3. index' \in DOMAIN slides /\ shown' \in Slides
        BY <1>1, <2>1 DEF GoTo
    <2>4. QED
        BY <1>f, <2>2, <2>3, SameDeckInv
<1>3. ASSUME NEW i \in DOMAIN slides, 
             \/ Click(i) \/ ToggleClick(i) \/ RangeClick(i)
             \/ OpenMenu(i) \/ KeyDelete(i) \/ DragStart(i)
      PROVE  Inv'
    <2>1. UNCHANGED <<hosted, slides, skipped, host, edits, inPlace>>
        BY <1>3 DEF Click, ToggleClick, RangeClick, OpenMenu, KeyDelete, DragStart
    <2>2. index' = index \/ index' \in DOMAIN slides
        BY <1>3 DEF Click, ToggleClick, RangeClick, OpenMenu, KeyDelete, DragStart, GoTo
    <2>3. shown' \in Slides
        BY <1>1, <1>3
           DEF Click, ToggleClick, RangeClick, OpenMenu, KeyDelete, DragStart, GoTo
    <2>4. menu' = menu \/ menu' = NoMenu \/ menu'.at \in DOMAIN slides
        <3>1. OpenMenu(i) => menu'.at = i
            BY DEF OpenMenu
        <3>2. QED
            BY <1>3, <3>1 DEF Click, ToggleClick, RangeClick, KeyDelete, DragStart
    <2>5. dragFrom' = dragFrom \/ dragFrom' \in DOMAIN slides
        BY <1>3 DEF Click, ToggleClick, RangeClick, OpenMenu, KeyDelete, DragStart
    <2>6. QED
        BY <1>f, <2>1, <2>2, <2>3, <2>4, <2>5, SameDeckInv
<1>4. CASE Escape \/ MenuDelete \/ CancelDelete \/ DragEnd
    <2>1. UNCHANGED <<hosted, slides, skipped, index, shown, host, edits, inPlace>>
        BY <1>4 DEF Escape, MenuDelete, CancelDelete, DragEnd
    <2>2. menu' = menu \/ menu' = NoMenu
        BY <1>4 DEF Escape, MenuDelete, CancelDelete, DragEnd
    <2>3. dragFrom' = dragFrom \/ dragFrom' = 0
        BY <1>4 DEF Escape, MenuDelete, CancelDelete, DragEnd
    <2>4. QED
        BY <1>f, <1>1, <2>1, <2>2, <2>3, SameDeckInv
<1>5. ASSUME NEW i \in DOMAIN slides, NEW lower \in BOOLEAN, Drop(i, lower) PROVE Inv'
    <2>1. PICK to : to = IF dragFrom < (IF lower THEN i + 1 ELSE i)
                         THEN (IF lower THEN i + 1 ELSE i) - 1
                         ELSE IF lower THEN i + 1 ELSE i
        OBVIOUS
    <2>2. /\ dragFrom # 0 /\ dragFrom' = 0 /\ UNCHANGED <<hosted, menu, confirm>>
          /\ \/ NoEdit
             \/ /\ to \in DOMAIN slides
                /\ Edit("move", {dragFrom} \intersect DOMAIN slides, to,
                        IndexAfterMove(index, dragFrom, to))
        BY <1>5, <2>1 DEF Drop
    <2>3. CASE NoEdit
        BY <1>f, <1>1, <2>2, <2>3, SameDeckInv DEF NoEdit
    <2>4. CASE ~NoEdit
        <3>1. dragFrom \in 1..Cardinality(Slides)
            BY <1>0, <1>1, <2>2 DEF TypeOK
        <3>2. ~hosted => {dragFrom} \intersect DOMAIN slides # {}
            BY <1>0, <1>1, <3>1 DEF WithoutHost
        <3>3. Meant("move", {dragFrom} \intersect DOMAIN slides, to,
                    IndexAfterMove(index, dragFrom, to))
            BY <2>2, <2>4, <3>1, <3>2 DEF Meant
        <3>4. QED
            BY <1>f, <2>2, <2>4, <3>3, EditKeepsInv
    <2>5. QED
        BY <2>3, <2>4
<1>6. CASE ConfirmDelete
    <2>1. PICK list : list = Positions(confirm)
        OBVIOUS
    <2>2. /\ confirm # {} /\ menu' = NoMenu /\ UNCHANGED <<hosted, dragFrom>>
          /\ \/ NoEdit
             \/ /\ list # {} /\ ~(Cardinality(list) >= Len(slides))
                /\ Edit("remove", list, 0, RemovalIndex(list))
        BY <1>6, <2>1 DEF ConfirmDelete, RemovalIndex
    <2>3. dragFrom' = 0
        BY <1>0, <2>2 DEF Exclusive
    <2>4. CASE NoEdit
        BY <1>f, <1>1, <2>2, <2>4, SameDeckInv DEF NoEdit
    <2>5. CASE ~NoEdit
        <3>1. list \subseteq DOMAIN slides
            BY <2>1 DEF Positions
        <3>2. Cardinality(list) \in Nat
            BY <1>1, <3>1, PositionsFinite
        <3>3. Meant("remove", list, 0, RemovalIndex(list))
            BY <1>1, <2>2, <2>5, <3>1, <3>2 DEF Meant
        <3>4. QED
            BY <1>f, <2>2, <2>3, <2>5, <3>3, EditKeepsInv
    <2>6. QED
        BY <2>2, <2>4, <2>5
<1>7. CASE MenuSkip \/ MenuDuplicate \/ \E d \in {-1, 1} : MenuMove(d)
    <2>1. FromMenu
        BY <1>7 DEF MenuSkip, MenuDuplicate, MenuMove
    <2>2. menu' = NoMenu /\ dragFrom' = 0 /\ UNCHANGED hosted
        BY <2>1 DEF FromMenu, Free
    <2>3. PICK i \in DOMAIN slides : menu.at = i
        BY <1>0, <2>1 DEF FromMenu, MenuInDeck
    <2>4. CASE MenuSkip
        <3>1. Edit("toggleSkip", {i}, 0, index)
            BY <2>3, <2>4 DEF MenuSkip
        <3>2. Meant("toggleSkip", {i}, 0, index)
            BY DEF Meant
        <3>3. QED
            BY <1>f, <2>2, <3>1, <3>2, EditKeepsInv
    <2>5. CASE MenuDuplicate
        <3>1. Edit("duplicate", {i}, 0, i + 1)
            BY <2>3, <2>5 DEF MenuDuplicate
        <3>2. Meant("duplicate", {i}, 0, i + 1)
            BY DEF Meant
        <3>3. QED
            BY <1>f, <2>2, <3>1, <3>2, EditKeepsInv
    <2>6. ASSUME NEW d \in {-1, 1}, MenuMove(d) PROVE Inv'
        <3>1. i + d \in DOMAIN slides /\ Edit("move", {i}, i + d, IndexAfterMove(index, i, i + d))
            BY <2>3, <2>6 DEF MenuMove
        <3>2. i \in 1..Cardinality(Slides) /\ {i} = {i} \intersect DOMAIN slides
            BY <1>1
        <3>3. Meant("move", {i}, i + d, IndexAfterMove(index, i, i + d))
            BY <3>1, <3>2 DEF Meant
        <3>4. QED
            BY <1>f, <2>2, <3>1, <3>3, EditKeepsInv
    <2>7. QED
        BY <1>7, <2>4, <2>5, <2>6
<1>8. CASE HostAnswers
    BY <1>f, <1>8, HostAcksInv, HostAppliesInv, HostRefusesInv DEF HostAnswers
<1>9. CASE Acknowledge \/ AckLost
    BY <1>f, <1>9, AcknowledgeInv, AckLostInv
<1>10. CASE OthersEdit \/ OthersSkip
    BY <1>f, <1>10, OthersEditInv, OthersSkipInv
<1>11. CASE UNCHANGED vars
    BY <1>f, <1>1, <1>11, SameDeckInv DEF vars, rail
<1>12. QED
    BY <1>2, <1>3, <1>4, <1>5, <1>6, <1>7, <1>8, <1>9, <1>10, <1>11 DEF Next, Rail

(* Every reachable state of every deck is well-formed: no slide is lost or *)
(* shown twice, and no index the rail keeps is out of what it may be.      *)
THEOREM TypeCorrect == Spec => []TypeOK
<1>1. Inv => TypeOK
    BY DEF Inv
<1>2. QED
    BY <1>1, InvInit, InvStep, PTL DEF Spec

(* In every order of gestures, edits, answers and edits of others, in a    *)
(* deck of any length, with a host or without: an edit leaves on screen    *)
(* the slide that was there, its neighbour if that one was deleted, or the *)
(* copy; one the host refuses leaves the reader where he was.  With a host *)
(* this is said of an edit that nothing interfered with (Undisturbed).     *)
THEOREM PlaceStaysKept == Spec => []PlaceIsKept
<1>1. Inv => PlaceIsKept
    BY DEF Inv
<1>2. QED
    BY <1>1, InvInit, InvStep, PTL DEF Spec

(* _railLock: however many operations and answers are under way, and       *)
(* whichever answers are lost, a locked rail waits for an operation that   *)
(* locks it and that the host has not processed, or for the refusal of     *)
(* one, unless that refusal is what was lost.  So a lost acknowledgement   *)
(* of an edit that is made never leaves the rail locked (js:1383-1385).    *)
THEOREM LocksAreOwed == Spec => []LockIsOwed
<1>1. Inv => LockIsOwed
    BY DEF Inv
<1>2. QED
    BY <1>1, InvInit, InvStep, PTL DEF Spec
=============================================================================
