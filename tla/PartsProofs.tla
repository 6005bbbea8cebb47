---------------------------- MODULE PartsProofs ----------------------------
(* Proofs about the parts that share no state, in MCParts: the login       *)
(* limiter, the overlay, the rail's room, the numbers and the thumbnails   *)
(* of the slide deck, and the cart of the mock-up shop, for any threads    *)
(* and limit, deck and marks, widths, tabs and products.                   *)
(* Each part has an invariant of its own, inductive for its own steps; the *)
(* steps of the others leave its variables as they are.                    *)
EXTENDS MCParts, FiniteSetTheorems, SequenceTheorems, TLAPS

-----------------------------------------------------------------------------
(* The login limiter.                                                      *)

(* What Bounded returns is a count of the model, and no attempt is lost:   *)
(* 0 only for 0, and 1 only for 1, since the bound is above the limit.     *)
LEMMA BoundedCounts ==
    ASSUME NEW n \in Nat
    PROVE  /\ Bounded(n) \in 0..Ceiling
           /\ Bounded(n) = 0 => n = 0
           /\ n = 1 => Bounded(n) = 1
BY LimiterConstants DEF Bounded

(* The flags and the numbers of TypeOK, each with the backend that suits   *)
(* it.                                                                     *)
Flags == ttl \in BOOLEAN /\ crashed \in BOOLEAN

Counts ==
    /\ count \in 0..Ceiling /\ (ttl => count > 0)
    /\ step \in [Threads -> {"idle", "counted", "allowed", "refused"}]
    /\ number \in [Threads -> 0..Ceiling]
    /\ failures \in 0..Ceiling

LEMMA TypeParts == TypeOK <=> Flags /\ Counts
BY Zenon DEF TypeOK, Flags, Counts

LEMMA InitTypeOK == Init => TypeOK
<1>1. Init => Flags
    BY Zenon DEF Init, Flags
<1>2. Init => Counts
    BY LimiterConstants DEF Init, Counts
<1>3. QED
    BY <1>1, <1>2, TypeParts

LEMMA NextFlags == Flags /\ [Next]_vars => Flags'
BY Zenon DEF Flags, Next, vars, key, Expire, Forget, Increment, Decide, Crash, Refuse,
             Fail, Succeed

LEMMA NextCounts == Counts /\ [Next]_vars => Counts'
<1> SUFFICES ASSUME Counts, [Next]_vars PROVE Counts'
    OBVIOUS
<1> USE LimiterConstants DEF Counts
<1>1. CASE Expire
    BY <1>1 DEF Expire, Forget
<1>2. ASSUME NEW t \in Threads, Increment(t) PROVE Counts'
    <2>1. count' \in 0..Ceiling /\ count' > 0
        BY <1>2, BoundedCounts DEF Increment
    <2>2. QED
        BY <1>2, <2>1 DEF Increment, Goto
<1>3. ASSUME NEW t \in Threads, Decide(t) PROVE Counts'
    BY <1>3 DEF Decide, Goto
<1>4. ASSUME NEW t \in Threads, Crash(t) PROVE Counts'
    BY <1>4 DEF Crash, Goto, key
<1>5. ASSUME NEW t \in Threads, Refuse(t) PROVE Counts'
    BY <1>5 DEF Refuse, Goto, key
<1>6. ASSUME NEW t \in Threads, Fail(t) PROVE Counts'
    <2>1. failures' \in 0..Ceiling
        BY <1>6, BoundedCounts DEF Fail
    <2>2. QED
        BY <1>6, <2>1 DEF Fail, Goto, key
<1>7. ASSUME NEW t \in Threads, Succeed(t) PROVE Counts'
    BY <1>7 DEF Succeed, Goto, Forget
<1>8. CASE UNCHANGED vars
    BY <1>8 DEF vars, key
<1>9. QED
    BY <1>1, <1>2, <1>3, <1>4, <1>5, <1>6, <1>7, <1>8 DEF Next

LEMMA NextTypeOK == TypeOK /\ [Next]_vars => TypeOK'
<1>1. Flags' /\ Counts' => TypeOK'
    BY Zenon DEF TypeOK, Flags, Counts
<1>2. QED
    BY <1>1, TypeParts, NextFlags, NextCounts

(* The limiter's counter, its time to live and the requests keep their     *)
(* types: a time to live is that of a key which exists.                    *)
THEOREM TypeCorrect == Spec => []TypeOK
BY InitTypeOK, NextTypeOK, PTL DEF Spec

(* With TypeOK the property is inductive: the request whose INCR created   *)
(* the key owes it its EXPIRE until it has sent it or crashed.             *)
LEMMA NextWillExpire ==
    TypeOK /\ LockWillExpire /\ [Next]_vars => LockWillExpire'
<1> SUFFICES ASSUME TypeOK, LockWillExpire, [Next]_vars, count' > 0
             PROVE  ttl' \/ crashed' \/ \E t \in Threads : Owes(t)'
    BY DEF LockWillExpire
<1> USE LimiterConstants DEF TypeOK, LockWillExpire
<1>1. CASE Expire
    BY <1>1 DEF Expire, Forget
<1>2. ASSUME NEW t \in Threads, Increment(t)
      PROVE  ttl' \/ crashed' \/ \E u \in Threads : Owes(u)'
    <2>1. CASE count = 0
        <3>1. number'[t] = 1 /\ step'[t] = "counted"
            BY <1>2, <2>1, BoundedCounts DEF Increment, Goto
        <3>2. QED
            BY <3>1 DEF Owes
    <2>2. CASE count > 0
        <3>1. ASSUME NEW u \in Threads, Owes(u) PROVE Owes(u)'
            BY <1>2, <3>1 DEF Increment, Goto, Owes
        <3>2. QED
            BY <1>2, <2>2, <3>1 DEF Increment
    <2>3. QED
        BY <2>1, <2>2
<1>3. ASSUME NEW t \in Threads, Decide(t)
      PROVE  ttl' \/ crashed' \/ \E u \in Threads : Owes(u)'
    <2>1. CASE Owes(t)
        BY <1>3, <2>1 DEF Decide, Owes, OpensWindow
    <2>2. CASE ~Owes(t)
        <3>1. ASSUME NEW u \in Threads, Owes(u) PROVE Owes(u)'
            BY <1>3, <2>2, <3>1 DEF Decide, Goto, Owes
        <3>2. QED
            BY <1>3, <3>1 DEF Decide
    <2>3. QED
        BY <2>1, <2>2
<1>4. ASSUME NEW t \in Threads, Crash(t)
      PROVE  ttl' \/ crashed' \/ \E u \in Threads : Owes(u)'
    <2>1. ASSUME NEW u \in Threads \ {t}, Owes(u) PROVE Owes(u)'
        BY <1>4, <2>1 DEF Crash, Goto, Owes
    <2>2. CASE \E u \in Threads \ {t} : Owes(u)
        BY <2>1, <2>2
    <2>3. CASE ~\E u \in Threads \ {t} : Owes(u)
        BY <1>4, <2>3 DEF Crash, key
    <2>4. QED
        BY <2>2, <2>3
<1>5. ASSUME NEW t \in Threads, Refuse(t) \/ Fail(t)
      PROVE  ttl' \/ crashed' \/ \E u \in Threads : Owes(u)'
    <2>1. ASSUME NEW u \in Threads, Owes(u) PROVE Owes(u)'
        BY <1>5, <2>1 DEF Refuse, Fail, Goto, Owes
    <2>2. QED
        BY <1>5, <2>1 DEF Refuse, Fail, key
<1>6. ASSUME NEW t \in Threads, Succeed(t)
      PROVE  ttl' \/ crashed' \/ \E u \in Threads : Owes(u)'
    BY <1>6 DEF Succeed, Forget
<1>7. CASE UNCHANGED vars
    BY <1>7 DEF vars, key, Owes
<1>8. QED
    BY <1>1, <1>2, <1>3, <1>4, <1>5, <1>6, <1>7 DEF Next

(* However many requests count, succeed, fail, crash and see the key       *)
(* expire: a counter without a time to live is about to be given one by    *)
(* the request that owes it, or a crash before EXPIRE took it away.        *)
THEOREM LocksWillExpire == Spec => []LockWillExpire
<1>1. Init => LockWillExpire
    BY DEF Init, LockWillExpire
<1>2. QED
    BY <1>1, NextWillExpire, TypeCorrect, PTL DEF Spec
-----------------------------------------------------------------------------
(* The overlay.                                                            *)

(* Who holds the overlay is there, and called it: what _flashOverlay needs *)
(* when the pointer or the focus leaves, since it shows the overlay again. *)
HoldersCalled ==
    /\ hover => over /\ summoned
    /\ pin => focus # "none" /\ summoned

Held == Overlay!TypeOK /\ HoldersCalled /\ OverlayIsHeld

LEMMA OverlayInit == Overlay!Init => Held
BY Zenon DEF Overlay!Init, Held, Overlay!TypeOK, HoldersCalled, OverlayIsHeld,
             Overlay!AudienceSeesNoChrome, Overlay!UntimedIsHeld

LEMMA OverlayStep == Held /\ [Overlay!Next]_overlayVars => Held'
<1> SUFFICES ASSUME Held, [Overlay!Next]_overlayVars PROVE Held'
    OBVIOUS
<1> USE DEF Held, Overlay!TypeOK, HoldersCalled, OverlayIsHeld,
            Overlay!AudienceSeesNoChrome, Overlay!UntimedIsHeld, Overlay!Flash, Overlay!user
<1>1. CASE Overlay!Navigate
    BY <1>1 DEF Overlay!Navigate
<1>2. CASE Overlay!MouseMove
    BY <1>2 DEF Overlay!MouseMove
<1>3. CASE Overlay!MouseEnter
    BY <1>3 DEF Overlay!MouseEnter
<1>4. CASE Overlay!MouseLeave
    BY <1>4 DEF Overlay!MouseLeave
<1>5. ASSUME NEW how \in {"click", "key"}, Overlay!FocusIn(how) PROVE Held'
    BY <1>5 DEF Overlay!FocusIn
<1>6. CASE Overlay!FocusOut
    BY <1>6 DEF Overlay!FocusOut
<1>7. CASE Overlay!HideTimer
    BY <1>7 DEF Overlay!HideTimer
<1>8. ASSUME NEW on \in BOOLEAN, Overlay!Present(on) PROVE Held'
    BY Zenon, <1>8 DEF Overlay!Present
<1>9. CASE Overlay!ShowNotice \/ Overlay!NoticeTimer
    <2>1. CASE Overlay!ShowNotice
        BY <2>1 DEF Overlay!ShowNotice
    <2>2. CASE Overlay!NoticeTimer
        BY <2>2 DEF Overlay!NoticeTimer
    <2>3. QED
        BY <1>9, <2>1, <2>2
<1>10. CASE UNCHANGED overlayVars
    BY <1>10 DEF overlayVars
<1>11. QED
    BY <1>1, <1>2, <1>3, <1>4, <1>5, <1>6, <1>7, <1>8, <1>9, <1>10 DEF Overlay!Next

-----------------------------------------------------------------------------
(* The room of the rail.                                                   *)

(* The attributes on the rail follow the modes; the left edge of the stage *)
(* was computed from the present state.  The flags and the sizes apart,    *)
(* each with the backend that suits it.                                    *)
RailFlags ==
    /\ noRail \in BOOLEAN /\ noScale \in BOOLEAN /\ narrow \in BOOLEAN
    /\ resized \in BOOLEAN /\ enabled \in BOOLEAN /\ wanted \in BOOLEAN
    /\ stored \in BOOLEAN /\ presenting \in BOOLEAN /\ preview \in BOOLEAN
    /\ gone \in BOOLEAN /\ slid \in BOOLEAN /\ raf \in BOOLEAN
    /\ surface \in {"none", "menu", "dialog"}
    /\ Rail!ShownIsNotEdited
    /\ gone = (~enabled \/ presenting \/ preview)
    /\ slid = ~wanted

RailSizes ==
    /\ design \in Design
    /\ railPx \in 120..360 /\ left \in {0} \union 120..360
    /\ scale \in {<<0, 1>>} \union ((120..360) \X Design)
    /\ ~resized => left = Rail!RailWidth
    /\ Rail!ThumbsFitRail

Roomy == RailFlags /\ RailSizes

LEMMA RoomyParts == Roomy => Rail!TypeOK /\ RailFollowsModes
<1> SUFFICES ASSUME Roomy PROVE Rail!TypeOK /\ RailFollowsModes
    OBVIOUS
<1>1. Rail!TypeOK
    <2>1. {noRail, noScale, narrow, resized, enabled, wanted, stored, presenting,
           preview, gone, slid, raf} \subseteq BOOLEAN
        BY Zenon DEF Roomy, RailFlags
    <2>2. QED
        BY Zenon, <2>1 DEF Roomy, RailFlags, RailSizes, Rail!TypeOK
<1>2. Rail!StageFitsRail
    BY DEF Roomy, RailFlags, RailSizes, Rail!StageFitsRail, Rail!RailShown, Rail!RailWidth
<1>3. QED
    BY <1>1, <1>2 DEF Roomy, RailFlags, RailSizes, RailFollowsModes

LEMMA RailInit == Rail!Init => Roomy
<1> SUFFICES ASSUME Rail!Init PROVE Roomy
    OBVIOUS
<1>1. RailFlags
    BY Zenon DEF Rail!Init, RailFlags, Rail!ShownIsNotEdited
<1>2. RailSizes
    BY <1>1 DEF Rail!Init, RailFlags, RailSizes, Rail!RailWidth, Rail!ThumbsFitRail
<1>3. QED
    BY <1>1, <1>2 DEF Roomy

LEMMA RailFlagsStep == RailFlags /\ [Rail!Next]_railVars => RailFlags'
<1> SUFFICES ASSUME RailFlags, [Rail!Next]_railVars PROVE RailFlags'
    OBVIOUS
<1> USE DEF RailFlags, Rail!ShownIsNotEdited, Rail!page, Rail!modes, Rail!SyncRailHidden
<1>1. CASE Rail!AttributeChanges \/ Rail!WindowCrosses \/ Rail!OnResize \/ Rail!Frame
    <2>1. CASE Rail!AttributeChanges
        BY <2>1 DEF Rail!AttributeChanges
    <2>2. CASE Rail!WindowCrosses
        BY <2>2 DEF Rail!WindowCrosses
    <2>3. CASE Rail!OnResize
        BY <2>3 DEF Rail!OnResize
    <2>4. CASE Rail!Frame
        BY <2>4 DEF Rail!Frame
    <2>5. QED
        BY <1>1, <2>1, <2>2, <2>3, <2>4
<1>2. ASSUME NEW px \in Pointer, Rail!SetRailWidth(px) PROVE RailFlags'
    BY Zenon, <1>2 DEF Rail!SetRailWidth
<1>3. ASSUME NEW on \in BOOLEAN,
             Rail!Presenting(on) \/ Rail!Preview(on) \/ Rail!RailVisible(on)
      PROVE  RailFlags'
    <2>1. CASE Rail!Presenting(on)
        BY <2>1 DEF Rail!Presenting
    <2>2. CASE Rail!Preview(on)
        BY <2>2 DEF Rail!Preview
    <2>3. CASE Rail!RailVisible(on)
        BY <2>3 DEF Rail!RailVisible
    <2>4. QED
        BY <1>3, <2>1, <2>2, <2>3
<1>4. CASE Rail!EnableRail
    BY Zenon, <1>4 DEF Rail!EnableRail
<1>5. ASSUME NEW s \in {"menu", "dialog"}, Rail!OpenSurface(s) PROVE RailFlags'
    BY Zenon, <1>5 DEF Rail!OpenSurface, Rail!RailShown
<1>6. CASE Rail!CloseSurface
    BY Zenon, <1>6 DEF Rail!CloseSurface
<1>7. CASE UNCHANGED railVars
    BY Zenon, <1>7 DEF railVars
<1>8. QED
    BY <1>1, <1>2, <1>3, <1>4, <1>5, <1>6, <1>7 DEF Rail!Next, Rail!OnMessage

(* What _fit and _scaleThumbs leave is in range.                           *)
LEMMA RailWidthType == railPx \in 120..360 => Rail!RailWidth \in {0} \union 120..360
BY DEF Rail!RailWidth

LEMMA RailSizesStep == Roomy /\ [Rail!Next]_railVars => RailSizes'
<1> SUFFICES ASSUME Roomy, [Rail!Next]_railVars PROVE RailSizes'
    OBVIOUS
<1>0. RailFlags /\ RailFlags'
    BY RailFlagsStep DEF Roomy
<1> USE PartsConstants
    DEF Roomy, RailSizes, Rail!ThumbsFitRail, Rail!RailShown, Rail!RailWidth,
        Rail!page, Rail!modes, Rail!Fit, Rail!ScaleThumbs, Rail!SyncRailHidden
<1>1. CASE Rail!AttributeChanges
    BY <1>1 DEF Rail!AttributeChanges
<1>2. CASE Rail!WindowCrosses
    BY <1>2 DEF Rail!WindowCrosses
<1>3. CASE Rail!OnResize
    BY <1>3 DEF Rail!OnResize
<1>4. CASE Rail!Frame
    BY <1>4 DEF Rail!Frame
<1>5. ASSUME NEW px \in Pointer, Rail!SetRailWidth(px) PROVE RailSizes'
    <2>1. railPx' \in 120..360
        BY <1>5 DEF Rail!SetRailWidth
    <2>2. QED
        BY <1>5, <2>1 DEF Rail!SetRailWidth
<1>6. ASSUME NEW on \in BOOLEAN, Rail!Presenting(on) PROVE RailSizes'
    BY <1>6 DEF Rail!Presenting
<1>7. ASSUME NEW on \in BOOLEAN, Rail!Preview(on) PROVE RailSizes'
    BY <1>7 DEF Rail!Preview
<1>8. ASSUME NEW on \in BOOLEAN, Rail!RailVisible(on) PROVE RailSizes'
    BY <1>8 DEF Rail!RailVisible
<1>9. CASE Rail!EnableRail
    BY <1>9 DEF Rail!EnableRail
<1>10. ASSUME NEW s \in {"menu", "dialog"}, Rail!OpenSurface(s) PROVE RailSizes'
    BY <1>10 DEF Rail!OpenSurface
<1>11. CASE Rail!CloseSurface
    BY <1>11 DEF Rail!CloseSurface
<1>12. CASE UNCHANGED railVars
    BY <1>12 DEF railVars
<1>13. QED
    BY <1>1, <1>2, <1>3, <1>4, <1>5, <1>6, <1>7, <1>8, <1>9, <1>10, <1>11, <1>12
       DEF Rail!Next, Rail!OnMessage

LEMMA RailStep == Roomy /\ [Rail!Next]_railVars => Roomy'
BY RailFlagsStep, RailSizesStep DEF Roomy

-----------------------------------------------------------------------------
(* The cart of the shop.                                                   *)

(* A tab that is about to write and was not overtaken has read the cart as  *)
(* it is.                                                                   *)
ReadsFresh ==
    \A t \in Tabs : phase[t] = "write" /\ ~overtaken[t] => read[t] = cart

(* Only a page whose effects have run has a task under way with the cart.   *)
BusyIsReady == \A t \in Tabs : ready[t] \/ phase[t] = "idle"

Told == Store!TypeOK /\ StaleIsExplained /\ ReadsFresh /\ BusyIsReady

(* What the pages write is a cart: an added quantity is within the bound,   *)
(* and so is one that QtyStepper passes on.                                 *)
LEMMA StoreCarts ==
    /\ Store!Empty \in Store!Carts
    /\ \A n \in 0..CartCeiling, q \in Nat \ {0} :
           Store!Plus(n, q) \in 0..CartCeiling /\ Store!Plus(n, q) >= n
    /\ \A v \in 1..CartCeiling : Store!Picked(v) \subseteq 1..CartCeiling
    /\ \A c \in Store!Carts, p \in Products, n \in 0..CartCeiling :
           /\ c[p] \in 0..CartCeiling
           /\ [c EXCEPT ![p] = n] \in Store!Carts
<1>1. CartCeiling \in Nat /\ Most \in 1..CartCeiling
    BY PartsConstants
<1>2. Store!Empty \in Store!Carts
    BY <1>1 DEF Store!Empty, Store!Carts
<1>3. ASSUME NEW n \in 0..CartCeiling, NEW q \in Nat \ {0}
      PROVE  Store!Plus(n, q) \in 0..CartCeiling /\ Store!Plus(n, q) >= n
    BY <1>1, <1>3 DEF Store!Plus
<1>4. ASSUME NEW v \in 1..CartCeiling PROVE Store!Picked(v) \subseteq 1..CartCeiling
    BY <1>1 DEF Store!Picked
<1>5. ASSUME NEW c \in Store!Carts, NEW p \in Products, NEW n \in 0..CartCeiling
      PROVE  c[p] \in 0..CartCeiling /\ [c EXCEPT ![p] = n] \in Store!Carts
    BY DEF Store!Carts
<1>6. QED
    BY <1>2, <1>3, <1>4, <1>5

(* A write of localStorage by a tab that has read, or that shows no cart:   *)
(* the pages that show it are told, and the tabs that have read overtaken.  *)
LEMMA StoreTells ==
    ASSUME Told, NEW t \in Tabs, NEW c \in Store!Carts, Store!Store(t, c), UNCHANGED page
    PROVE  /\ cart' \in Store!Carts
           /\ due' \in [Tabs -> BOOLEAN] /\ overtaken' \in [Tabs -> BOOLEAN]
           /\ \A u \in Tabs : u # t /\ Store!Shows(u)' =>
                 \/ shown[u] = cart' \/ due'[u] \/ missed[u] \/ phase[u] = "show"
           /\ \A u \in Tabs : u # t /\ phase[u] = "write" /\ ~overtaken'[u] => read[u] = cart'
<1> USE DEF Told, Store!TypeOK, Store!Store
<1>1. cart' \in Store!Carts
    OBVIOUS
<1>2. due' \in [Tabs -> BOOLEAN] /\ overtaken' \in [Tabs -> BOOLEAN]
    BY Zenon
<1>3. ASSUME NEW u \in Tabs, u # t, Store!Shows(u)'
      PROVE  shown[u] = cart' \/ due'[u] \/ missed[u] \/ phase[u] = "show"
    <2>1. Store!Shows(u) /\ (shown[u] = cart \/ due[u] \/ missed[u] \/ phase[u] = "show")
        BY <1>3 DEF StaleIsExplained, Store!StaleIsExplained, Store!Shows
    <2>2. due'[u] = (due[u] \/ (u # t /\ Store!Shows(u) /\ c # cart))
        OBVIOUS
    <2>3. QED
        BY <1>3, <2>1, <2>2
<1>4. ASSUME NEW u \in Tabs, u # t, phase[u] = "write", ~overtaken'[u] PROVE read[u] = cart'
    <2>1. overtaken'[u] = (u # t /\ phase[u] = "write" /\ (overtaken[u] \/ c # cart))
        OBVIOUS
    <2>2. ~overtaken[u] /\ c = cart
        BY <1>4, <2>1
    <2>3. QED
        BY <1>4, <2>2 DEF ReadsFresh
<1>5. QED
    BY <1>1, <1>2, <1>3, <1>4

(* Cart.set keeps the invariant, whatever it writes.                        *)
LEMMA SetTells ==
    ASSUME Told, NEW t \in Tabs, NEW c \in Store!Carts, Store!Set(t, c),
           todo' \in [Tabs -> SUBSET Products]
    PROVE  Told'
<1>1. Store!Store(t, c) /\ UNCHANGED <<page, ready, shown, missed>>
    BY DEF Store!Set, Store!tabs
<1>2. /\ phase' = [phase EXCEPT ![t] = "show"]
      /\ read' = [read EXCEPT ![t] = Store!Empty]
    BY DEF Store!Set
<1>3. Store!TypeOK'
    BY <1>1, <1>2, StoreTells, StoreCarts DEF Told, Store!TypeOK
<1>4. StaleIsExplained'
    <2> SUFFICES ASSUME NEW u \in Tabs, Store!Shows(u)'
                 PROVE  (shown[u] = cart \/ due[u] \/ missed[u] \/ phase[u] = "show")'
        BY DEF StaleIsExplained, Store!StaleIsExplained
    <2>1. CASE u = t
        BY <1>2, <2>1 DEF Told, Store!TypeOK
    <2>2. CASE u # t
        BY <1>1, <1>2, <2>2, StoreTells DEF Told, Store!TypeOK
    <2>3. QED
        BY <2>1, <2>2
<1>5. ReadsFresh'
    <2> SUFFICES ASSUME NEW u \in Tabs, phase'[u] = "write", ~overtaken'[u]
                 PROVE  read'[u] = cart'
        BY DEF ReadsFresh
    <2>1. u # t
        BY <1>2 DEF Told, Store!TypeOK
    <2>2. phase[u] = "write" /\ read'[u] = read[u]
        BY <1>2, <2>1 DEF Told, Store!TypeOK
    <2>3. QED
        BY <1>1, <2>1, <2>2, StoreTells
<1>6. BusyIsReady'
    <2>1. phase[t] = "write"
        BY DEF Store!Set
    <2>2. QED
        BY <1>1, <1>2, <2>1 DEF Told, Store!TypeOK, BusyIsReady
<1>7. QED
    BY <1>3, <1>4, <1>5, <1>6 DEF Told

LEMMA StoreInit == Store!Init => Told
<1> SUFFICES ASSUME Store!Init PROVE Told
    OBVIOUS
<1>1. Store!TypeOK
    BY StoreCarts DEF Store!Init, Store!TypeOK, Store!Kinds
<1>2. StaleIsExplained /\ ReadsFresh /\ BusyIsReady
    BY DEF Store!Init, StaleIsExplained, Store!StaleIsExplained, Store!Shows, ReadsFresh,
           BusyIsReady
<1>3. QED
    BY <1>1, <1>2 DEF Told

(* What the operations of Cart write is a cart.                             *)
LEMMA OperationsTell ==
    ASSUME Told, NEW t \in Tabs, NEW p \in Products
    PROVE  /\ \A q \in 1..Most : Store!Add(t, p, q) => Told'
           /\ Store!AddDemo(t, p) => Told'
           /\ Store!Remove(t, p) => Told'
           /\ \A q \in Store!Picked(shown[t][p]) : Store!SetQty(t, p, q) => Told'
<1> CartCeiling \in Nat /\ 0 \in 0..CartCeiling
    BY PartsConstants
<1>a. /\ read[t] \in Store!Carts /\ shown[t] \in Store!Carts
      /\ todo \in [Tabs -> SUBSET Products]
    BY DEF Told, Store!TypeOK
<1>0. /\ read[t] \in Store!Carts /\ read[t][p] \in 0..CartCeiling
      /\ shown[t][p] \in 0..CartCeiling /\ CartCeiling \in Nat
      /\ todo \in [Tabs -> SUBSET Products]
    BY <1>a, StoreCarts
<1>1. ASSUME NEW q \in 1..Most, Store!Add(t, p, q) PROVE Told'
    <2>1. q \in Nat \ {0}
        BY PartsConstants
    <2>2. Store!Plus(read[t][p], q) \in 0..CartCeiling
        BY <1>0, <2>1, StoreCarts
    <2>3. [read[t] EXCEPT ![p] = Store!Plus(read[t][p], q)] \in Store!Carts
        BY <1>0, <2>2, StoreCarts
    <2>4. Store!Set(t, [read[t] EXCEPT ![p] = Store!Plus(read[t][p], q)]) /\ todo' = todo
        BY <1>1 DEF Store!Add
    <2>5. QED
        BY <1>0, <2>3, <2>4, SetTells
<1>2. ASSUME Store!AddDemo(t, p) PROVE Told'
    <2> DEFINE q == IF page[t] = "cart" /\ p = First THEN 2 ELSE 1
    <2>1. q \in Nat \ {0}
        OBVIOUS
    <2>2. /\ todo' = [todo EXCEPT ![t] = @ \ {p}]
          /\ Store!Set(t, [read[t] EXCEPT ![p] = Store!Plus(read[t][p], q)])
        BY <1>2 DEF Store!AddDemo
    <2> HIDE DEF q
    <2>3. Store!Plus(read[t][p], q) \in 0..CartCeiling
        BY <1>0, <2>1, StoreCarts
    <2>4. [read[t] EXCEPT ![p] = Store!Plus(read[t][p], q)] \in Store!Carts
        BY <1>0, <2>3, StoreCarts
    <2>5. todo' \in [Tabs -> SUBSET Products]
        BY <1>0, <2>2
    <2>6. QED
        BY <2>2, <2>4, <2>5, SetTells
<1>3. ASSUME Store!Remove(t, p) PROVE Told'
    <2>1. [read[t] EXCEPT ![p] = 0] \in Store!Carts
        BY <1>0, StoreCarts
    <2>2. Store!Set(t, [read[t] EXCEPT ![p] = 0]) /\ todo' = todo
        BY <1>3 DEF Store!Remove
    <2>3. QED
        BY <1>0, <2>1, <2>2, SetTells
<1>4. ASSUME NEW q \in Store!Picked(shown[t][p]), Store!SetQty(t, p, q) PROVE Told'
    <2>1. shown[t][p] \in 1..CartCeiling
        BY <1>0, <1>4 DEF Store!SetQty
    <2>2. q \in 0..CartCeiling
        BY <2>1, StoreCarts
    <2>3. [read[t] EXCEPT ![p] = q] \in Store!Carts
        BY <1>0, <2>2, StoreCarts
    <2>4. Store!Set(t, [read[t] EXCEPT ![p] = q]) /\ todo' = todo
        BY <1>4 DEF Store!SetQty
    <2>5. QED
        BY <1>0, <2>3, <2>4, SetTells
<1>5. QED
    BY <1>1, <1>2, <1>3, <1>4

(* What changes with the cart and the pages, without BusyIsReady.           *)
Core == Store!TypeOK /\ StaleIsExplained /\ ReadsFresh

LEMMA ToldIsCore == Told' => Core'
BY DEF Told, Core

LEMMA StoreReady == Told /\ [Store!Next]_storeVars => BusyIsReady'
<1> SUFFICES ASSUME Told, [Store!Next]_storeVars, NEW u \in Tabs
             PROVE  ready'[u] \/ phase'[u] = "idle"
    BY DEF BusyIsReady
<1> USE DEF Told, Store!TypeOK, Store!tabs, Store!task, BusyIsReady
<1>1. ASSUME NEW t \in Tabs, NEW k \in Store!Kinds, Store!Open(t, k)
      PROVE  ready'[u] \/ phase'[u] = "idle"
    BY <1>1 DEF Store!Open
<1>2. ASSUME NEW t \in Tabs, Store!Close(t) PROVE ready'[u] \/ phase'[u] = "idle"
    BY <1>2 DEF Store!Close
<1>3. ASSUME NEW t \in Tabs, Store!Effects(t) PROVE ready'[u] \/ phase'[u] = "idle"
    <2>1. ready' = [ready EXCEPT ![t] = TRUE] /\ (phase' = phase \/ phase' = [phase EXCEPT ![t] = "read"])
        BY <1>3 DEF Store!Effects
    <2>2. QED
        BY <2>1
<1>4. ASSUME NEW t \in Tabs, Store!Hear(t) PROVE ready'[u] \/ phase'[u] = "idle"
    BY <1>4 DEF Store!Hear
<1>5. ASSUME NEW t \in Tabs, Store!Get(t) PROVE ready'[u] \/ phase'[u] = "idle"
    BY <1>5 DEF Store!Get
<1>6. ASSUME NEW t \in Tabs, Store!Show(t) PROVE ready'[u] \/ phase'[u] = "idle"
    BY <1>6 DEF Store!Show
<1>7. ASSUME NEW t \in Tabs, NEW c, Store!Set(t, c) PROVE ready'[u] \/ phase'[u] = "idle"
    BY <1>7 DEF Store!Set
<1>8. ASSUME NEW t \in Tabs, Store!Work(t) PROVE ready'[u] \/ phase'[u] = "idle"
    <2>1. Store!Get(t) \/ Store!Show(t) \/ \E c : Store!Set(t, c)
        BY Zenon, <1>8
           DEF Store!Work, Store!AddDemo, Store!Remove, Store!Add, Store!SetQty
    <2>2. QED
        BY <1>5, <1>6, <1>7, <2>1
<1>9. CASE UNCHANGED storeVars
    BY <1>9 DEF storeVars
<1>10. QED
    BY <1>1, <1>2, <1>3, <1>4, <1>5, <1>6, <1>8, <1>9 DEF Store!Next

LEMMA StoreStep == Told /\ [Store!Next]_storeVars => Told'
<1> SUFFICES ASSUME Told, [Store!Next]_storeVars PROVE Told'
    OBVIOUS
<1> USE DEF Told, Core, Store!TypeOK, Store!tabs, Store!task
<1>0. BusyIsReady'
    BY StoreReady
<1>1. ASSUME NEW t \in Tabs, NEW k \in Store!Kinds, Store!Open(t, k) PROVE Core'
    <2>1. Store!TypeOK'
        BY <1>1, StoreCarts DEF Store!Open
    <2>2. StaleIsExplained' /\ ReadsFresh'
        BY <1>1 DEF Store!Open, StaleIsExplained, Store!StaleIsExplained, Store!Shows, ReadsFresh
    <2>3. QED
        BY <2>1, <2>2
<1>2. ASSUME NEW t \in Tabs, Store!Close(t) PROVE Core'
    <2>1. Store!TypeOK'
        BY <1>2, StoreCarts DEF Store!Close
    <2>2. StaleIsExplained' /\ ReadsFresh'
        BY <1>2 DEF Store!Close, StaleIsExplained, Store!StaleIsExplained, Store!Shows, ReadsFresh
    <2>3. QED
        BY <2>1, <2>2
<1>3. ASSUME NEW t \in Tabs, Store!Effects(t) PROVE Core'
    <2>1. UNCHANGED <<page, shown, missed, read>> /\ ready' \in [Tabs -> BOOLEAN]
        BY <1>3 DEF Store!Effects
    <2>2. CASE page[t] = "confirmed"
        <3>1. Store!Store(t, Store!Empty) /\ UNCHANGED <<todo, phase>>
            BY <1>3, <2>2 DEF Store!Effects
        <3>2. Store!TypeOK'
            BY <2>1, <3>1, StoreTells, StoreCarts
        <3>3. StaleIsExplained'
            <4> SUFFICES ASSUME NEW u \in Tabs, Store!Shows(u)'
                         PROVE  (shown[u] = cart \/ due[u] \/ missed[u] \/ phase[u] = "show")'
                BY DEF StaleIsExplained, Store!StaleIsExplained
            <4>1. u # t
                BY <2>1, <2>2 DEF Store!Shows
            <4>2. QED
                BY <2>1, <3>1, <4>1, StoreTells, StoreCarts
        <3>4. ReadsFresh'
            <4> SUFFICES ASSUME NEW u \in Tabs, phase[u] = "write", ~overtaken'[u]
                         PROVE  read[u] = cart'
                BY <2>1, <3>1 DEF ReadsFresh
            <4>1. CASE u # t
                BY <2>1, <3>1, <4>1, StoreTells, StoreCarts
            <4>2. CASE u = t
                BY <1>3, <4>2 DEF Store!Effects, BusyIsReady
            <4>3. QED
                BY <4>1, <4>2
        <3>5. QED
            BY <3>2, <3>3, <3>4
    <2>3. CASE page[t] # "confirmed"
        <3>1. UNCHANGED <<cart, due, overtaken>>
            BY <1>3, <2>3 DEF Store!Effects
        <3>2. CASE page[t] \in {"cart", "checkout"} /\ cart = Store!Empty
            <4>1. /\ todo' = [todo EXCEPT ![t] = Store!Demo(page[t])]
                  /\ phase' = [phase EXCEPT ![t] = "read"]
                BY <1>3, <3>2 DEF Store!Effects
            <4>2. todo' \in [Tabs -> SUBSET Products]
                BY <4>1 DEF Store!Demo
            <4>3. Store!TypeOK'
                BY <2>1, <3>1, <4>1, <4>2
            <4>4. StaleIsExplained'
                BY <1>3, <2>1, <3>1, <3>2, <4>1
                   DEF Store!Effects, StaleIsExplained, Store!StaleIsExplained, Store!Shows,
                       BusyIsReady
            <4>5. ReadsFresh'
                BY <2>1, <3>1, <4>1 DEF ReadsFresh
            <4>6. QED
                BY <4>3, <4>4, <4>5
        <3>3. CASE ~(page[t] \in {"cart", "checkout"} /\ cart = Store!Empty)
            <4>1. UNCHANGED <<todo, phase>>
                BY <1>3, <3>3 DEF Store!Effects
            <4>2. QED
                BY <2>1, <3>1, <4>1
                   DEF StaleIsExplained, Store!StaleIsExplained, Store!Shows, ReadsFresh
        <3>4. QED
            BY <3>2, <3>3
    <2>4. QED
        BY <2>2, <2>3
<1>4. ASSUME NEW t \in Tabs, Store!Hear(t) PROVE Core'
    <2>1. /\ UNCHANGED <<cart, page, ready, phase, todo, read, overtaken>>
          /\ due' \in [Tabs -> BOOLEAN]
        BY <1>4 DEF Store!Hear
    <2>2. shown' \in [Tabs -> Store!Carts] /\ missed' \in [Tabs -> BOOLEAN]
        <3>1. CASE ready[t]
            BY <1>4, <3>1 DEF Store!Hear
        <3>2. CASE ~ready[t]
            BY <1>4, <3>2 DEF Store!Hear
        <3>3. QED
            BY <3>1, <3>2
    <2>3. StaleIsExplained'
        BY <1>4 DEF Store!Hear, StaleIsExplained, Store!StaleIsExplained, Store!Shows
    <2>4. ReadsFresh'
        BY <2>1 DEF ReadsFresh
    <2>5. QED
        BY <2>1, <2>2, <2>3, <2>4
<1>5. ASSUME NEW t \in Tabs, Store!Get(t) PROVE Core'
    <2>1. Store!TypeOK'
        BY <1>5 DEF Store!Get
    <2>2. StaleIsExplained'
        BY <1>5 DEF Store!Get, StaleIsExplained, Store!StaleIsExplained, Store!Shows
    <2>3. ReadsFresh'
        BY <1>5 DEF Store!Get, ReadsFresh
    <2>4. QED
        BY <2>1, <2>2, <2>3
<1>6. ASSUME NEW t \in Tabs, Store!Show(t) PROVE Core'
    <2>1. Store!TypeOK'
        BY <1>6 DEF Store!Show
    <2>2. StaleIsExplained'
        BY <1>6 DEF Store!Show, StaleIsExplained, Store!StaleIsExplained, Store!Shows
    <2>3. ReadsFresh'
        BY <1>6 DEF Store!Show, ReadsFresh
    <2>4. QED
        BY <2>1, <2>2, <2>3
<1>7. ASSUME NEW t \in Tabs, Store!Work(t) PROVE Core'
    <2>1. \/ Store!Get(t) \/ Store!Show(t)
          \/ \E p \in Products :
                \/ Store!AddDemo(t, p) \/ Store!Remove(t, p)
                \/ \E q \in 1..Most : Store!Add(t, p, q)
                \/ \E q \in Store!Picked(shown[t][p]) : Store!SetQty(t, p, q)
        BY <1>7 DEF Store!Work
    <2>2. QED
        BY Zenon, <1>5, <1>6, <2>1, OperationsTell, ToldIsCore
<1>8. ASSUME UNCHANGED storeVars PROVE Core'
    BY <1>8 DEF storeVars, StaleIsExplained, Store!StaleIsExplained, Store!Shows, ReadsFresh
<1>9. Core'
    BY <1>1, <1>2, <1>3, <1>4, <1>5, <1>6, <1>7, <1>8 DEF Store!Next
<1>10. QED
    BY <1>0, <1>9

(* What LinesChangeOnPurpose says of one step and one line.                *)
Meant(p) ==
    cart'[p] # cart[p] =>
        \E t \in Tabs : Store!OnPurpose(t, p) \/ (overtaken[t] /\ Store!Set(t, cart'))

(* A tab that writes one line of what it has read either was overtaken or   *)
(* changes that line only, from what it is.                                 *)
LEMMA WritesOneLine ==
    ASSUME Told, NEW t \in Tabs, NEW r \in Products, NEW n \in 0..CartCeiling,
           Store!Set(t, [read[t] EXCEPT ![r] = n])
    PROVE  \/ overtaken[t] /\ Store!Set(t, cart')
           \/ /\ read[t] = cart /\ cart'[r] = n
              /\ \A p \in Products \ {r} : cart'[p] = cart[p]
<1>1. cart' = [read[t] EXCEPT ![r] = n] /\ phase[t] = "write"
    BY DEF Store!Set, Store!Store
<1>2. CASE overtaken[t]
    BY <1>1, <1>2
<1>3. CASE ~overtaken[t]
    <2>1. read[t] = cart /\ cart \in Store!Carts
        BY <1>1, <1>3 DEF Told, ReadsFresh, Store!TypeOK
    <2>2. QED
        BY <1>1, <2>1 DEF Store!Carts
<1>4. QED
    BY <1>2, <1>3

LEMMA StoreLines == Told /\ [Store!Next]_storeVars => \A p \in Products : Meant(p)
<1> SUFFICES ASSUME Told, [Store!Next]_storeVars, NEW p \in Products, cart'[p] # cart[p]
             PROVE  \E t \in Tabs :
                        Store!OnPurpose(t, p) \/ (overtaken[t] /\ Store!Set(t, cart'))
    BY DEF Meant
<1>0. /\ \A t \in Tabs, r \in Products :
            read[t][r] \in 0..CartCeiling /\ shown[t][r] \in 0..CartCeiling
      /\ cart[p] \in 0..CartCeiling /\ CartCeiling \in Nat
    <2>1. CartCeiling \in Nat /\ 0 \in 0..CartCeiling
        BY PartsConstants
    <2>2. cart \in Store!Carts /\ \A t \in Tabs : read[t] \in Store!Carts /\ shown[t] \in Store!Carts
        BY DEF Told, Store!TypeOK
    <2>3. \A c \in Store!Carts, r \in Products : c[r] \in 0..CartCeiling
        BY <2>1, StoreCarts
    <2>4. QED
        BY <2>1, <2>2, <2>3
<1>1. ASSUME NEW t \in Tabs, Store!Effects(t)
      PROVE  Store!OnPurpose(t, p)
    <2>1. CASE page[t] = "confirmed"
        BY <1>1, <2>1 DEF Store!OnPurpose
    <2>2. CASE page[t] # "confirmed"
        BY <1>1, <2>2 DEF Store!Effects
    <2>3. QED
        BY <2>1, <2>2
<1>2. ASSUME NEW t \in Tabs, NEW r \in Products, NEW q \in 1..Most, Store!Add(t, r, q)
      PROVE  Store!OnPurpose(t, p) \/ (overtaken[t] /\ Store!Set(t, cart'))
    <2>1. q \in Nat \ {0}
        BY PartsConstants
    <2>2. Store!Plus(read[t][r], q) \in 0..CartCeiling
        BY <1>0, <2>1, StoreCarts
    <2>3. Store!Set(t, [read[t] EXCEPT ![r] = Store!Plus(read[t][r], q)])
        BY <1>2 DEF Store!Add
    <2>4. CASE overtaken[t] /\ Store!Set(t, cart')
        BY <2>4
    <2>5. CASE /\ read[t] = cart /\ cart'[r] = Store!Plus(read[t][r], q)
               /\ \A s \in Products \ {r} : cart'[s] = cart[s]
        <3>1. r = p
            BY <2>5
        <3>2. cart'[p] = Store!Plus(cart[p], q)
            BY <2>5, <3>1
        <3>3. QED
            BY <1>2, <3>1, <3>2 DEF Store!OnPurpose
    <2>6. QED
        BY <2>2, <2>3, <2>4, <2>5, WritesOneLine
<1>3. ASSUME NEW t \in Tabs, NEW r \in Products, Store!AddDemo(t, r)
      PROVE  Store!OnPurpose(t, p) \/ (overtaken[t] /\ Store!Set(t, cart'))
    <2> DEFINE q == IF page[t] = "cart" /\ r = First THEN 2 ELSE 1
    <2>1. q \in Nat \ {0}
        OBVIOUS
    <2>2. Store!Set(t, [read[t] EXCEPT ![r] = Store!Plus(read[t][r], q)])
        BY <1>3 DEF Store!AddDemo
    <2> HIDE DEF q
    <2>3. Store!Plus(read[t][r], q) \in 0..CartCeiling /\ Store!Plus(read[t][r], q) >= read[t][r]
        BY <1>0, <2>1, StoreCarts
    <2>4. CASE overtaken[t] /\ Store!Set(t, cart')
        BY <2>4
    <2>5. CASE /\ read[t] = cart /\ cart'[r] = Store!Plus(read[t][r], q)
               /\ \A s \in Products \ {r} : cart'[s] = cart[s]
        <3>1. r = p
            BY <2>5
        <3>2. cart'[p] \in 0..CartCeiling /\ cart'[p] >= cart[p]
            BY <2>3, <2>5, <3>1
        <3>3. cart'[p] > cart[p]
            BY <1>0, <3>2
        <3>4. QED
            BY <1>3, <3>1, <3>3 DEF Store!OnPurpose
    <2>6. QED
        BY <2>2, <2>3, <2>4, <2>5, WritesOneLine
<1>4. ASSUME NEW t \in Tabs, NEW r \in Products, Store!Remove(t, r)
      PROVE  Store!OnPurpose(t, p) \/ (overtaken[t] /\ Store!Set(t, cart'))
    <2>1. Store!Set(t, [read[t] EXCEPT ![r] = 0]) /\ 0 \in 0..CartCeiling
        BY <1>0, <1>4 DEF Store!Remove
    <2>2. CASE overtaken[t] /\ Store!Set(t, cart')
        BY <2>2
    <2>3. CASE \A s \in Products \ {r} : cart'[s] = cart[s]
        <3>1. r = p
            BY <2>3
        <3>2. QED
            BY <1>4, <3>1 DEF Store!OnPurpose
    <2>4. QED
        BY <2>1, <2>2, <2>3, WritesOneLine
<1>5. ASSUME NEW t \in Tabs, NEW r \in Products, NEW q \in Store!Picked(shown[t][r]),
             Store!SetQty(t, r, q)
      PROVE  Store!OnPurpose(t, p) \/ (overtaken[t] /\ Store!Set(t, cart'))
    <2>1. shown[t][r] \in 1..CartCeiling /\ read[t][r] > 0
        BY <1>0, <1>5 DEF Store!SetQty
    <2>2. q \in 0..CartCeiling /\ Store!Set(t, [read[t] EXCEPT ![r] = q])
        BY <1>5, <2>1, StoreCarts DEF Store!SetQty
    <2>3. CASE overtaken[t] /\ Store!Set(t, cart')
        BY <2>3
    <2>4. CASE read[t] = cart /\ \A s \in Products \ {r} : cart'[s] = cart[s]
        <3>1. r = p
            BY <2>4
        <3>2. cart[p] > 0
            BY <2>1, <2>4, <3>1
        <3>3. QED
            BY <1>5, <3>1, <3>2 DEF Store!OnPurpose
    <2>5. QED
        BY <2>2, <2>3, <2>4, WritesOneLine
<1>6. ASSUME NEW t \in Tabs,
             \/ Store!Hear(t) \/ Store!Close(t) \/ Store!Get(t) \/ Store!Show(t)
             \/ \E k \in Store!Kinds : Store!Open(t, k)
      PROVE  cart' = cart
    BY <1>6 DEF Store!Hear, Store!Close, Store!Open, Store!Get, Store!Show
<1>7. ASSUME UNCHANGED storeVars PROVE cart' = cart
    BY <1>7 DEF storeVars
<1>8. ASSUME NEW t \in Tabs, Store!Work(t)
      PROVE  Store!OnPurpose(t, p) \/ (overtaken[t] /\ Store!Set(t, cart'))
    <2>1. \/ Store!Get(t) \/ Store!Show(t)
          \/ \E r \in Products :
                \/ Store!AddDemo(t, r) \/ Store!Remove(t, r)
                \/ \E q \in 1..Most : Store!Add(t, r, q)
                \/ \E q \in Store!Picked(shown[t][r]) : Store!SetQty(t, r, q)
        BY <1>8 DEF Store!Work
    <2>2. QED
        BY <1>2, <1>3, <1>4, <1>5, <1>6, <2>1
<1>9. QED
    BY <1>1, <1>6, <1>7, <1>8 DEF Store!Next

-----------------------------------------------------------------------------
(* The clones in the thumbnails: their types.                              *)

LEMMA RulesType ==
    ASSUME NEW ls, NEW st \in 0..MaxEdits
    PROVE  Thumbs!Rules(ls, st) \in Thumbs!Css
BY DEF Thumbs!Rules, Thumbs!Css

LEMMA MaterializedType ==
    ASSUME Thumbs!TypeOK, NEW set \in SUBSET deck, Thumbs!Materialize(set), deck' = deck
    PROVE  \A s \in Pictured :
               clone'[s] # Thumbs!NoClone => clone'[s] \in Thumbs!Clone /\ s \in deck'
<1> SUFFICES ASSUME NEW s \in Pictured, clone'[s] # Thumbs!NoClone
             PROVE  clone'[s] \in Thumbs!Clone /\ s \in deck'
    OBVIOUS
<1>1. CASE s \in set
    <2>1. clone'[s] = [slide |-> content[s], css |-> sheet, theme |-> theme]
        BY <1>1 DEF Thumbs!Materialize
    <2>2. QED
        BY <1>1, <2>1 DEF Thumbs!TypeOK, Thumbs!Clone
<1>2. CASE s \notin set
    BY <1>2 DEF Thumbs!Materialize, Thumbs!TypeOK
<1>3. QED
    BY <1>1, <1>2

LEMMA ThumbsInit == Thumbs!Init => Thumbs!TypeOK
<1> SUFFICES ASSUME Thumbs!Init PROVE Thumbs!TypeOK
    OBVIOUS
<1>1. sheet \in Thumbs!Css
    BY RulesType, PartsConstants DEF Thumbs!Init
<1>2. links \in [Links -> {"absent", "loading", "loaded", "failed"}]
    BY DEF Thumbs!Init
<1>3. hooked \subseteq Links
    BY DEF Thumbs!Init, Thumbs!Mounted
<1>4. \A s \in Pictured : clone[s] = Thumbs!NoClone
    BY DEF Thumbs!Init
<1>5. content \in [Pictured -> 0..MaxEdits]
    BY PartsConstants DEF Thumbs!Init
<1>6. /\ deck \subseteq Pictured /\ edits \in 0..MaxEdits
      /\ dirty \subseteq Pictured
      /\ styles \in 0..MaxEdits /\ theme \in 0..MaxEdits
    BY PartsConstants DEF Thumbs!Init
<1>7. liveTimer \in BOOLEAN /\ tweakTimer \in BOOLEAN
    BY Zenon DEF Thumbs!Init
<1>8. QED
    BY <1>1, <1>2, <1>3, <1>4, <1>5, <1>6, <1>7 DEF Thumbs!TypeOK

LEMMA ThumbsStep == Thumbs!TypeOK /\ [Thumbs!Next]_thumbsVars => Thumbs!TypeOK'
<1> SUFFICES ASSUME Thumbs!TypeOK, [Thumbs!Next]_thumbsVars PROVE Thumbs!TypeOK'
    OBVIOUS
<1> USE PartsConstants DEF Thumbs!source, Thumbs!Change
<1>1. ASSUME NEW now \in SUBSET Pictured, NEW edited \in SUBSET now,
             Thumbs!SlidesChange(now, edited)
      PROVE  Thumbs!TypeOK'
    <2>1. edits' \in 0..MaxEdits /\ deck' \subseteq Pictured /\ dirty' \subseteq Pictured
        BY <1>1 DEF Thumbs!TypeOK, Thumbs!SlidesChange
    <2>2. content' \in [Pictured -> 0..MaxEdits]
        BY <1>1 DEF Thumbs!TypeOK, Thumbs!SlidesChange
    <2>3. liveTimer' \in BOOLEAN
        BY Zenon, <1>1 DEF Thumbs!TypeOK, Thumbs!SlidesChange
    <2>4. \A s \in Pictured :
              clone'[s] # Thumbs!NoClone => clone'[s] \in Thumbs!Clone /\ s \in deck'
        BY <1>1 DEF Thumbs!TypeOK, Thumbs!SlidesChange
    <2>5. QED
        BY <1>1, <2>1, <2>2, <2>3, <2>4 DEF Thumbs!TypeOK, Thumbs!SlidesChange
<1>2. ASSUME NEW s \in Pictured, Thumbs!ScrollsIntoView(s) PROVE Thumbs!TypeOK'
    <2>1. {s} \in SUBSET deck /\ Thumbs!Materialize({s}) /\ deck' = deck
        BY <1>2 DEF Thumbs!ScrollsIntoView
    <2>2. QED
        BY <1>2, <2>1, MaterializedType DEF Thumbs!TypeOK, Thumbs!ScrollsIntoView
<1>3. CASE Thumbs!LiveTimer
    <2>1. {s \in dirty : clone[s] # Thumbs!NoClone} \in SUBSET deck
        BY DEF Thumbs!TypeOK
    <2>2. \A s \in Pictured :
              clone'[s] # Thumbs!NoClone => clone'[s] \in Thumbs!Clone /\ s \in deck'
        BY <1>3, <2>1, MaterializedType DEF Thumbs!LiveTimer
    <2>3. QED
        BY <1>3, <2>2 DEF Thumbs!TypeOK, Thumbs!LiveTimer
<1>4. ASSUME NEW l \in Links, Thumbs!MountLink(l) PROVE Thumbs!TypeOK'
    BY <1>4 DEF Thumbs!TypeOK, Thumbs!MountLink
<1>5. ASSUME NEW l \in Links, Thumbs!UnmountLink(l) PROVE Thumbs!TypeOK'
    <2>1. tweakTimer' \in BOOLEAN
        BY Zenon, <1>5 DEF Thumbs!TypeOK, Thumbs!UnmountLink
    <2>2. QED
        BY <1>5, <2>1 DEF Thumbs!TypeOK, Thumbs!UnmountLink
<1>6. ASSUME NEW l \in Links, NEW how \in {"loaded", "failed"}, Thumbs!LinkSettles(l, how)
      PROVE  Thumbs!TypeOK'
    <2>1. tweakTimer' \in BOOLEAN
        BY Zenon, <1>6 DEF Thumbs!TypeOK, Thumbs!LinkSettles
    <2>2. QED
        BY <1>6, <2>1 DEF Thumbs!TypeOK, Thumbs!LinkSettles
<1>7. CASE Thumbs!StyleChanges
    BY <1>7 DEF Thumbs!TypeOK, Thumbs!StyleChanges
<1>8. CASE Thumbs!Tweak
    BY <1>8 DEF Thumbs!TypeOK, Thumbs!Tweak
<1>9. CASE Thumbs!TweakTimer
    <2>1. sheet' \in Thumbs!Css
        BY <1>9, RulesType DEF Thumbs!TypeOK, Thumbs!TweakTimer
    <2>2. \A s \in Pictured :
              clone'[s] # Thumbs!NoClone => clone'[s] \in Thumbs!Clone /\ s \in deck'
        <3> SUFFICES ASSUME NEW s \in Pictured, clone'[s] # Thumbs!NoClone
                     PROVE  clone'[s] \in Thumbs!Clone /\ s \in deck'
            OBVIOUS
        <3>1. clone[s] # Thumbs!NoClone
            BY <1>9 DEF Thumbs!TweakTimer
        <3>2. clone[s] \in Thumbs!Clone /\ s \in deck
            BY <3>1 DEF Thumbs!TypeOK
        <3>3. clone'[s] = [clone[s] EXCEPT !.theme = theme,
                                           !.css = IF Shared THEN sheet' ELSE @]
            BY <1>9, <3>1 DEF Thumbs!TweakTimer
        <3>4. clone'[s] \in Thumbs!Clone
            BY <2>1, <3>2, <3>3 DEF Thumbs!TypeOK, Thumbs!Clone
        <3>5. QED
            BY <1>9, <3>2, <3>4 DEF Thumbs!TweakTimer
    <2>3. QED
        BY <1>9, <2>1, <2>2 DEF Thumbs!TypeOK, Thumbs!TweakTimer
<1>10. CASE UNCHANGED thumbsVars
    BY <1>10 DEF thumbsVars, Thumbs!TypeOK
<1>11. QED
    BY <1>1, <1>2, <1>3, <1>4, <1>5, <1>6, <1>7, <1>8, <1>9, <1>10
       DEF Thumbs!Next, Thumbs!Style

-----------------------------------------------------------------------------
(* The numbers of the deck.                                                *)

(* DeckNumbers is an instance, and with it the module its sets are counted *)
(* with: its Cardinality has the same definition.                          *)
LEMMA SameCardinality == \A S : Numbers!Cardinality(S) = Cardinality(S)
BY DEF Numbers!Cardinality, Cardinality

(* The positions that are not skipped up to i: their number is the label   *)
(* of slide i, if it is one of them.                                       *)

Unskipped(d, sk, i) == {k \in 1..i : d[k] \notin sk}

LEMMA UnskippedFinite ==
    ASSUME NEW d, NEW sk, NEW i \in Nat
    PROVE  /\ IsFiniteSet(Unskipped(d, sk, i))
           /\ Numbers!Counted(d, sk, i) = Cardinality(Unskipped(d, sk, i))
           /\ Numbers!Counted(d, sk, i) \in 0..i
<1>1. IsFiniteSet(1..i) /\ Cardinality(1..i) = i
    BY FS_Interval
<1>2. Unskipped(d, sk, i) \in SUBSET (1..i)
    BY DEF Unskipped
<1>3. IsFiniteSet(Unskipped(d, sk, i)) /\ Cardinality(Unskipped(d, sk, i)) <= i
    BY <1>1, <1>2, FS_Subset
<1>4. Numbers!Counted(d, sk, i) = Cardinality(Unskipped(d, sk, i))
    BY SameCardinality DEF Unskipped, Numbers!Counted
<1>5. QED
    BY <1>3, <1>4, FS_CardinalityType

(* A later position is counted no lower, and higher if it is not skipped.  *)
LEMMA CountedGrows ==
    ASSUME NEW d, NEW sk, NEW i \in Nat, NEW j \in Nat, i <= j
    PROVE  /\ Numbers!Counted(d, sk, i) <= Numbers!Counted(d, sk, j)
           /\ i < j /\ d[j] \notin sk =>
                  Numbers!Counted(d, sk, i) < Numbers!Counted(d, sk, j)
<1>1. Unskipped(d, sk, i) \in SUBSET Unskipped(d, sk, j)
    BY DEF Unskipped
<1>2. Numbers!Counted(d, sk, i) <= Numbers!Counted(d, sk, j)
    BY <1>1, UnskippedFinite, FS_Subset
<1>3. ASSUME i < j, d[j] \notin sk
      PROVE  Numbers!Counted(d, sk, i) < Numbers!Counted(d, sk, j)
    <2>1. j \in Unskipped(d, sk, j) /\ j \notin Unskipped(d, sk, i)
        BY <1>3 DEF Unskipped
    <2>2. Cardinality(Unskipped(d, sk, i)) # Cardinality(Unskipped(d, sk, j))
        BY <1>1, <2>1, UnskippedFinite, FS_Subset
    <2>3. QED
        BY <1>2, <2>2, UnskippedFinite
<1>4. QED
    BY <1>2, <1>3

(* The labels of the slides that are not skipped are 1, 2, ... up to their *)
(* number, each once: they are counted strictly upwards, so that there are *)
(* as many labels as slides, none above their number.                      *)
LEMMA LabelsAreConsecutive ==
    ASSUME NEW d, NEW sk, NEW n \in Nat
    PROVE  {Numbers!Counted(d, sk, i) : i \in Unskipped(d, sk, n)}
               = 1..Numbers!Counted(d, sk, n)
<1> DEFINE U == Unskipped(d, sk, n)
           m == Numbers!Counted(d, sk, n)
           f == [i \in U |-> Numbers!Counted(d, sk, i)]
<1>1. IsFiniteSet(U) /\ m \in Nat /\ Cardinality(U) = m
    BY UnskippedFinite
<1>2. U \subseteq 1..n /\ \A i \in U : d[i] \notin sk
    BY DEF Unskipped
<1>3. \A i \in U : Numbers!Counted(d, sk, i) \in 1..m
    <2> SUFFICES ASSUME NEW i \in U PROVE Numbers!Counted(d, sk, i) \in 1..m
        OBVIOUS
    <2>1. i \in Nat /\ 0 < i /\ i <= n /\ d[i] \notin sk
        BY <1>2
    <2>2. Numbers!Counted(d, sk, 0) < Numbers!Counted(d, sk, i)
        BY <2>1, CountedGrows
    <2>3. Numbers!Counted(d, sk, i) <= m
        BY <2>1, CountedGrows
    <2>4. Numbers!Counted(d, sk, i) \in Nat /\ Numbers!Counted(d, sk, 0) \in Nat
        BY <2>1, UnskippedFinite
    <2>5. QED
        BY <1>1, <2>2, <2>3, <2>4
<1>4. ASSUME NEW i \in U, NEW j \in U, f[i] = f[j] PROVE i = j
    <2>1. i \in Nat /\ j \in Nat /\ d[i] \notin sk /\ d[j] \notin sk
        BY <1>2
    <2>2. Numbers!Counted(d, sk, i) = Numbers!Counted(d, sk, j)
        BY <1>4
    <2>3. Numbers!Counted(d, sk, i) \in Nat
        BY <2>1, UnskippedFinite
    <2>4. ~(i < j) /\ ~(j < i)
        BY <2>1, <2>2, <2>3, CountedGrows
    <2>5. QED
        BY <2>1, <2>4
<1>5. f \in Injection(U, 1..m)
    <2>1. f \in [U -> 1..m]
        BY <1>3
    <2>2. QED
        BY <1>4, <2>1 DEF Injection, IsInjective
<1>6. IsFiniteSet(1..m) /\ Cardinality(1..m) = m
    BY <1>1, FS_Interval
<1>7. f \in Surjection(U, 1..m)
    BY <1>1, <1>5, <1>6, FS_Injection
<1>8. \A k \in 1..m : \E i \in U : f[i] = k
    BY <1>7 DEF Surjection
<1>9. QED
    BY <1>3, <1>8

LEMMA DeckFacts ==
    ASSUME NEW d \in Numbers!Decks
    PROVE  /\ d \in Seq(Slides) /\ Len(d) \in Nat \ {0} /\ Len(d) <= Cardinality(Slides)
           /\ DOMAIN d = 1..Len(d) /\ d \in [1..Len(d) -> Slides]
           /\ \A i, j \in DOMAIN d : d[i] = d[j] => i = j
           /\ Numbers!ToSet(d) = {d[i] : i \in DOMAIN d}
<1>1. Cardinality(Slides) \in Nat
    BY PartsConstants, FS_CardinalityType
<1>2. d \in Numbers!SeqOf(Slides, Cardinality(Slides)) /\ d # <<>> /\ Numbers!IsInjective(d)
    BY SameCardinality DEF Numbers!Decks
<1>3. PICK m \in 0..Cardinality(Slides) : d \in [1..m -> Slides]
    BY <1>2 DEF Numbers!SeqOf
<1>4. m \in Nat /\ d \in Seq(Slides)
    BY <1>1, <1>3, SeqDef
<1>5. Len(d) \in Nat /\ DOMAIN d = 1..Len(d) /\ d \in [1..Len(d) -> Slides]
    BY <1>4, LenProperties
<1>6. Len(d) = m
    BY <1>3, <1>4, <1>5
<1>7. Len(d) # 0
    BY <1>2, <1>4, EmptySeq
<1>8. \A i, j \in DOMAIN d : d[i] = d[j] => i = j
    BY <1>2 DEF Numbers!IsInjective
<1>9. Numbers!ToSet(d) = {d[i] : i \in DOMAIN d}
    BY DEF Numbers!ToSet
<1>10. QED
    BY <1>1, <1>3, <1>4, <1>5, <1>6, <1>7, <1>8, <1>9

(* A label is 0 for a skipped slide and its number otherwise.              *)
LEMMA LabelFacts ==
    ASSUME NEW d \in Numbers!Decks, NEW sk, NEW i \in DOMAIN d
    PROVE  /\ Numbers!Label(d, sk, i) \in 0..Cardinality(Slides)
           /\ d[i] \in sk => Numbers!Label(d, sk, i) = 0
           /\ d[i] \notin sk => /\ Numbers!Label(d, sk, i) = Numbers!Counted(d, sk, i)
                                /\ Numbers!Label(d, sk, i) > 0
<1>1. i \in Nat /\ 0 < i /\ i <= Len(d) /\ Len(d) <= Cardinality(Slides) /\ Len(d) \in Nat
    BY DeckFacts
<1>2. Cardinality(Slides) \in Nat
    BY PartsConstants, FS_CardinalityType
<1>3. Numbers!Counted(d, sk, i) \in 0..i /\ Numbers!Counted(d, sk, 0) \in 0..0
    BY <1>1, UnskippedFinite
<1>4. d[i] \notin sk => Numbers!Counted(d, sk, 0) < Numbers!Counted(d, sk, i)
    BY <1>1, CountedGrows
<1>5. QED
    BY <1>1, <1>2, <1>3, <1>4 DEF Numbers!Label

(* _renumberRail gives every slide of the deck its label.                  *)
LEMMA RenumberFacts ==
    ASSUME NEW d \in Numbers!Decks, NEW sk
    PROVE  /\ Numbers!Renumber(d, sk) \in [Slides -> 0..Cardinality(Slides)]
           /\ HasRail => \A i \in DOMAIN d :
                  Numbers!Renumber(d, sk)[d[i]] = Numbers!Label(d, sk, i)
<1>1. 0 \in 0..Cardinality(Slides)
    BY PartsConstants, FS_CardinalityType
<1>2. ASSUME NEW i \in DOMAIN d
      PROVE  /\ d[i] \in Slides /\ d[i] \in Numbers!ToSet(d)
             /\ (CHOOSE j \in DOMAIN d : d[j] = d[i]) = i
    <2>1. d[i] \in Slides /\ d[i] \in Numbers!ToSet(d)
        BY DeckFacts
    <2>2. \A j \in DOMAIN d : d[j] = d[i] => j = i
        BY DeckFacts
    <2>3. QED
        BY <2>1, <2>2
<1>3. ASSUME NEW s \in Slides PROVE Numbers!Renumber(d, sk)[s] \in 0..Cardinality(Slides)
    <2>1. CASE ~HasRail \/ s \notin Numbers!ToSet(d)
        BY <1>1, <2>1 DEF Numbers!Renumber
    <2>2. CASE HasRail /\ s \in Numbers!ToSet(d)
        <3>1. PICK i \in DOMAIN d : s = d[i]
            BY <2>2, DeckFacts
        <3>2. Numbers!Renumber(d, sk)[s] = Numbers!Label(d, sk, i)
            BY <1>2, <2>2, <3>1 DEF Numbers!Renumber
        <3>3. QED
            BY <3>2, LabelFacts
    <2>3. QED
        BY <2>1, <2>2
<1>4. Numbers!Renumber(d, sk) \in [Slides -> 0..Cardinality(Slides)]
    BY <1>3 DEF Numbers!Renumber
<1>5. ASSUME HasRail, NEW i \in DOMAIN d
      PROVE  Numbers!Renumber(d, sk)[d[i]] = Numbers!Label(d, sk, i)
    BY <1>2, <1>5 DEF Numbers!Renumber
<1>6. QED
    BY <1>4, <1>5

(* What is derived was computed from the deck and the marks that are       *)
(* there, and what is not behind from the index, which may be of no slide; *)
(* a deck without a rail leaves some of it as it was.                      *)
NumberTypes ==
    /\ slides \in Numbers!Decks /\ skip \subseteq Numbers!ToSet(slides)
    /\ index \in 1..Cardinality(Slides) + 1 /\ before \in 0..Cardinality(Slides) + 1
    /\ behind \subseteq Numbers!Surfaces
    /\ last \subseteq Numbers!ToSet(slides) /\ active \subseteq Numbers!ToSet(slides)

NumberFlags == printing \in BOOLEAN /\ frozen \in BOOLEAN

Computed ==
    /\ num = Numbers!Renumber(slides, skip)
    /\ badge = IF HasRail THEN skip ELSE {}
    /\ HasRail => /\ counter.total = Numbers!Counted(slides, skip, Len(slides))
                  /\ "counter" \notin behind => counter = Numbers!Count(slides, skip, index)
                  /\ last = Numbers!LastVisible(slides, skip)
                  /\ told = Numbers!Message(slides, skip, told.index)
                  /\ "presenter" \notin behind => told.index = index
    /\ ~printing => /\ ~frozen
                    /\ \A s, t \in active : s = t
                    /\ "screen" \notin behind => active = Numbers!Shown(slides, index)

Numbered == NumberTypes /\ NumberFlags /\ Computed

LEMMA NumbersType == Numbered => Numbers!TypeOK
<1> SUFFICES ASSUME Numbered PROVE Numbers!TypeOK
    OBVIOUS
<1>1. num \in [Slides -> 0..Numbers!Cardinality(Slides)]
    BY RenumberFacts, SameCardinality DEF Numbered, NumberTypes, Computed
<1>2. badge \subseteq Numbers!ToSet(slides)
    BY DEF Numbered, NumberTypes, Computed
<1>3. QED
    BY <1>1, <1>2, SameCardinality
       DEF Numbered, NumberTypes, NumberFlags, Numbers!TypeOK

(* In a deck with a rail the labels, once computed, agree with each other  *)
(* and with the counter.                                                   *)
LEMMA NumbersCompare == HasRail /\ Numbered => Numbers!NumbersAgree
<1> SUFFICES ASSUME HasRail, Numbered PROVE Numbers!NumbersAgree
    OBVIOUS
<1> USE DEF Numbered, NumberTypes, Computed
<1>1. /\ slides \in Seq(Slides) /\ Len(slides) \in Nat /\ DOMAIN slides = 1..Len(slides)
      /\ Numbers!ToSet(slides) = {slides[i] : i \in DOMAIN slides}
      /\ \A i, j \in DOMAIN slides : slides[i] = slides[j] => i = j
    BY DeckFacts
<1>2. \A i \in DOMAIN slides : num[slides[i]] = Numbers!Label(slides, skip, i)
    BY RenumberFacts
<1>3. badge = skip
    OBVIOUS
<1>4. badge = {s \in Numbers!ToSet(slides) : num[s] = 0}
    <2>1. \A i \in DOMAIN slides : slides[i] \in skip <=> num[slides[i]] = 0
        BY <1>2, LabelFacts
    <2>2. QED
        BY <1>1, <1>3, <2>1
<1>5. ASSUME NEW i \in DOMAIN slides, NEW j \in DOMAIN slides,
             i < j, {slides[i], slides[j]} \intersect badge = {}
      PROVE  num[slides[i]] < num[slides[j]]
    <2>1. slides[i] \notin skip /\ slides[j] \notin skip
        BY <1>3, <1>5
    <2>2. /\ num[slides[i]] = Numbers!Counted(slides, skip, i)
          /\ num[slides[j]] = Numbers!Counted(slides, skip, j)
        BY <1>2, <2>1, LabelFacts
    <2>3. i \in Nat /\ j \in Nat
        BY <1>1
    <2>4. QED
        BY <1>5, <2>1, <2>2, <2>3, CountedGrows
<1>6. {num[s] : s \in Numbers!ToSet(slides) \ badge} = 1..counter.total
    <2>1. counter.total = Numbers!Counted(slides, skip, Len(slides))
        OBVIOUS
    <2>2. Unskipped(slides, skip, Len(slides))
              = {i \in DOMAIN slides : slides[i] \notin skip}
        BY <1>1 DEF Unskipped
    <2>3. Numbers!ToSet(slides) \ badge
              = {slides[i] : i \in Unskipped(slides, skip, Len(slides))}
        BY <1>1, <1>3, <2>2
    <2>4. \A i \in Unskipped(slides, skip, Len(slides)) :
              num[slides[i]] = Numbers!Counted(slides, skip, i)
        BY <1>2, <2>2, LabelFacts
    <2>5. {num[s] : s \in Numbers!ToSet(slides) \ badge}
              = {Numbers!Counted(slides, skip, i) :
                     i \in Unskipped(slides, skip, Len(slides))}
        <3> DEFINE U == Unskipped(slides, skip, Len(slides))
        <3>1. {num[s] : s \in {slides[i] : i \in U}} = {num[slides[i]] : i \in U}
            OBVIOUS
        <3>2. {num[slides[i]] : i \in U} = {Numbers!Counted(slides, skip, i) : i \in U}
            BY <2>4
        <3>3. Numbers!ToSet(slides) \ badge = {slides[i] : i \in U}
            BY <2>3
        <3> HIDE DEF U
        <3>4. {num[s] : s \in Numbers!ToSet(slides) \ badge} = {num[slides[i]] : i \in U}
            BY Zenon, <3>1, <3>3
        <3>5. QED
            BY Zenon, <3>2, <3>4 DEF U
    <2>6. {Numbers!Counted(slides, skip, i) : i \in Unskipped(slides, skip, Len(slides))}
              = 1..Numbers!Counted(slides, skip, Len(slides))
        BY <1>1, LabelsAreConsecutive
    <2>7. QED
        BY Zenon, <2>1, <2>5, <2>6
<1>7. "counter" \notin behind /\ index \in DOMAIN slides => counter.at = num[slides[index]]
    BY <1>2 DEF Numbers!Count
<1>8. QED
    BY <1>3, <1>4, <1>5, <1>6, <1>7 DEF Numbers!NumbersAgree

LEMMA NumbersFresh == HasRail /\ Numbered => DerivedIsFresh
<1> SUFFICES ASSUME HasRail, Numbered PROVE DerivedIsFresh
    OBVIOUS
<1> USE DEF Numbered, NumberTypes, Computed
<1>1. Numbers!NoBlankSheet
    <2> SUFFICES ASSUME NEW s \in Numbers!ToSet(slides) \ skip, s = slides[Len(slides)]
                 PROVE  s \in Numbers!LastVisible(slides, skip)
        BY DEF Numbers!NoBlankSheet, Numbers!NoBreakAfter, Numbers!Last
    <2>1. Len(slides) \in Nat \ {0} /\ DOMAIN slides = 1..Len(slides)
        BY DeckFacts
    <2>2. QED
        BY <2>1 DEF Numbers!LastVisible
<1>2. Numbers!PresenterKnows
    BY DEF Numbers!PresenterKnows
<1>3. Numbers!PrintLeavesNoTrace
    BY DEF Numbers!PrintLeavesNoTrace
<1>4. QED
    BY <1>1, <1>2, <1>3, NumbersCompare DEF DerivedIsFresh

LEMMA LastVisibleType ==
    ASSUME NEW d, NEW sk
    PROVE  Numbers!LastVisible(d, sk) \subseteq Numbers!ToSet(d)
BY DEF Numbers!LastVisible, Numbers!ToSet

(* At most one slide is shown; it is the one at the index, if there is one. *)
LEMMA ShownFacts ==
    ASSUME NEW d, NEW i
    PROVE  /\ Numbers!Shown(d, i) \subseteq Numbers!ToSet(d)
           /\ \A s, t \in Numbers!Shown(d, i) : s = t
           /\ i \in DOMAIN d => Numbers!Shown(d, i) = {d[i]}
BY DEF Numbers!Shown, Numbers!ToSet

(* An index of the deck, or one beyond it, is within the bounds.           *)
LEMMA IndexBounds ==
    ASSUME NEW d \in Numbers!Decks
    PROVE  /\ DOMAIN d = 1..Len(d) /\ Len(d) \in DOMAIN d
           /\ 1..Len(d) + 1 \subseteq 1..Cardinality(Slides) + 1
<1>1. Cardinality(Slides) \in Nat
    BY PartsConstants, FS_CardinalityType
<1>2. QED
    BY <1>1, DeckFacts

(* The counter of a deck, its total and the message, taken apart.          *)
LEMMA CountFacts ==
    ASSUME NEW d, NEW sk, NEW i
    PROVE  /\ Numbers!Count(d, sk, i).total = Numbers!Counted(d, sk, Len(d))
           /\ Numbers!Message(d, sk, i).index = i
BY DEF Numbers!Count, Numbers!Message

LEMMA NumbersInit == Numbers!Init => Numbered
<1> SUFFICES ASSUME Numbers!Init PROVE Numbered
    OBVIOUS
<1>1. index \in DOMAIN slides /\ slides \in Numbers!Decks
    BY DEF Numbers!Init
<1>2. NumberTypes
    <2>1. index \in 1..Cardinality(Slides) + 1 /\ 0 \in 0..Cardinality(Slides) + 1
        BY <1>1, IndexBounds, PartsConstants, FS_CardinalityType
    <2>2. QED
        BY <1>1, <2>1, LastVisibleType DEF Numbers!Init, NumberTypes, Numbers!ToSet
<1>3. NumberFlags
    BY DEF Numbers!Init, NumberFlags
<1>4. Computed
    BY <1>1, ShownFacts, CountFacts DEF Numbers!Init, Computed
<1>5. QED
    BY <1>2, <1>3, <1>4 DEF Numbered

(* What _collectSlides, _renderRail and _applyIndex compute together.      *)
LEMMA RenderComputes ==
    ASSUME Numbered, NEW d \in Numbers!Decks, NEW sk \in SUBSET Numbers!ToSet(d),
           NEW i \in DOMAIN d, Numbers!Render(d, sk, i)
    PROVE  Numbered'
<1> USE DEF Numbers!Render
<1>1. NumberTypes'
    <2>1. i \in 1..Cardinality(Slides) + 1 /\ d[i] \in Numbers!ToSet(d)
        BY IndexBounds DEF Numbers!ToSet
    <2>2. QED
        BY <2>1, LastVisibleType DEF Numbered, NumberTypes
<1>2. NumberFlags'
    BY DEF Numbered, NumberFlags
<1>3. Computed'
    <2>1. /\ num' = Numbers!Renumber(slides', skip')
          /\ badge' = IF HasRail THEN skip' ELSE {}
        OBVIOUS
    <2>2. /\ counter' = Numbers!Count(slides', skip', index')
          /\ counter'.total = Numbers!Counted(slides', skip', Len(slides'))
          /\ last' = Numbers!LastVisible(slides', skip')
          /\ told' = Numbers!Message(slides', skip', index') /\ told'.index = index'
        BY CountFacts
    <2>3. /\ printing' = printing /\ frozen' = frozen
          /\ active' = {d[i]} /\ active' = Numbers!Shown(slides', index')
        BY ShownFacts
    <2>4. QED
        BY <2>1, <2>2, <2>3 DEF Numbered, Computed
<1>4. QED
    BY <1>1, <1>2, <1>3 DEF Numbered

(* An index that is only set leaves what shows it behind, unless it is the *)
(* same.                                                                   *)
LEMMA SetIndexComputes ==
    ASSUME Numbered, NEW i \in 1..Cardinality(Slides) + 1, Numbers!SetIndex(i),
           before' \in 0..Cardinality(Slides) + 1
    PROVE  Numbered'
<1> USE DEF Numbers!SetIndex
<1>1. NumberTypes' /\ NumberFlags'
    BY DEF Numbered, NumberTypes, NumberFlags
<1>2. CASE i = index
    BY <1>1, <1>2 DEF Numbered, Computed
<1>3. CASE i # index
    BY <1>1, <1>3 DEF Numbered, Computed, Numbers!Surfaces
<1>4. QED
    BY <1>2, <1>3

LEMMA NumbersStep == Numbered /\ [Numbers!Next]_numbersVars => Numbered'
<1> SUFFICES ASSUME Numbered, [Numbers!Next]_numbersVars PROVE Numbered'
    OBVIOUS
<1>0. /\ slides \in Numbers!Decks /\ index \in Nat \ {0}
      /\ Cardinality(Slides) \in Nat
    BY PartsConstants, FS_CardinalityType DEF Numbered, NumberTypes
<1>1. ASSUME NEW i \in DOMAIN slides, Numbers!Go(i) PROVE Numbered'
    <2>1. i \in 1..Cardinality(Slides) + 1
        BY <1>0, IndexBounds
    <2>2. NumberTypes'
        BY <1>1, <2>1 DEF Numbered, NumberTypes, Numbers!Go, Numbers!ToSet
    <2>3. NumberFlags'
        BY <1>1 DEF Numbered, NumberFlags, Numbers!Go
    <2>4. Computed'
        <3>1. /\ counter'.total = Numbers!Counted(slides, skip, Len(slides))
              /\ told' = Numbers!Message(slides, skip, i) /\ told'.index = i
            BY <1>1, CountFacts DEF Numbers!Go
        <3>2. active' = {slides[i]} /\ active' = Numbers!Shown(slides, i)
            BY <1>1, ShownFacts DEF Numbers!Go
        <3>3. QED
            BY <1>1, <3>1, <3>2 DEF Numbered, Computed, Numbers!Go
    <2>5. QED
        BY <2>2, <2>3, <2>4 DEF Numbered
<1>2. ASSUME NEW i \in DOMAIN slides, Numbers!OpenDialog(i) PROVE Numbered'
    BY <1>2 DEF Numbered, NumberTypes, NumberFlags, Computed, Numbers!OpenDialog
<1>3. ASSUME NEW sk \in SUBSET Numbers!ToSet(slides), Numbers!Skip(sk) PROVE Numbered'
    <2>1. NumberFlags'
        BY <1>3 DEF Numbered, NumberFlags, Numbers!Skip
    <2>2. CASE HasRail
        <3>1. NumberTypes'
            BY <1>3, <2>2, LastVisibleType DEF Numbered, NumberTypes, Numbers!Skip
        <3>2. /\ counter'.total = Numbers!Counted(slides, sk, Len(slides))
              /\ told' = Numbers!Message(slides, sk, index) /\ told'.index = index
            BY <1>3, <2>2, CountFacts DEF Numbers!Skip
        <3>3. Computed'
            BY <1>3, <2>2, <3>2 DEF Numbered, Computed, Numbers!Skip
        <3>4. QED
            BY <2>1, <3>1, <3>3 DEF Numbered
    <2>3. CASE ~HasRail
        <3>1. NumberTypes'
            BY <1>3, <2>3 DEF Numbered, NumberTypes, Numbers!Skip
        <3>2. num' = Numbers!Renumber(slides', skip')
            BY <1>3, <2>3 DEF Numbered, Computed, Numbers!Skip, Numbers!Renumber
        <3>3. Computed'
            BY <1>3, <2>3, <3>2 DEF Numbered, Computed, Numbers!Skip
        <3>4. QED
            BY <2>1, <3>1, <3>3 DEF Numbered
    <2>4. QED
        BY <2>2, <2>3
<1>4. CASE Numbers!HostRenders
    <2>1. PICK d \in Numbers!Decks : \E sk \in SUBSET Numbers!ToSet(d) :
              Numbers!Render(d, sk, IF index > Len(d) THEN Len(d) ELSE index)
        BY <1>4 DEF Numbers!HostRenders
    <2>2. PICK sk \in SUBSET Numbers!ToSet(d) :
              Numbers!Render(d, sk, IF index > Len(d) THEN Len(d) ELSE index)
        BY <2>1
    <2>3. (IF index > Len(d) THEN Len(d) ELSE index) \in DOMAIN d
        <3>1. DOMAIN d = 1..Len(d) /\ Len(d) \in Nat \ {0}
            BY DeckFacts
        <3>2. QED
            BY <1>0, <3>1
    <2>4. QED
        BY <2>2, <2>3, RenderComputes
<1>5. CASE Numbers!RailEdits
    <2>1. PICK d \in Numbers!Decks :
              \E sk \in SUBSET Numbers!ToSet(d), i \in DOMAIN d : Numbers!Render(d, sk, i)
        BY <1>5 DEF Numbers!RailEdits
    <2>2. PICK sk \in SUBSET Numbers!ToSet(d), i \in DOMAIN d : Numbers!Render(d, sk, i)
        BY <2>1
    <2>3. QED
        BY <2>2, RenderComputes
<1>6. CASE Numbers!BeforePrint
    BY <1>6 DEF Numbered, NumberTypes, NumberFlags, Computed, Numbers!BeforePrint
<1>7. CASE Numbers!AfterPrint
    <2>1. NumberTypes' /\ NumberFlags'
        BY <1>7, ShownFacts DEF Numbered, NumberTypes, NumberFlags, Numbers!AfterPrint
    <2>2. /\ counter'.total = Numbers!Counted(slides, skip, Len(slides))
          /\ \A s, t \in active' : s = t
        BY <1>7, ShownFacts, CountFacts DEF Numbers!AfterPrint
    <2>3. Computed'
        BY <1>7, <2>2 DEF Numbered, Computed, Numbers!AfterPrint
    <2>4. QED
        BY <2>1, <2>3 DEF Numbered
<1>8. CASE Numbers!CloseDialog
    BY <1>8 DEF Numbered, NumberTypes, NumberFlags, Computed, Numbers!CloseDialog
<1>9. ASSUME NEW i \in 1..Len(slides) + 1, Numbers!Emit(i) PROVE Numbered'
    <2>1. i \in 1..Cardinality(Slides) + 1
        BY <1>0, IndexBounds
    <2>2. before' \in 0..Cardinality(Slides) + 1 /\ Numbers!SetIndex(i)
        BY <1>0, <1>9 DEF Numbered, NumberTypes, Numbers!Emit
    <2>3. QED
        BY <2>1, <2>2, SetIndexComputes
<1>10. ASSUME NEW applied \in BOOLEAN, Numbers!Acknowledge(applied) PROVE Numbered'
    <2> DEFINE i == IF ~applied /\ before # 0 THEN before ELSE index
    <2>1. i \in 1..Cardinality(Slides) + 1
        BY <1>0 DEF Numbered, NumberTypes
    <2>2. before' \in 0..Cardinality(Slides) + 1 /\ Numbers!SetIndex(i)
        BY <1>0, <1>10 DEF Numbers!Acknowledge
    <2> HIDE DEF i
    <2>3. QED
        BY <2>1, <2>2, SetIndexComputes
<1>11. CASE UNCHANGED numbersVars
    BY <1>11 DEF Numbered, NumberTypes, NumberFlags, Computed, numbersVars
<1>12. QED
    BY <1>1, <1>2, <1>3, <1>4, <1>5, <1>6, <1>7, <1>8, <1>9, <1>10, <1>11 DEF Numbers!Next

-----------------------------------------------------------------------------
(* The parts together: a step of one leaves the variables of the others.   *)

AllParts == TypeOK /\ Held /\ Roomy /\ Numbered /\ Thumbs!TypeOK /\ Told

LEMMA PartsStart == PartsInit => AllParts
BY InitTypeOK, OverlayInit, RailInit, NumbersInit, ThumbsInit, StoreInit
   DEF PartsInit, AllParts

(* A step of the whole is, for each part, a step of it or a stutter.       *)
LEMMA PartsMove ==
    [PartsNext]_allVars =>
        /\ [Next]_vars /\ [Overlay!Next]_overlayVars /\ [Rail!Next]_railVars
        /\ [Numbers!Next]_numbersVars /\ [Thumbs!Next]_thumbsVars
        /\ [Store!Next]_storeVars
<1>1. CASE PartsNext
    BY Zenon, <1>1 DEF PartsNext
<1>2. CASE UNCHANGED allVars
    BY Zenon, <1>2 DEF allVars
<1>3. QED
    BY <1>1, <1>2

LEMMA PartsInductive == AllParts /\ [PartsNext]_allVars => AllParts'
BY PartsMove, NextTypeOK, OverlayStep, RailStep, NumbersStep, ThumbsStep, StoreStep
   DEF AllParts

LEMMA PartsInvariant == PartsSpec => []AllParts
BY PartsStart, PartsInductive, PTL DEF PartsSpec

(* The variables of the six parts keep their types in every behaviour.     *)
THEOREM PartsTypeCorrect == PartsSpec => []TypesOK
<1>1. AllParts => TypesOK
    BY RoomyParts, NumbersType DEF AllParts, TypesOK, Held, Told
<1>2. QED
    BY <1>1, PartsInvariant, PTL

(* Whatever the order of modes, attributes, window widths, gestures and    *)
(* messages of the host, for any widths: what is presented is not edited,  *)
(* and stage and thumbnails fit the rail that is on screen.                *)
THEOREM RailFollows == PartsSpec => []RailFollowsModes
<1>1. AllParts => RailFollowsModes
    BY RoomyParts DEF AllParts
<1>2. QED
    BY <1>1, PartsInvariant, PTL

(* In every order of pointer, focus, timer and presentation: an audience   *)
(* sees the overlay only if it was called, and without a timer it is on    *)
(* screen only while someone who will leave holds it.                      *)
THEOREM OverlaysAreHeld == PartsSpec => []OverlayIsHeld
<1>1. AllParts => OverlayIsHeld
    BY DEF AllParts, Held
<1>2. QED
    BY <1>1, PartsInvariant, PTL

(* In a deck with a rail, of any length and with any marks, with edits sent *)
(* and refused at any time: the numbers of the rail are 1, 2, ... in the   *)
(* order of the slides that are not skipped, counter, page breaks and      *)
(* presenter follow deck and marks, and they and the slide on screen are   *)
(* of the current index but for one that was only set since.  HasRail is   *)
(* needed: with no-rail nobody observes the marks, and what follows from   *)
(* them stays stale (DeckNumbersNoRail.cfg).                               *)
THEOREM DerivedAreFresh == ASSUME HasRail PROVE PartsSpec => []DerivedIsFresh
<1>1. AllParts => DerivedIsFresh
    BY NumbersFresh DEF AllParts
<1>2. QED
    BY <1>1, PartsInvariant, PTL

(* For any tabs and products: a page shows the cart as it is, unless the   *)
(* news is on its way, came before the page listened or is the page's own. *)
THEOREM StaleAreExplained == PartsSpec => []StaleIsExplained
<1>1. AllParts => StaleIsExplained
    BY DEF AllParts, Told
<1>2. QED
    BY <1>1, PartsInvariant, PTL

(* For any tabs and products, with stale views of the cart in some, and    *)
(* with reads and writes of the cart interleaved: a line changes by an     *)
(* operation on it, from what it is, or with a confirmed order, unless the *)
(* tab that writes was overtaken since it read.                            *)
THEOREM LinesChangeAsMeant == PartsSpec => LinesChangeOnPurpose
<1>1. AllParts /\ [PartsNext]_allVars => [\A p \in Products : Meant(p)]_(Store!vars)
    BY PartsMove, StoreLines DEF AllParts
<1>2. PartsSpec => [][\A p \in Products : Meant(p)]_(Store!vars)
    BY <1>1, PartsInvariant, PTL DEF PartsSpec
<1>3. QED
    BY <1>2 DEF LinesChangeOnPurpose, Store!LinesChangeOnPurpose, Meant
=============================================================================
