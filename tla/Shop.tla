-------------------------------- MODULE Shop --------------------------------
(* The cart of the mock-up shop: one list in localStorage, which the pages  *)
(* open in several tabs read, show and rewrite, each hearing of the others' *)
(* changes by the browser's storage events.  Nothing locks the storage: a   *)
(* tab, which may be a process of its own, reads it, writes it and reads it *)
(* again in steps, and other tabs do so in between.                         *)

EXTENDS Naturals

CONSTANTS
    Tabs,
    Shopping,    \* bound of the model: the tabs that open the catalogue
    Paying,      \* bound of the model: the tabs that go on to the checkout
    Products,    \* those with a price: status "ok" or "low"
    Low,         \* the ones of status "low"
    First,       \* the first of the list
    Most,        \* max of QtyStepper, 99 in the code
    Ceiling      \* bound of the model: stands for any greater quantity too

Kinds == {"list", "cart", "checkout", "confirmed"}

(* Every tab opens every page where Shopping and Paying are Tabs.           *)
MayOpen(t, k) ==
    CASE k = "list" -> t \in Shopping
      [] k = "cart" -> TRUE
      [] k \in {"checkout", "confirmed"} -> t \in Paying

VARIABLES
    cart,        \* sia_cart: the quantity of each line, 0 without a line
    page,        \* what each tab has open
    ready,       \* its effects have run
    shown,       \* the items of useCart
    due,         \* a storage event is on its way to the tab
    missed,      \* history: one came before the page listened
    phase,       \* what the task under way in the tab does next with the cart
    todo,        \* the demo lines it is to add yet
    read,        \* items: the cart it has read and is about to write
    overtaken    \* history: another tab has changed the cart in between

tabs == <<page, ready>>
task == <<phase, todo, read>>
vars == <<cart, tabs, shown, due, missed, task, overtaken>>

Carts == [Products -> 0..Ceiling]
Empty == [p \in Products |-> 0]

Plus(n, q) == IF n + q <= Ceiling THEN n + q ELSE Ceiling

TypeOK ==
    /\ cart \in Carts
    /\ page \in [Tabs -> Kinds \cup {"none"}]
    /\ shown \in [Tabs -> Carts]
    /\ {ready, due, missed, overtaken} \subseteq [Tabs -> BOOLEAN]
    /\ phase \in [Tabs -> {"idle", "read", "write", "show"}]
    /\ todo \in [Tabs -> SUBSET Products]
    /\ read \in [Tabs -> Carts]

(* The pages that show the cart; OrderConfirmed.html shows an empty one.    *)
Shows(t) == page[t] \notin {"none", "confirmed"}

Init ==
    /\ cart = Empty
    /\ page = [t \in Tabs |-> "none"] /\ ready = [t \in Tabs |-> FALSE]
    /\ shown = [t \in Tabs |-> Empty]
    /\ due = [t \in Tabs |-> FALSE] /\ missed = [t \in Tabs |-> FALSE]
    /\ phase = [t \in Tabs |-> "idle"] /\ todo = [t \in Tabs |-> {}]
    /\ read = [t \in Tabs |-> Empty] /\ overtaken = [t \in Tabs |-> FALSE]

-----------------------------------------------------------------------------

(* A write of localStorage: the browser tells the other tabs if something   *)
(* changed.                                                                 *)
Store(t, c) ==
    /\ cart' = c
    /\ due' = [u \in Tabs |-> due[u] \/ (u # t /\ Shows(u) /\ c # cart)]
    /\ overtaken' = [u \in Tabs |-> u # t /\ phase[u] = "write" /\ (overtaken[u] \/ c # cart)]

(* Cart.get, the first step of every operation: of one the user begins (on  *)
(* the catalogue, or on a line of Cart.html) or of the next demo line.  A   *)
(* setQty that finds its line gone ends here, without a step.               *)
Get(t) ==
    /\ \/ phase[t] = "read"
       \/ /\ phase[t] = "idle" /\ ready[t]
          /\ page[t] = "list" \/ (page[t] = "cart" /\ shown[t] # Empty)
    /\ phase' = [phase EXCEPT ![t] = "write"]
    /\ read' = [read EXCEPT ![t] = cart]
    /\ UNCHANGED <<cart, tabs, shown, due, missed, todo, overtaken>>

(* Cart.set.                                                                *)
Set(t, c) ==
    /\ phase[t] = "write" /\ Store(t, c)
    /\ read' = [read EXCEPT ![t] = Empty]
    /\ phase' = [phase EXCEPT ![t] = "show"]
    /\ UNCHANGED <<tabs, shown, missed>>

(* Mutant: nobody listens to 'cart-changed', and the storage event leaves   *)
(* out the tab that writes.                                                 *)
ShowNothing(t) ==
    /\ phase[t] = "show"
    /\ phase' = [phase EXCEPT ![t] = IF todo[t] = {} THEN "idle" ELSE "read"]
    /\ UNCHANGED <<cart, tabs, shown, due, missed, todo, read, overtaken>>

(* 'cart-changed': the tab itself reads the cart again.                     *)
Show(t) ==
    /\ phase[t] = "show"
    /\ phase' = [phase EXCEPT ![t] = IF todo[t] = {} THEN "idle" ELSE "read"]
    /\ shown' = [shown EXCEPT ![t] = cart]
    /\ missed' = [missed EXCEPT ![t] = FALSE]
    /\ UNCHANGED <<cart, tabs, due, todo, read, overtaken>>

(* The page is rendered with the cart of that moment.                       *)
Open(t, k) ==
    /\ page[t] = "none" /\ MayOpen(t, k)
    /\ page' = [page EXCEPT ![t] = k]
    /\ shown' = [shown EXCEPT ![t] = IF k = "confirmed" THEN Empty ELSE cart]
    /\ UNCHANGED <<cart, ready, due, missed, task, overtaken>>

Close(t) ==
    /\ page[t] # "none" /\ phase[t] = "idle"
    /\ page' = [page EXCEPT ![t] = "none"]
    /\ ready' = [ready EXCEPT ![t] = FALSE]
    /\ shown' = [shown EXCEPT ![t] = Empty]
    /\ due' = [due EXCEPT ![t] = FALSE]
    /\ missed' = [missed EXCEPT ![t] = FALSE]
    /\ UNCHANGED <<cart, task, overtaken>>

(* The lines of seedDemoCart and of the checkout, the first added first.    *)
Demo(k) == IF k = "cart" THEN Products ELSE Products \ Low

AddDemo(t, p) ==
    /\ p \in todo[t] /\ (First \in todo[t] => p = First)
    /\ todo' = [todo EXCEPT ![t] = @ \ {p}]
    /\ Set(t, [read[t] EXCEPT ![p] =
                  Plus(@, IF page[t] = "cart" /\ p = First THEN 2 ELSE 1)])

(* The effects of the page: useCart subscribes, then an empty cart is to be *)
(* given the demo lines, or that of an order just made is removed.          *)
Effects(t) ==
    /\ page[t] # "none" /\ ~ready[t]
    /\ ready' = [ready EXCEPT ![t] = TRUE]
    /\ IF page[t] = "confirmed" THEN Store(t, Empty) ELSE UNCHANGED <<cart, due, overtaken>>
    /\ IF page[t] \in {"cart", "checkout"} /\ cart = Empty
       THEN /\ todo' = [todo EXCEPT ![t] = Demo(page[t])]
            /\ phase' = [phase EXCEPT ![t] = "read"]
       ELSE UNCHANGED <<todo, phase>>
    /\ UNCHANGED <<page, shown, missed, read>>

(* The storage event, between two tasks.  Before the page listens nobody    *)
(* hears it.                                                                *)
Hear(t) ==
    /\ phase[t] = "idle"
    /\ due[t] /\ due' = [due EXCEPT ![t] = FALSE]
    /\ IF ready[t]
       THEN /\ shown' = [shown EXCEPT ![t] = cart]
            /\ missed' = [missed EXCEPT ![t] = FALSE]
       ELSE missed' = [missed EXCEPT ![t] = TRUE] /\ UNCHANGED shown
    /\ UNCHANGED <<cart, tabs, task, overtaken>>

(* Cart.add, from the rows and the dialogs of the catalogue.                *)
Add(t, p, q) ==
    /\ page[t] = "list"
    /\ Set(t, [read[t] EXCEPT ![p] = Plus(@, q)])
    /\ UNCHANGED todo

(* Cart.remove, which rewrites the list even without the line.              *)
Remove(t, p) ==
    /\ page[t] = "cart" /\ todo[t] = {} /\ shown[t][p] > 0
    /\ Set(t, [read[t] EXCEPT ![p] = 0])
    /\ UNCHANGED todo

(* What QtyStepper passes on: minus, plus, or a number typed, clamped.      *)
Picked(v) ==
    {IF v = 1 THEN 1 ELSE v - 1, IF v < Most THEN v + 1 ELSE Most} \cup 1..Most
        \cup (IF v = Ceiling THEN {v} ELSE {})

(* Mutant: the items shown are written back. *)
SetQtyOfShown(t, p, q) ==
    /\ page[t] = "cart" /\ todo[t] = {} /\ shown[t][p] > 0 /\ read[t][p] > 0
    /\ Set(t, [shown[t] EXCEPT ![p] = q])
    /\ UNCHANGED todo

(* Cart.setQty, of a line that is shown and may be gone.                    *)
SetQty(t, p, q) ==
    /\ page[t] = "cart" /\ todo[t] = {} /\ shown[t][p] > 0 /\ read[t][p] > 0
    /\ Set(t, [read[t] EXCEPT ![p] = q])
    /\ UNCHANGED todo

(* What a task that began does next.                                        *)
Work(t) ==
    \/ Get(t) /\ phase[t] = "read"
    \/ Show(t)
    \/ \E p \in Products :
           \/ AddDemo(t, p) \/ Remove(t, p)
           \/ \E q \in 1..Most : Add(t, p, q)
           \/ \E q \in Picked(shown[t][p]) : SetQty(t, p, q)

Next ==
    \E t \in Tabs :
        \/ \E k \in Kinds : Open(t, k)
        \/ Close(t) \/ Effects(t) \/ Hear(t) \/ Get(t) \/ Work(t)

(* Effects run, events arrive and a task that began ends; the user owes     *)
(* nothing.                                                                 *)
Fairness == \A t \in Tabs : WF_vars(Effects(t)) /\ WF_vars(Hear(t)) /\ WF_vars(Work(t))

Spec == Init /\ [][Next]_vars /\ Fairness

-----------------------------------------------------------------------------

(* A page shows the cart as it is, unless the news is on its way, came      *)
(* before the page listened, or is the page's own and read next.            *)
StaleIsExplained ==
    \A t \in Tabs :
        Shows(t) => shown[t] = cart \/ due[t] \/ missed[t] \/ phase[t] = "show"

(* A step that changes line p is an operation on it or a confirmed order.   *)
OnPurpose(t, p) ==
    \/ \E q \in 1..Most : Add(t, p, q) /\ cart'[p] = Plus(cart[p], q)
    \/ AddDemo(t, p) /\ cart'[p] > cart[p]
    \/ Remove(t, p)
    \/ cart[p] > 0 /\ \E q \in Picked(shown[t][p]) : SetQty(t, p, q)
    \/ page[t] = "confirmed" /\ Effects(t)

(* A line changes by an operation on it, which starts from the line as it   *)
(* is, or with a confirmed order.  What a page shows, however old, neither  *)
(* brings lines back nor takes others away: only a tab that another one     *)
(* overtook between its Cart.get and its Cart.set does so.                  *)
LinesChangeOnPurpose ==
    [][\A p \in Products : cart'[p] # cart[p] =>
           \E t \in Tabs : OnPurpose(t, p) \/ (overtaken[t] /\ Set(t, cart'))]_vars

(* A page that heard everything comes to show the cart.                     *)
DisplaySettles ==
    \A t \in Tabs : []<>(Shows(t) => shown[t] = cart \/ missed[t])

(* No operation is undone by another: not so when a tab was overtaken,      *)
(* whose Cart.set takes back what the other one did in between.             *)
NothingIsUndone ==
    [][\A p \in Products : cart'[p] # cart[p] => \E t \in Tabs : OnPurpose(t, p)]_vars

=============================================================================
