---------------------------- MODULE MCDeckStage ----------------------------
(* A deck of two slides and one that may be added, and the index           *)
(* arithmetic of deletions on decks of up to five.                         *)
EXTENDS DeckStage

CONSTANTS a, b, c

MCDeck == <<a, b>>

(* What stays of 1..n, in order, shows at the new index the current slide, *)
(* or else the next one, or else the last.                                 *)
ASSUME DeletionKeepsPlace ==
    \A n \in 2..5 : \A cur \in 1..n, list \in SUBSET (1..n) \ {{}, 1..n} :
        LET stays == SelectSeq([i \in 1..n |-> i], LAMBDA i : i \notin list)
            after == {i \in 1..n \ list : i >= cur}
            goal == IF after # {} THEN Min(after) ELSE Max(1..n \ list)
        IN /\ stays[IndexAfterRemoveMany(cur, n, list)] = goal
           /\ \A i \in list : list = {i} => stays[IndexAfterRemove(cur, n, i)] = goal

(* What Without keeps of 1..n is what a filter keeps, in the same order.   *)
ASSUME WithoutFilters ==
    \A n \in 1..5 : \A list \in SUBSET (1..n) :
        LET kept == 1..n \ list
        IN SelectSeq([i \in 1..n |-> i], LAMBDA i : i \notin list) =
           [k \in 1..Cardinality(kept) |->
               CHOOSE i \in kept : Cardinality({j \in kept : j < i}) = k - 1]
=============================================================================
