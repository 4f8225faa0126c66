---------------------------- MODULE CardHolding ----------------------------
(***************************************************************************)
(* What the card inventory promises (docs/03-attendance-and-cards.md,      *)
(* E.1 and E.2): a student holds at most one card, and a card leaves the   *)
(* stock once, for one student or for nobody, and never comes back.        *)
(***************************************************************************)
CONSTANTS Card, Student

VARIABLES
    hand,   \* the cards each student holds
    spent   \* the cards that have left the stock

Init ==
    /\ hand = [s \in Student |-> {}]
    /\ spent = {}

Fresh(c) == c \notin spent

\* An empty hand receives a fresh card.
Give(s, c) ==
    /\ hand[s] = {}
    /\ Fresh(c)
    /\ hand' = [hand EXCEPT ![s] = {c}]
    /\ spent' = spent \cup {c}

\* A full hand swaps its card for a fresh one in one step.
Swap(s, c) ==
    /\ hand[s] # {}
    /\ Fresh(c)
    /\ hand' = [hand EXCEPT ![s] = {c}]
    /\ spent' = spent \cup {c}

\* Lost or disabled while somebody held it.
TakeBack(s) ==
    /\ hand[s] # {}
    /\ hand' = [hand EXCEPT ![s] = {}]
    /\ UNCHANGED spent

\* Lost, disabled or deleted in stock.
Discard(c) ==
    /\ Fresh(c)
    /\ spent' = spent \cup {c}
    /\ UNCHANGED hand

Next ==
    \/ \E s \in Student, c \in Card : Give(s, c) \/ Swap(s, c)
    \/ \E s \in Student : TakeBack(s)
    \/ \E c \in Card : Discard(c)

Spec == Init /\ [][Next]_<<hand, spent>>
=============================================================================
