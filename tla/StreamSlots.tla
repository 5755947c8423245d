----------------------------- MODULE StreamSlots -----------------------------
(***************************************************************************)
(* What the streams of a connection promise the requests sent on it: a     *)
(* fixed number of slots.  A request takes one when one is free, gives it  *)
(* back when everybody is through with it, and does so once.               *)
(***************************************************************************)
EXTENDS Integers, FiniteSets

CONSTANTS Calls, Limits

VARIABLES
    slot,     \* each call's: "none" yet, "held", or "back"
    slots     \* how many there are

vars == <<slot, slots>>

Held == {c \in Calls : slot[c] = "held"}

Init ==
    /\ slot = [c \in Calls |-> "none"]
    /\ slots \in Limits

Take(c) ==
    /\ slot[c] = "none" /\ Cardinality(Held) < slots
    /\ slot' = [slot EXCEPT ![c] = "held"]
    /\ UNCHANGED slots

GiveBack(c) ==
    /\ slot[c] = "held"
    /\ slot' = [slot EXCEPT ![c] = "back"]
    /\ UNCHANGED slots

Next == \E c \in Calls : Take(c) \/ GiveBack(c)

Spec == Init /\ [][Next]_vars

=============================================================================
