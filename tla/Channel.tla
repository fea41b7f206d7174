------------------------------ MODULE Channel ------------------------------
(***************************************************************************)
(* What dlib::pipe promises about the items that go through it: a first in *)
(* first out queue of bounded size.  Every item a thread offers meets      *)
(* exactly one fate: it is refused and stays with its thread, it is taken  *)
(* by one thread, or it is dropped with all the others by empty().  A      *)
(* channel of size 0 holds nothing: an item is passed from hand to hand    *)
(* before the call that offered it returns.                                *)
(***************************************************************************)
EXTENDS Naturals, Sequences

CONSTANTS MaxItems      \* items are numbered in the order they are offered

VARIABLES
    capacity,
    content,            \* the items in the channel, the oldest first
    fate                \* what became of the items offered so far

vars == <<capacity, content, fate>>

Fates == {"offered", "held", "passed", "taken", "dropped", "refused"}

Init ==
    /\ capacity \in Nat
    /\ content = <<>>
    /\ fate = <<>>

(* an item is settled by the call that offers it, or later *)
Settle(i, f) ==
    \/ /\ i = Len(fate) + 1 /\ i <= MaxItems
       /\ fate' = Append(fate, f)
    \/ /\ i \in DOMAIN fate /\ fate[i] = "offered"
       /\ fate' = [fate EXCEPT ![i] = f]

Offer(i) == Settle(i, "offered") /\ UNCHANGED <<capacity, content>>

Refuse(i) == Settle(i, "refused") /\ UNCHANGED <<capacity, content>>

Put(i) ==
    /\ Len(content) < capacity
    /\ content' = Append(content, i)
    /\ Settle(i, "held")
    /\ UNCHANGED capacity

Get ==
    /\ content # <<>>
    /\ content' = Tail(content)
    /\ fate' = [fate EXCEPT ![Head(content)] = "taken"]
    /\ UNCHANGED capacity

(* with no room at all, i goes straight to a thread that wants it, *)
(* and then the call that offered it returns true                  *)
Pass(i) ==
    /\ capacity = 0
    /\ i \in DOMAIN fate /\ fate[i] = "offered"
    /\ fate' = [fate EXCEPT ![i] = "passed"]
    /\ UNCHANGED <<capacity, content>>

Passed(i) ==
    /\ i \in DOMAIN fate /\ fate[i] = "passed"
    /\ fate' = [fate EXCEPT ![i] = "taken"]
    /\ UNCHANGED <<capacity, content>>

Clear ==
    /\ content' = <<>>
    /\ fate' = [i \in DOMAIN fate |-> IF fate[i] = "held" THEN "dropped" ELSE fate[i]]
    /\ UNCHANGED capacity

Next ==
    \/ \E i \in 1 .. MaxItems :
          Offer(i) \/ Refuse(i) \/ Put(i) \/ Pass(i) \/ Passed(i)
    \/ Get
    \/ Clear

Spec == Init /\ [][Next]_vars
=============================================================================
