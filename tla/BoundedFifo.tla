---------------------------- MODULE BoundedFifo ----------------------------
(***************************************************************************)
(* What a FIFO of the SDE promises to the blocks on its two sides: entries *)
(* leave it once each and in the order they entered, and it never holds    *)
(* more than Capacity of them.  In one clock an entry may enter, one may   *)
(* leave, or both.  An entry that enters is not visible to the consumer in *)
(* the same clock, so it cannot also leave in it.                          *)
(***************************************************************************)
EXTENDS Naturals, Sequences

CONSTANTS Entry,     \* what the FIFO holds
          Capacity   \* the most it may hold

VARIABLE q           \* the entries, oldest first

Init == q = << >>

Put(e) == /\ Len(q) < Capacity
          /\ q' = Append(q, e)

Get == /\ q # << >>
       /\ q' = Tail(q)

PutGet(e) == /\ q # << >>
             /\ q' = Append(Tail(q), e)

Next == \/ \E e \in Entry : Put(e) \/ PutGet(e)
        \/ Get

Spec == Init /\ [][Next]_q
=============================================================================
