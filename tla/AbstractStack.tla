--------------------------- MODULE AbstractStack ---------------------------
(***************************************************************************)
(* What cabor_stack gives its user: last in, first out, as long as no more *)
(* than Depth elements are on it.  One more, and nothing is promised.      *)
(***************************************************************************)
EXTENDS Naturals, Sequences

CONSTANTS Element, Depth

VARIABLES
    items,  \* bottom to top
    popped, \* the element popped last, if any
    lost    \* an element too many was pushed

vars == <<items, popped, lost>>

Init == items = <<>> /\ popped = <<>> /\ lost = FALSE

Push(e) ==
    /\ Len(items) < Depth
    /\ items' = Append(items, e)
    /\ UNCHANGED <<popped, lost>>

Overflow ==
    /\ Len(items) = Depth
    /\ lost' = TRUE
    /\ items' = <<>>
    /\ UNCHANGED popped

Pop ==
    /\ items # <<>>
    /\ popped' = <<items[Len(items)]>>
    /\ items' = SubSeq(items, 1, Len(items) - 1)
    /\ UNCHANGED lost

Next ==
    /\ ~lost
    /\ (\E e \in Element : Push(e)) \/ Overflow \/ Pop

Spec == Init /\ [][Next]_vars
=============================================================================
