----------------------------- MODULE CaborStack -----------------------------
(***************************************************************************)
(* cabor_stack of src/src/core/stack.c, and what it uses of cabor_vector   *)
(* (src/src/core/vector.c).  The stack writes the vector's memory behind   *)
(* its back: the vector's size stays 0, and the growth by pushing NULLs    *)
(* starts from there.                                                      *)
(***************************************************************************)
EXTENDS Naturals, Sequences

CONSTANTS
    Element,        \* the pointers on the stack
    NULL,
    StackCapacity   \* the capacity cabor_create_stack is called with

ASSUME NullAssumption == NULL \notin Element
ASSUME CapacityAssumption == StackCapacity \in Nat \ {0}

VARIABLES
    top,        \* stack->top_of_stack
    capacity,   \* stack->capacity
    mem,        \* the elements of the vector's memory
    vsize,      \* stack->memory->size
    popped,     \* what the last pop gave, <<>> before it
    overrun     \* an element was written behind the vector's memory

stackVars == <<top, capacity, mem, vsize, popped, overrun>>

\* mem[i] is mem[i + 1] here; its length is the vector's capacity.
StackTypeOK ==
    /\ top \in Nat
    /\ capacity \in Nat \ {0}
    /\ mem \in Seq(Element \union {NULL})
    /\ vsize \in Nat
    /\ popped \in {<<>>} \union {<<e>> : e \in Element \union {NULL}}
    /\ overrun \in BOOLEAN

StackInit ==
    /\ top = 0
    /\ capacity = StackCapacity
    /\ mem = [i \in 1 .. StackCapacity |-> NULL]
    /\ vsize = 0
    /\ popped = <<>>
    /\ overrun = FALSE

\* The capacity at which n elements fit: vector_resize doubles it as needed.
Doubled(n) ==
    LET Fits(c) == c >= n
        Sizes == {Len(mem) * 2 ^ i : i \in 0 .. n}
    IN  IF Fits(Len(mem)) THEN Len(mem)
        ELSE CHOOSE c \in Sizes : Fits(c) /\ \A d \in Sizes : Fits(d) => c <= d

\* n times cabor_vector_push_ptr(stack->memory, NULL); a resized part is raw.
PushNulls(n) ==
    [i \in 1 .. Doubled(vsize + n) |->
        IF i \in vsize + 1 .. vsize + n \/ i > Len(mem) THEN NULL ELSE mem[i]]

\* Mutant: the stack is grown one element early.
PushGrowsEarly(e) ==
    LET full == top + 1 >= capacity
        base == IF full THEN PushNulls(capacity) ELSE mem
    IN  /\ capacity' = IF full THEN 2 * capacity ELSE capacity
        /\ vsize' = IF full THEN vsize + capacity ELSE vsize
        /\ overrun' = (top >= Len(base))
        /\ mem' = IF top < Len(base) THEN [base EXCEPT ![top + 1] = e] ELSE base
        /\ top' = top + 1
        /\ UNCHANGED popped

\* cabor_stack_push: a full stack is grown, then the element is written.
Push(e) ==
    LET full == top >= capacity
        base == IF full THEN PushNulls(capacity) ELSE mem
    IN  /\ capacity' = IF full THEN 2 * capacity ELSE capacity
        /\ vsize' = IF full THEN vsize + capacity ELSE vsize
        /\ overrun' = (top >= Len(base))
        /\ mem' = IF top < Len(base) THEN [base EXCEPT ![top + 1] = e] ELSE base
        /\ top' = top + 1
        /\ UNCHANGED popped

\* Mutant: the element above the top is read.
PopAbove ==
    /\ top > 0
    /\ popped' = <<IF top < Len(mem) THEN mem[top + 1] ELSE NULL>>
    /\ mem' = [mem EXCEPT ![top] = NULL]
    /\ top' = top - 1
    /\ UNCHANGED <<capacity, vsize, overrun>>

\* Mutant: the top stays where it is.
PopKeepsTop ==
    /\ top > 0
    /\ popped' = <<mem[top]>>
    /\ UNCHANGED <<top, capacity, mem, vsize, overrun>>

\* cabor_stack_pop of a stack that is not empty; it clears the slot.
Pop ==
    /\ top > 0
    /\ popped' = <<mem[top]>>
    /\ mem' = [mem EXCEPT ![top] = NULL]
    /\ top' = top - 1
    /\ UNCHANGED <<capacity, vsize, overrun>>

-----------------------------------------------------------------------------

\* The stack an observer sees; nothing is left to see after an overrun.
Items == IF overrun THEN <<>> ELSE SubSeq(mem, 1, top)

Lifo == INSTANCE AbstractStack
        WITH Depth <- StackCapacity, items <- Items, lost <- overrun
=============================================================================
