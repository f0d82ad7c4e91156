---------------------------- MODULE CaborAstList ----------------------------
(***************************************************************************)
(* cabor_free_ast of src/src/language/parser.c: the tree is listed by      *)
(* depth-first search on a cabor_stack (cabor_get_ast_node_list_al), then  *)
(* every node of the list is freed.                                        *)
(*                                                                         *)
(* A node is a number and greater than its parent; its edges go to its     *)
(* children in order.  The capacity of 100 is StackCapacity.               *)
(***************************************************************************)
EXTENDS CaborStack, FiniteSets

CONSTANTS NodeCount

Node == 1 .. NodeCount
Root == 1

ASSUME NodeAssumption == NodeCount \in Nat \ {0} /\ Element = Node

VARIABLES
    parent, \* the tree
    nodes,  \* the list so far
    todo,   \* the edges of the node just listed that are still to be pushed
    phase,  \* "start", "listing", "freeing" or "done"
    heap,   \* the nodes that are allocated
    freed   \* how much of the list has been freed

astVars == <<parent, nodes, todo, phase, heap, freed>>
vars == <<stackVars, astVars>>

Trees == {p \in [Node -> 0 .. NodeCount - 1] :
              p[Root] = 0 /\ \A n \in Node \ {Root} : p[n] \in 1 .. n - 1}

TypeOK ==
    /\ StackTypeOK
    /\ parent \in Trees
    /\ nodes \in Seq(Node)
    /\ todo \in SUBSET Node
    /\ phase \in {"start", "listing", "freeing", "done"}
    /\ heap \in SUBSET Node
    /\ freed \in Nat

Init ==
    /\ StackInit
    /\ parent \in Trees
    /\ nodes = <<>>
    /\ todo = {}
    /\ phase = "start"
    /\ heap = Node
    /\ freed = 0

Listed == {nodes[i] : i \in DOMAIN nodes}
Edges(n) == {m \in Node : parent[m] = n}

PushRoot ==
    /\ phase = "start"
    /\ Push(Root)
    /\ phase' = "listing"
    /\ UNCHANGED <<parent, nodes, todo, heap, freed>>

\* is_visited, then the node goes to the list and its edges are walked.
Visit ==
    /\ phase = "listing" /\ todo = {}
    /\ Pop
    /\ LET n == popped'[1] IN
        /\ nodes' = IF n \in Listed THEN nodes ELSE Append(nodes, n)
        /\ todo' = IF n \in Listed \/ n = NULL THEN {} ELSE Edges(n)
    /\ UNCHANGED <<parent, phase, heap, freed>>

\* Mutant: the last edge is left out.
PushAllButLast ==
    /\ phase = "listing" /\ Cardinality(todo) > 0
    /\ \E n \in todo :
          /\ \A m \in todo : n <= m
          /\ IF Cardinality(todo) = 1 THEN UNCHANGED stackVars ELSE Push(n)
          /\ todo' = todo \ {n}
    /\ UNCHANGED <<parent, nodes, phase, heap, freed>>

PushEdge ==
    /\ phase = "listing"
    /\ \E n \in todo :
          /\ \A m \in todo : n <= m
          /\ Push(n)
          /\ todo' = todo \ {n}
    /\ UNCHANGED <<parent, nodes, phase, heap, freed>>

\* The stack is empty: it is destroyed and the list is returned.
Return ==
    /\ phase = "listing" /\ todo = {} /\ top = 0
    /\ phase' = "freeing"
    /\ UNCHANGED <<stackVars, parent, nodes, todo, heap, freed>>

FreeNode ==
    /\ phase = "freeing" /\ freed < Len(nodes)
    /\ heap' = heap \ {nodes[freed + 1]}
    /\ freed' = freed + 1
    /\ UNCHANGED <<stackVars, parent, nodes, todo, phase>>

Finish ==
    /\ phase = "freeing" /\ freed = Len(nodes)
    /\ phase' = "done"
    /\ UNCHANGED <<stackVars, parent, nodes, todo, heap, freed>>

\* What a program does whose memory is overrun is not modelled.
Next == /\ ~overrun
        /\ PushRoot \/ Visit \/ PushEdge \/ Return \/ FreeNode \/ Finish

Spec == Init /\ [][Next]_vars
FairSpec == Spec /\ WF_vars(Next)

-----------------------------------------------------------------------------
(* Properties. *)

Pending == {mem[i] : i \in 1 .. top}

(***************************************************************************)
(* No branch is forgotten on the way: when a node has been listed, each of *)
(* its children is listed, on the stack, or about to be pushed, and in     *)
(* only one of these places.                                               *)
(***************************************************************************)
NothingForgotten ==
    ~overrun =>
        /\ \A n \in Node \ {Root} :
              parent[n] \in Listed => n \in Listed \union Pending \union todo
        /\ Listed \intersect Pending = {}
        /\ todo \intersect (Listed \union Pending) = {}
        /\ \A i, j \in 1 .. top : mem[i] = mem[j] => i = j

(***************************************************************************)
(* The list is the whole tree, each node once, and freeing along it leaves *)
(* nothing allocated and frees nothing twice ("Free the whole tree",       *)
(* parser.c:857).                                                          *)
(***************************************************************************)
WholeTree ==
    ~overrun =>
        /\ phase = "freeing" => Listed = Node /\ Len(nodes) = NodeCount
        /\ phase = "done" => heap = {}

(***************************************************************************)
(* cabor_stack is last in, first out up to the capacity it was made with;  *)
(* the element after that is the first that is not kept.                   *)
(***************************************************************************)
IsLifo == Lifo!Spec

(***************************************************************************)
(* The search ends: the stack runs empty and the whole list is freed,      *)
(* unless the stack overran its memory.                                    *)
(***************************************************************************)
Terminates == <>(phase = "done" \/ overrun)

(***************************************************************************)
(* Pushing to a full stack makes room first: "pushing stack_capacity       *)
(* number of elements effectively doubles the size" (stack.c:25-27).       *)
(***************************************************************************)
GrowthMakesRoom == ~overrun
=============================================================================
