--------------------------- MODULE AstListProofs ---------------------------
(***************************************************************************)
(* Proofs about CaborAstList and the stack under it, for every tree and    *)
(* every capacity: the stack is last in, first out while it fits, the      *)
(* search forgets no branch, and its list is the whole tree.               *)
(***************************************************************************)
EXTENDS CaborAstList, FiniteSetTheorems, WellFoundedInduction, TLAPS

\* Until the stack overruns its memory it has never been grown.
StackInv ==
    ~overrun =>
        /\ capacity = StackCapacity
        /\ mem \in [1 .. StackCapacity -> Node \union {NULL}]
        /\ vsize = 0
        /\ top \in 0 .. StackCapacity
        /\ \A i \in 1 .. top : mem[i] \in Node

ListInv ==
    /\ overrun \in BOOLEAN
    /\ parent \in [Node -> 0 .. NodeCount - 1]
    /\ nodes \in Seq(Node)
    /\ todo \in SUBSET Node
    /\ phase = "start" => top = 0 /\ nodes = <<>> /\ todo = {}
    /\ \A n \in todo : parent[n] \in Listed

\* A node comes to the stack or the list only behind its parent.
ParentFirst ==
    ~overrun => \A n \in Listed \union Pending : n # Root => parent[n] \in Listed

IInv == StackInv /\ ListInv /\ parent \in Trees /\ ParentFirst /\ NothingForgotten

-----------------------------------------------------------------------------

LEMMA MemLength == StackInv /\ ~overrun => Len(mem) = StackCapacity
  <1> SUFFICES ASSUME StackInv, ~overrun PROVE Len(mem) = StackCapacity
    OBVIOUS
  <1>1. mem \in [1 .. StackCapacity -> Node \union {NULL}] /\ StackCapacity \in Nat
    BY CapacityAssumption DEF StackInv
  <1>2. mem \in Seq(Node \union {NULL}) /\ DOMAIN mem = 1 .. StackCapacity
    BY <1>1
  <1> QED
    BY <1>1, <1>2

\* A push onto a stack with room left writes one slot and nothing else.
LEMMA PushFits ==
    ASSUME StackInv, ~overrun, NEW e \in Node, Push(e), top < StackCapacity
    PROVE  /\ overrun' = FALSE
           /\ capacity' = capacity /\ vsize' = vsize /\ popped' = popped
           /\ mem' = [mem EXCEPT ![top + 1] = e]
           /\ top' = top + 1
  <1>1. /\ capacity = StackCapacity /\ Len(mem) = StackCapacity
        /\ top \in Nat /\ StackCapacity \in Nat
    BY CapacityAssumption, MemLength DEF StackInv
  <1>2. ~(top >= capacity) /\ ~(top >= Len(mem)) /\ top < Len(mem)
    BY <1>1
  <1>3. overrun' = (top >= Len(mem))
    BY <1>2, Zenon DEF Push
  <1>4. capacity' = capacity /\ vsize' = vsize /\ popped' = popped /\ top' = top + 1
    BY <1>2, Zenon DEF Push
  <1>5. mem' = [mem EXCEPT ![top + 1] = e]
    BY <1>2, Zenon DEF Push
  <1>6. overrun' = FALSE
    <2>1. overrun' \in BOOLEAN
      BY <1>3
    <2>2. ~overrun'
      BY <1>2, <1>3, Zenon
    <2> QED
      BY <2>1, <2>2
  <1> QED
    BY <1>4, <1>5, <1>6

\* A push onto a full stack: the NULLs fill the vector and do not grow it.
LEMMA PushOverruns ==
    ASSUME StackInv, ~overrun, NEW e \in Node, Push(e), top >= StackCapacity
    PROVE  overrun' = TRUE /\ popped' = popped
  <1>1. /\ top = StackCapacity /\ capacity = StackCapacity /\ vsize = 0
        /\ Len(mem) = StackCapacity /\ StackCapacity \in Nat
    BY CapacityAssumption, MemLength DEF StackInv
  <1>2. Doubled(vsize + capacity) = StackCapacity
    BY <1>1 DEF Doubled
  <1>3. Len(PushNulls(capacity)) = StackCapacity
    BY <1>1, <1>2 DEF PushNulls
  <1> QED
    BY <1>1, <1>3 DEF Push

\* What the two cases leave of StackInv.
LEMMA PushKeepsStack ==
    ASSUME StackInv, ~overrun, NEW e \in Node, Push(e)
    PROVE  /\ StackInv'
           /\ ~overrun' => /\ top < StackCapacity
                           /\ mem' = [mem EXCEPT ![top + 1] = e]
                           /\ top' = top + 1
           /\ overrun' \in BOOLEAN
  <1>1. CASE top < StackCapacity
    <2>1. /\ overrun' = FALSE
          /\ capacity' = capacity /\ vsize' = vsize
          /\ mem' = [mem EXCEPT ![top + 1] = e]
          /\ top' = top + 1
      BY <1>1, PushFits
    <2>2. /\ mem \in [1 .. StackCapacity -> Node \union {NULL}]
          /\ top + 1 \in 1 .. StackCapacity
          /\ \A i \in 1 .. top : mem[i] \in Node
      BY <1>1, CapacityAssumption DEF StackInv
    <2>3. /\ mem' \in [1 .. StackCapacity -> Node \union {NULL}]
          /\ mem'[top + 1] = e
          /\ \A i \in 1 .. top : mem'[i] = mem[i]
      <3>1. \A i \in 1 .. top : i \in 1 .. StackCapacity /\ i # top + 1
        BY CapacityAssumption DEF StackInv
      <3> QED
        BY <2>1, <2>2, <3>1
    <2>4. \A i \in 1 .. top + 1 : mem'[i] \in Node
      <3>1. \A i \in 1 .. top + 1 : i \in 1 .. top \/ i = top + 1
        BY CapacityAssumption DEF StackInv
      <3> QED
        BY <2>2, <2>3, <3>1
    <2>5. StackInv'
      BY <2>1, <2>2, <2>3, <2>4, CapacityAssumption DEF StackInv
    <2> QED
      BY <1>1, <2>1, <2>5
  <1>2. CASE top >= StackCapacity
    BY <1>2, PushOverruns DEF StackInv
  <1>3. top \in Nat /\ StackCapacity \in Nat
    BY CapacityAssumption DEF StackInv
  <1> QED
    BY <1>1, <1>2, <1>3

\* A pop keeps what is known of the stack and returns its top.
LEMMA PopKeepsStack ==
    ASSUME StackInv, ~overrun, Pop
    PROVE  /\ StackInv' /\ overrun' = FALSE
           /\ top \in 1 .. StackCapacity /\ top' = top - 1
           /\ popped'[1] = mem[top] /\ mem[top] \in Node
           /\ \A i \in 1 .. top - 1 : mem'[i] = mem[i]
  <1>1. /\ mem \in [1 .. StackCapacity -> Node \union {NULL}]
        /\ top \in 1 .. StackCapacity
        /\ mem' = [mem EXCEPT ![top] = NULL]
        /\ top' = top - 1 /\ capacity' = capacity /\ vsize' = vsize
        /\ overrun' = overrun /\ overrun' = FALSE
        /\ popped' = <<mem[top]>>
        /\ \A i \in 1 .. top : mem[i] \in Node
    BY CapacityAssumption DEF StackInv, Pop
  <1>2. /\ mem' \in [1 .. StackCapacity -> Node \union {NULL}]
        /\ \A i \in 1 .. top - 1 : mem'[i] = mem[i]
    BY <1>1
  <1>3. popped'[1] = mem[top] /\ mem[top] \in Node
    BY <1>1
  <1>4. top - 1 \in 0 .. StackCapacity /\ \A i \in 1 .. top - 1 : i \in 1 .. top
    BY <1>1, CapacityAssumption
  <1>5. StackInv'
    BY <1>1, <1>2, <1>4 DEF StackInv
  <1> QED
    BY <1>1, <1>2, <1>3, <1>5

-----------------------------------------------------------------------------

\* The search starts with everything still to be found.
LEMMA InitIInv == Init => IInv
  <1> SUFFICES ASSUME Init PROVE IInv
    OBVIOUS
  <1>1. StackInv
    BY CapacityAssumption DEF Init, StackInit, StackInv
  <1>2. ListInv
    <2>1. parent \in [Node -> 0 .. NodeCount - 1]
      BY DEF Init, Trees
    <2>2. overrun \in BOOLEAN /\ top = 0 /\ nodes = <<>> /\ todo = {}
      BY DEF Init, StackInit
    <2> QED
      BY <2>1, <2>2 DEF ListInv
  <1>4. ParentFirst
    BY DEF Init, StackInit, ParentFirst, Listed, Pending
  <1>3. NothingForgotten
    BY DEF Init, StackInit, NothingForgotten, Listed, Pending, Trees, Node
  <1> QED
    BY <1>1, <1>2, <1>3, <1>4 DEF IInv, Init

\* An edge pushed moves a child from todo to the stack.
LEMMA PushEdgeKeeps ==
    ASSUME IInv, ~overrun, PushEdge
    PROVE  IInv'
  <1>1. PICK n \in todo : Push(n) /\ todo' = todo \ {n}
    BY DEF PushEdge
  <1>2. n \in Node /\ UNCHANGED <<parent, nodes, phase>> /\ phase = "listing"
    BY DEF PushEdge, IInv, ListInv
  <1>3. /\ StackInv'
        /\ ~overrun' => /\ top < StackCapacity
                        /\ mem' = [mem EXCEPT ![top + 1] = n]
                        /\ top' = top + 1
        /\ overrun' \in BOOLEAN
    BY <1>1, <1>2, PushKeepsStack DEF IInv
  <1>4. ListInv'
    BY <1>1, <1>2, <1>3 DEF IInv, ListInv, Listed
  <1>5. ASSUME ~overrun'
        PROVE  /\ Pending' = Pending \union {n}
               /\ \A i, j \in 1 .. top' : mem'[i] = mem'[j] => i = j
    <2>1. /\ mem \in [1 .. StackCapacity -> Node \union {NULL}]
          /\ top \in Nat /\ top + 1 \in 1 .. StackCapacity /\ top' = top + 1
          /\ mem' = [mem EXCEPT ![top + 1] = n]
      BY <1>3, <1>5, CapacityAssumption DEF IInv, StackInv
    <2>2. /\ mem'[top + 1] = n
          /\ \A i \in 1 .. top : mem'[i] = mem[i]
          /\ \A i \in 1 .. top + 1 : i \in 1 .. top \/ i = top + 1
      BY <2>1
    <2>3. \A i \in 1 .. top : mem[i] # n
      BY <1>1 DEF IInv, NothingForgotten, Pending
    <2> QED
      BY <2>1, <2>2, <2>3 DEF Pending, IInv, NothingForgotten
  <1>6. Listed' = Listed
    BY <1>2 DEF Listed
  <1>7. NothingForgotten'
    BY <1>1, <1>2, <1>5, <1>6 DEF IInv, NothingForgotten
  <1>8. ParentFirst'
    BY <1>1, <1>2, <1>5, <1>6 DEF IInv, ParentFirst, ListInv
  <1> QED
    BY <1>2, <1>3, <1>4, <1>7, <1>8 DEF IInv, Trees

\* A node popped moves to the list, its children to todo.
LEMMA VisitKeeps ==
    ASSUME IInv, ~overrun, Visit
    PROVE  IInv'
  <1> DEFINE n == popped'[1]
  <1>1. /\ StackInv' /\ overrun' = FALSE
        /\ top \in 1 .. StackCapacity /\ top' = top - 1
        /\ n = mem[top] /\ mem[top] \in Node
        /\ \A i \in 1 .. top - 1 : mem'[i] = mem[i]
    BY PopKeepsStack DEF Visit, IInv
  <1>2. /\ todo = {} /\ UNCHANGED <<parent, phase>> /\ phase = "listing"
    BY DEF Visit
  <1>3. n \in Pending /\ n \notin Listed /\ n # NULL
    BY <1>1, NullAssumption, NodeAssumption DEF Pending, IInv, NothingForgotten
  <1>4. nodes' = Append(nodes, n) /\ todo' = Edges(n)
    BY <1>3 DEF Visit
  <1> HIDE DEF n
  <1>5. Listed' = Listed \union {n} /\ nodes' \in Seq(Node)
    <2>1. nodes \in Seq(Node) /\ n \in Node
      BY <1>1 DEF IInv, ListInv
    <2>2. /\ nodes' \in Seq(Node) /\ Len(nodes') = Len(nodes) + 1
          /\ Len(nodes) \in Nat
          /\ DOMAIN nodes = 1 .. Len(nodes) /\ DOMAIN nodes' = 1 .. Len(nodes) + 1
          /\ nodes'[Len(nodes) + 1] = n
          /\ \A i \in 1 .. Len(nodes) : nodes'[i] = nodes[i]
      BY <1>4, <2>1
    <2>3. \A i \in 1 .. Len(nodes) + 1 : i \in 1 .. Len(nodes) \/ i = Len(nodes) + 1
      BY <2>2
    <2> QED
      BY <2>2, <2>3 DEF Listed
  <1>6. /\ Pending' = Pending \ {n}
        /\ \A i, j \in 1 .. top' : mem'[i] = mem'[j] => i = j
    <2>1. \A i \in 1 .. top - 1 : i \in 1 .. top /\ i # top
      BY <1>1, CapacityAssumption
    <2>2. \A i \in 1 .. top : i \in 1 .. top - 1 \/ i = top
      BY <1>1, CapacityAssumption
    <2>3. top \in 1 .. top
      BY <1>1, CapacityAssumption
    <2>4. \A i \in 1 .. top - 1 : mem[i] # n
      BY <1>1, <2>1, <2>3 DEF IInv, NothingForgotten
    <2>5. Pending' = {mem[i] : i \in 1 .. top - 1}
      BY <1>1 DEF Pending
    <2> QED
      BY <1>1, <2>1, <2>2, <2>4, <2>5 DEF Pending, IInv, NothingForgotten
  <1>7. ListInv'
    BY <1>1, <1>2, <1>4, <1>5 DEF IInv, ListInv, Edges
  <1>8. \A m \in Edges(n) : m \in Node \ {Root} /\ m # n /\ parent[m] = n
    <2>1. n \in 1 .. NodeCount
      BY <1>1 DEF Node
    <2>2. ASSUME NEW m \in Node, parent[m] = n
          PROVE  m # Root /\ m # n
      <3>1. m # Root
        BY <2>1, <2>2 DEF IInv, Trees
      <3>2. parent[m] \in 1 .. m - 1 /\ m \in Nat
        BY <3>1, NodeAssumption DEF IInv, Trees, Node
      <3> QED
        BY <2>2, <3>1, <3>2
    <2> QED
      BY <2>2 DEF Edges
  <1>9. \A m \in Edges(n) : m \notin Listed \union Pending
    BY <1>3, <1>8 DEF IInv, ParentFirst
  <1>10. ParentFirst'
    <2>1. n # Root => parent[n] \in Listed
      BY <1>3 DEF IInv, ParentFirst
    <2> QED
      BY <1>1, <1>2, <1>5, <1>6, <2>1 DEF IInv, ParentFirst
  <1>11. NothingForgotten'
    <2>1. \A m \in Node \ {Root} :
             parent'[m] \in Listed' => m \in Listed' \union Pending' \union todo'
      BY <1>2, <1>4, <1>5, <1>6 DEF IInv, NothingForgotten, Edges
    <2>2. Listed' \intersect Pending' = {}
      BY <1>5, <1>6 DEF IInv, NothingForgotten
    <2>3. todo' \intersect (Listed' \union Pending') = {}
      BY <1>4, <1>5, <1>6, <1>8, <1>9
    <2> QED
      BY <1>6, <2>1, <2>2, <2>3 DEF NothingForgotten
  <1> QED
    BY <1>1, <1>2, <1>7, <1>10, <1>11 DEF IInv, Trees

\* The root is pushed onto an empty stack.
LEMMA PushRootKeeps ==
    ASSUME IInv, ~overrun, PushRoot
    PROVE  IInv'
  <1>1. /\ Push(Root) /\ Root \in Node
        /\ phase' = "listing" /\ top = 0 /\ nodes = <<>> /\ todo = {}
        /\ UNCHANGED <<parent, nodes, todo>>
    BY NodeAssumption DEF PushRoot, IInv, ListInv, Node, Root
  <1>2. /\ StackInv'
        /\ ~overrun' => /\ mem' = [mem EXCEPT ![1] = Root]
                        /\ top' = 1
        /\ overrun' \in BOOLEAN
    BY <1>1, PushKeepsStack DEF IInv
  <1>3. Listed' = {}
    BY <1>1 DEF Listed
  <1>4. ~overrun' => Pending' = {Root}
    <2> SUFFICES ASSUME ~overrun' PROVE Pending' = {Root}
      OBVIOUS
    <2>1. mem \in [1 .. StackCapacity -> Node \union {NULL}] /\ 1 \in 1 .. StackCapacity
      BY CapacityAssumption DEF IInv, StackInv
    <2>2. mem'[1] = Root /\ top' = 1
      BY <1>2, <2>1
    <2>3. 1 .. top' = {1}
      BY <2>2
    <2> QED
      BY <2>2, <2>3 DEF Pending
  <1>5. ListInv'
    BY <1>1, <1>2 DEF IInv, ListInv
  <1>6. ParentFirst'
    BY <1>4, <1>3 DEF ParentFirst
  <1>7. NothingForgotten'
    <2>1. ~overrun' => \A i, j \in 1 .. top' : i = j
      BY <1>2
    <2> QED
      BY <1>1, <1>3, <2>1 DEF NothingForgotten
  <1> QED
    BY <1>1, <1>2, <1>5, <1>6, <1>7 DEF IInv, Trees

\* The steps that touch neither the stack nor the list.
LEMMA OthersKeep ==
    ASSUME IInv, phase' # "start" \/ phase' = phase,
           UNCHANGED <<top, capacity, mem, vsize, overrun, parent, nodes, todo>>
    PROVE  IInv'
  <1>1. Listed' = Listed /\ Pending' = Pending
    BY DEF Listed, Pending
  <1>2. StackInv' /\ ParentFirst' /\ NothingForgotten' /\ (parent \in Trees)'
    BY <1>1 DEF IInv, StackInv, ParentFirst, NothingForgotten, Trees
  <1>3. ListInv'
    BY <1>1 DEF IInv, ListInv
  <1> QED
    BY <1>2, <1>3 DEF IInv

\* The invariant is inductive.
LEMMA StepKeeps == IInv /\ [Next]_vars => IInv'
  <1> SUFFICES ASSUME IInv, [Next]_vars PROVE IInv'
    OBVIOUS
  <1>1. CASE ~overrun /\ PushRoot
    BY <1>1, PushRootKeeps
  <1>2. CASE ~overrun /\ Visit
    BY <1>2, VisitKeeps
  <1>3. CASE ~overrun /\ PushEdge
    BY <1>3, PushEdgeKeeps
  <1>4. CASE Return \/ FreeNode \/ Finish
    BY <1>4, OthersKeep DEF Return, FreeNode, Finish, stackVars
  <1>5. CASE UNCHANGED vars
    BY <1>5, OthersKeep DEF vars, stackVars, astVars
  <1> QED
    BY <1>1, <1>2, <1>3, <1>4, <1>5 DEF Next

(***************************************************************************)
(* The search of cabor_get_ast_node_list_al forgets no branch of any tree, *)
(* as long as the stack does not overrun its memory.                       *)
(***************************************************************************)
THEOREM Complete == Spec => []NothingForgotten
  <1>1. IInv => NothingForgotten
    BY DEF IInv
  <1> QED
    BY <1>1, InitIInv, StepKeeps, PTL DEF Spec

-----------------------------------------------------------------------------

\* The items of a stack that fits, one by one.
ItemsFact ==
    /\ Items \in Seq(Node) /\ Len(Items) = top /\ top \in 0 .. StackCapacity
    /\ \A i \in 1 .. top : Items[i] = mem[i]

\* What an observer sees of the stack is the part of mem below the top.
LEMMA ItemsAre == StackInv /\ ~overrun => ItemsFact
  <1> SUFFICES ASSUME StackInv, ~overrun PROVE ItemsFact
    OBVIOUS
  <1>1. /\ mem \in [1 .. StackCapacity -> Node \union {NULL}]
        /\ top \in 0 .. StackCapacity /\ StackCapacity \in Nat
        /\ \A i \in 1 .. top : mem[i] \in Node
    BY CapacityAssumption DEF StackInv
  <1>2. mem \in Seq(Node \union {NULL}) /\ Len(mem) = StackCapacity
    BY <1>1, MemLength
  <1>3. Items = SubSeq(mem, 1, top)
    BY DEF Items
  <1>4. Len(Items) = top /\ \A i \in 1 .. top : Items[i] = mem[i]
    BY <1>1, <1>2, <1>3
  <1>5. Items \in Seq(Node \union {NULL})
    BY <1>1, <1>2, <1>3
  <1>6. Items \in Seq(Node)
    BY <1>1, <1>4, <1>5
  <1> QED
    BY <1>1, <1>4, <1>6 DEF ItemsFact

\* Sequences that agree in length and in every element are equal.
LEMMA SameSequence ==
    ASSUME NEW r \in Seq(Node), NEW s \in Seq(Node), Len(r) = Len(s),
           \A i \in 1 .. Len(s) : r[i] = s[i]
    PROVE  r = s
  OBVIOUS

\* A push is AbstractStack's Push or its Overflow.
LEMMA PushIsLifo ==
    ASSUME IInv, IInv', ~overrun, NEW e \in Node, Push(e)
    PROVE  Lifo!Push(e) \/ Lifo!Overflow
  <1>0. StackInv /\ StackInv' /\ StackCapacity \in Nat
    BY CapacityAssumption DEF IInv
  <1>1. Items \in Seq(Node) /\ Len(Items) = top /\ top \in 0 .. StackCapacity
        /\ \A i \in 1 .. top : Items[i] = mem[i]
    BY <1>0, ItemsAre DEF ItemsFact
  <1>2. CASE top < StackCapacity
    <2>1. /\ overrun' = FALSE /\ popped' = popped
          /\ mem' = [mem EXCEPT ![top + 1] = e]
          /\ top' = top + 1
      BY <1>0, <1>2, PushFits
    <2>2. /\ mem \in [1 .. StackCapacity -> Node \union {NULL}]
          /\ top + 1 \in 1 .. StackCapacity
          /\ \A i \in 1 .. top : i \in 1 .. StackCapacity /\ i # top + 1
      BY <1>0, <1>1, <1>2 DEF StackInv
    <2>3. mem'[top + 1] = e /\ \A i \in 1 .. top : mem'[i] = mem[i]
      BY <2>1, <2>2
    <2>4. Items' \in Seq(Node) /\ Len(Items') = top + 1
          /\ \A i \in 1 .. top + 1 : Items'[i] = mem'[i]
      <3>1. StackInv' /\ ~overrun' => ItemsFact'
        BY ItemsAre, PTL
      <3> QED
        BY <1>0, <2>1, <3>1 DEF ItemsFact
    <2>5. /\ Append(Items, e) \in Seq(Node) /\ Len(Append(Items, e)) = top + 1
          /\ Append(Items, e)[top + 1] = e
          /\ \A i \in 1 .. top : Append(Items, e)[i] = Items[i]
      BY <1>1
    <2>6. \A i \in 1 .. top + 1 : i \in 1 .. top \/ i = top + 1
      BY <1>1
    <2>7. \A i \in 1 .. top + 1 : Items'[i] = Append(Items, e)[i]
      BY <1>1, <2>3, <2>4, <2>5, <2>6
    <2>8. Items' = Append(Items, e)
      BY <2>4, <2>5, <2>7, SameSequence
    <2>9. overrun = FALSE
      BY DEF IInv, ListInv
    <2> QED
      BY <1>1, <1>2, <2>1, <2>8, <2>9 DEF Lifo!Push
  <1>3. CASE top >= StackCapacity
    <2>1. overrun' = TRUE /\ popped' = popped
      BY <1>0, <1>3, PushOverruns
    <2>2. Items' = <<>> /\ Len(Items) = StackCapacity
      BY <1>0, <1>1, <1>3, <2>1 DEF Items
    <2> QED
      BY <2>1, <2>2 DEF Lifo!Overflow
  <1> QED
    BY <1>0, <1>1, <1>2, <1>3

\* A pop is AbstractStack's Pop.
LEMMA PopIsLifo ==
    ASSUME IInv, IInv', ~overrun, Pop
    PROVE  Lifo!Pop
  <1>0. StackInv /\ StackInv' /\ StackCapacity \in Nat
    BY CapacityAssumption DEF IInv
  <1>1. Items \in Seq(Node) /\ Len(Items) = top /\ top \in 0 .. StackCapacity
        /\ \A i \in 1 .. top : Items[i] = mem[i]
    BY <1>0, ItemsAre DEF ItemsFact
  <1>2. /\ overrun' = FALSE
        /\ top \in 1 .. StackCapacity /\ top' = top - 1
        /\ \A i \in 1 .. top - 1 : mem'[i] = mem[i]
    BY <1>0, PopKeepsStack
  <1>3. popped' = <<mem[top]>>
    BY DEF Pop
  <1>4. Items' \in Seq(Node) /\ Len(Items') = top - 1
        /\ \A i \in 1 .. top - 1 : Items'[i] = mem'[i]
    <2>1. StackInv' /\ ~overrun' => ItemsFact'
      BY ItemsAre, PTL
    <2> QED
      BY <1>0, <1>2, <2>1 DEF ItemsFact
  <1>5. /\ SubSeq(Items, 1, Len(Items) - 1) \in Seq(Node)
        /\ Len(SubSeq(Items, 1, Len(Items) - 1)) = top - 1
        /\ \A i \in 1 .. top - 1 : SubSeq(Items, 1, Len(Items) - 1)[i] = Items[i]
    BY <1>1, <1>2
  <1>6. \A i \in 1 .. top - 1 : i \in 1 .. top
    BY <1>1
  <1>7. Items' = SubSeq(Items, 1, Len(Items) - 1)
    BY <1>1, <1>2, <1>4, <1>5, <1>6, SameSequence
  <1>8. Items # <<>> /\ Items[Len(Items)] = mem[top]
    BY <1>1, <1>2
  <1>9. overrun = FALSE
    BY DEF IInv, ListInv
  <1> QED
    BY <1>2, <1>3, <1>7, <1>8, <1>9 DEF Lifo!Pop

(***************************************************************************)
(* cabor_stack implements the bounded LIFO, under every tree search and    *)
(* for every capacity: elements come back in reverse order, and only an    *)
(* element beyond the capacity can break this.                             *)
(***************************************************************************)
THEOREM StackIsLifo == Spec => IsLifo
  <1>1. Init => Lifo!Init
    <2> SUFFICES ASSUME Init PROVE Lifo!Init
      OBVIOUS
    <2>1. StackInv /\ overrun = FALSE /\ top = 0 /\ popped = <<>>
      BY InitIInv DEF IInv, Init, StackInit
    <2>2. Items \in Seq(Node) /\ Len(Items) = 0
      BY <2>1, ItemsAre DEF ItemsFact
    <2>3. Items = <<>>
      BY <2>2
    <2> QED
      BY <2>1, <2>3 DEF Lifo!Init
  <1>2. IInv /\ IInv' /\ [Next]_vars => [Lifo!Next]_(Lifo!vars)
    <2> SUFFICES ASSUME IInv, IInv', [Next]_vars PROVE [Lifo!Next]_(Lifo!vars)
      OBVIOUS
    <2>1. CASE ~overrun /\ PushRoot
      BY <2>1, PushIsLifo, NodeAssumption DEF PushRoot, Node, Root, Lifo!Next
    <2>2. CASE ~overrun /\ PushEdge
      BY <2>2, PushIsLifo, NodeAssumption DEF PushEdge, IInv, ListInv, Lifo!Next
    <2>3. CASE ~overrun /\ Visit
      BY <2>3, PopIsLifo DEF Visit, Lifo!Next
    <2>4. CASE Return \/ FreeNode \/ Finish
      BY <2>4 DEF Return, FreeNode, Finish, stackVars, Items, Lifo!vars
    <2>5. CASE UNCHANGED vars
      BY <2>5 DEF vars, stackVars, Items, Lifo!vars
    <2> QED
      BY <2>1, <2>2, <2>3, <2>4, <2>5 DEF Next
  <1> QED
    BY <1>1, <1>2, InitIInv, StepKeeps, PTL DEF Spec, IsLifo, Lifo!Spec

-----------------------------------------------------------------------------

(***************************************************************************)
(* What the list and the heap are along the way: no node is listed twice,  *)
(* what is freed is the front of the list, and a search that returns has   *)
(* nothing left to look at.                                                *)
(***************************************************************************)
DoneInv ==
    /\ phase \in {"start", "listing", "freeing", "done"}
    /\ \A i, j \in 1 .. Len(nodes) : nodes[i] = nodes[j] => i = j
    /\ freed \in 0 .. Len(nodes)
    /\ heap = Node \ {nodes[i] : i \in 1 .. freed}
    /\ phase \in {"start", "listing"} => freed = 0
    /\ phase = "done" => freed = Len(nodes)
    /\ ~overrun => /\ phase # "start" => Root \in Listed \union Pending
                   /\ phase \in {"freeing", "done"} => top = 0 /\ todo = {}

WholeInv == IInv /\ DoneInv /\ StackTypeOK

\* A push leaves memory, top and capacity of their types, grown or overrun.
LEMMA PushTypes ==
    ASSUME StackInv, StackTypeOK, ~overrun, NEW e \in Node, Push(e)
    PROVE  StackTypeOK'
  <1>1. /\ capacity = StackCapacity /\ Len(mem) = StackCapacity /\ vsize = 0
        /\ mem \in [1 .. StackCapacity -> Node \union {NULL}]
        /\ top \in 0 .. StackCapacity /\ StackCapacity \in Nat \ {0}
        /\ Element = Node
    BY CapacityAssumption, NodeAssumption, MemLength DEF StackInv
  <1>2. CASE top < StackCapacity
    <2>1. /\ overrun' = FALSE /\ capacity' = capacity
          /\ vsize' = vsize /\ popped' = popped
          /\ mem' = [mem EXCEPT ![top + 1] = e]
          /\ top' = top + 1
      BY <1>2, PushFits
    <2>2. mem' \in [1 .. StackCapacity -> Node \union {NULL}]
      BY <1>1, <2>1
    <2>3. mem' \in Seq(Element \union {NULL})
      BY <1>1, <2>2
    <2>4. top' \in Nat /\ capacity' \in Nat \ {0} /\ vsize' \in Nat
      BY <1>1, <2>1
    <2>6. overrun' \in BOOLEAN
      BY <2>1
    <2>5. popped' \in {<<>>} \union {<<x>> : x \in Element \union {NULL}}
      BY <2>1, Zenon DEF StackTypeOK
    <2> QED
      BY <2>3, <2>4, <2>5, <2>6 DEF StackTypeOK
  <1>3. CASE top >= StackCapacity
    <2>1. overrun' = TRUE /\ popped' = popped
      BY <1>3, PushOverruns
    <2>2. top >= capacity
      BY <1>1, <1>3
    <2>3. /\ capacity' = 2 * capacity /\ vsize' = vsize + capacity
          /\ top' = top + 1
      BY <2>2 DEF Push
    <2>4. Doubled(vsize + capacity) = StackCapacity
      BY <1>1 DEF Doubled
    <2>5. PushNulls(capacity) \in [1 .. StackCapacity -> Node \union {NULL}]
      BY <1>1, <2>4 DEF PushNulls
    <2>6. PushNulls(capacity) \in Seq(Node \union {NULL})
          /\ Len(PushNulls(capacity)) = StackCapacity
      BY <1>1, <2>5
    <2>7. mem' = PushNulls(capacity)
      BY <1>1, <1>3, <2>2, <2>6 DEF Push
    <2> QED
      BY <1>1, <2>1, <2>3, <2>6, <2>7 DEF StackTypeOK
  <1> QED
    BY <1>1, <1>2, <1>3

\* A pop gives an element or a cleared slot.
LEMMA PopTypes ==
    ASSUME StackInv, StackTypeOK, ~overrun, Pop
    PROVE  StackTypeOK'
  <1>1. /\ mem \in [1 .. StackCapacity -> Node \union {NULL}]
        /\ top \in 1 .. StackCapacity /\ StackCapacity \in Nat \ {0}
        /\ Element = Node
    BY CapacityAssumption, NodeAssumption DEF StackInv, Pop
  <1>2. mem[top] \in Element \union {NULL}
    BY <1>1
  <1>3. mem' \in [1 .. StackCapacity -> Node \union {NULL}]
    BY <1>1 DEF Pop
  <1>4. mem' \in Seq(Element \union {NULL})
    BY <1>1, <1>3
  <1>5. top' \in Nat /\ popped' = <<mem[top]>> /\ UNCHANGED <<capacity, vsize, overrun>>
    BY <1>1 DEF Pop
  <1> QED
    BY <1>2, <1>4, <1>5 DEF StackTypeOK

LEMMA InitWhole == Init => WholeInv
  <1> SUFFICES ASSUME Init PROVE WholeInv
    OBVIOUS
  <1>1. DoneInv
    BY DEF Init, StackInit, DoneInv
  <1>2. StackTypeOK
    <2>1. mem \in [1 .. StackCapacity -> Element \union {NULL}]
      BY DEF Init, StackInit
    <2>2. mem \in Seq(Element \union {NULL})
      BY <2>1, CapacityAssumption
    <2> QED
      BY <2>2, CapacityAssumption DEF Init, StackInit, StackTypeOK
  <1> QED
    BY <1>1, <1>2, InitIInv DEF WholeInv

\* The node a visit pops is on top of the stack and not yet in the list.
LEMMA VisitLists ==
    ASSUME IInv, ~overrun, Visit
    PROVE  \E n \in Node :
              /\ nodes' = Append(nodes, n) /\ n \notin Listed
              /\ top \in 1 .. StackCapacity /\ n = mem[top]
              /\ top' = top - 1 /\ \A i \in 1 .. top - 1 : mem'[i] = mem[i]
              /\ overrun' = FALSE
  <1> DEFINE n == popped'[1]
  <1>1. /\ overrun' = FALSE
        /\ top \in 1 .. StackCapacity /\ top' = top - 1
        /\ n = mem[top] /\ mem[top] \in Node
        /\ \A i \in 1 .. top - 1 : mem'[i] = mem[i]
    BY PopKeepsStack DEF Visit, IInv
  <1>2. n \notin Listed
    BY <1>1 DEF Pending, IInv, NothingForgotten
  <1>3. nodes' = Append(nodes, n)
    BY <1>2 DEF Visit
  <1> HIDE DEF n
  <1> QED
    BY <1>1, <1>2, <1>3

\* A node put behind a list it is not in keeps the list free of repetitions.
LEMMA AppendNew ==
    ASSUME NEW s \in Seq(Node), NEW n \in Node,
           \A i, j \in 1 .. Len(s) : s[i] = s[j] => i = j,
           \A i \in 1 .. Len(s) : s[i] # n
    PROVE  \A i, j \in 1 .. Len(Append(s, n)) :
              Append(s, n)[i] = Append(s, n)[j] => i = j
  <1> DEFINE r == Append(s, n)
  <1>1. /\ Len(s) \in Nat /\ Len(r) = Len(s) + 1 /\ r[Len(s) + 1] = n
        /\ \A i \in 1 .. Len(s) : r[i] = s[i]
    OBVIOUS
  <1>2. \A i \in 1 .. Len(s) + 1 : i \in 1 .. Len(s) \/ i = Len(s) + 1
    BY <1>1
  <1> HIDE DEF r
  <1> QED
    BY <1>1, <1>2 DEF r

LEMMA VisitWhole ==
    ASSUME WholeInv, ~overrun, Visit
    PROVE  DoneInv'
  <1>1. PICK n \in Node :
           /\ nodes' = Append(nodes, n) /\ n \notin Listed
           /\ top \in 1 .. StackCapacity /\ n = mem[top]
           /\ top' = top - 1 /\ \A i \in 1 .. top - 1 : mem'[i] = mem[i]
           /\ overrun' = FALSE
    BY VisitLists DEF WholeInv
  <1>2. /\ nodes \in Seq(Node) /\ Len(nodes) \in Nat
        /\ phase = "listing" /\ UNCHANGED <<phase, heap, freed>> /\ freed = 0
    BY DEF WholeInv, IInv, ListInv, DoneInv, Visit
  <1>3. /\ Len(nodes') = Len(nodes) + 1 /\ nodes'[Len(nodes) + 1] = n
        /\ \A i \in 1 .. Len(nodes) : nodes'[i] = nodes[i]
        /\ DOMAIN nodes = 1 .. Len(nodes) /\ DOMAIN nodes' = 1 .. Len(nodes) + 1
    BY <1>1, <1>2
  <1>4. \A i, j \in 1 .. Len(nodes') : nodes'[i] = nodes'[j] => i = j
    <2>1. \A i \in 1 .. Len(nodes) : nodes[i] # n
      BY <1>1, <1>3 DEF Listed
    <2>2. \A i, j \in 1 .. Len(nodes) : nodes[i] = nodes[j] => i = j
      BY DEF WholeInv, DoneInv
    <2> QED
      BY <1>1, <1>2, <2>1, <2>2, AppendNew
  <1>5. heap' = Node \ {nodes'[i] : i \in 1 .. freed'} /\ freed' \in 0 .. Len(nodes')
    BY <1>2, <1>3 DEF WholeInv, DoneInv
  <1>6. Root \in Listed' \union Pending'
    <2>1. Root \in Listed \/ \E i \in 1 .. top : mem[i] = Root
      BY <1>2 DEF WholeInv, DoneInv, Pending
    <2>2. CASE Root \in Listed
      <3>1. PICK i \in DOMAIN nodes : nodes[i] = Root
        BY <2>2 DEF Listed
      <3>2. i \in DOMAIN nodes' /\ nodes'[i] = Root
        BY <1>2, <1>3, <3>1
      <3> QED
        BY <3>2 DEF Listed
    <2>3. ASSUME NEW i \in 1 .. top, mem[i] = Root PROVE Root \in Listed' \union Pending'
      <3>1. CASE i = top
        <4>1. nodes'[Len(nodes) + 1] = Root /\ Len(nodes) + 1 \in DOMAIN nodes'
          BY <1>1, <1>2, <1>3, <2>3, <3>1
        <4> QED
          BY <4>1 DEF Listed
      <3>2. CASE i # top
        <4>1. i \in 1 .. top' /\ mem'[i] = Root
          BY <1>1, <2>3, <3>2, CapacityAssumption
        <4> QED
          BY <4>1 DEF Pending
      <3> QED
        BY <3>1, <3>2
    <2> QED
      BY <2>1, <2>2, <2>3
  <1> QED
    BY <1>1, <1>2, <1>4, <1>5, <1>6 DEF DoneInv

\* A push adds to what is on the stack.
LEMMA PushWhole ==
    ASSUME WholeInv, ~overrun, PushRoot \/ PushEdge
    PROVE  DoneInv'
  <1>1. PICK e \in Node : Push(e) /\ (phase = "start" => e = Root)
    BY NodeAssumption DEF PushRoot, PushEdge, WholeInv, IInv, ListInv, Node, Root
  <1>2. /\ StackInv /\ UNCHANGED <<nodes, heap, freed>>
        /\ phase \in {"start", "listing"} /\ phase' = "listing"
    BY DEF PushRoot, PushEdge, WholeInv, IInv
  <1>3. ASSUME ~overrun' PROVE Root \in Listed' \union Pending'
    <2>1. /\ top < StackCapacity /\ mem' = [mem EXCEPT ![top + 1] = e]
          /\ top' = top + 1
          /\ mem \in [1 .. StackCapacity -> Node \union {NULL}] /\ top \in 0 .. StackCapacity
      BY <1>1, <1>2, <1>3, PushKeepsStack DEF StackInv
    <2>2. /\ top + 1 \in 1 .. top' /\ mem'[top + 1] = e
          /\ \A i \in 1 .. top : i \in 1 .. top' /\ mem'[i] = mem[i]
      BY <2>1, CapacityAssumption
    <2>3. CASE phase = "start"
      BY <1>1, <2>2, <2>3 DEF Pending
    <2>4. CASE phase # "start"
      <3>1. Listed' = Listed
        BY <1>2 DEF Listed
      <3>2. Pending \subseteq Pending'
        BY <2>2 DEF Pending
      <3> QED
        BY <2>4, <3>1, <3>2 DEF WholeInv, DoneInv
    <2> QED
      BY <2>3, <2>4
  <1> QED
    BY <1>2, <1>3 DEF WholeInv, DoneInv

\* Freeing takes the front of the list, node by node.
LEMMA FreeWhole ==
    ASSUME WholeInv, FreeNode
    PROVE  DoneInv'
  <1>1. /\ Len(nodes) \in Nat /\ freed \in 0 .. Len(nodes) /\ freed < Len(nodes)
        /\ heap' = heap \ {nodes[freed + 1]} /\ freed' = freed + 1
        /\ phase = "freeing" /\ UNCHANGED <<nodes, phase, top, todo, mem, overrun>>
    BY DEF WholeInv, IInv, ListInv, DoneInv, FreeNode, stackVars
  <1>2. \A i \in 1 .. freed + 1 : i \in 1 .. freed \/ i = freed + 1
    BY <1>1
  <1>3. freed + 1 \in 1 .. freed + 1 /\ \A i \in 1 .. freed : i \in 1 .. freed + 1
    BY <1>1
  <1>4. heap' = Node \ {nodes'[i] : i \in 1 .. freed'}
    BY <1>1, <1>2, <1>3 DEF WholeInv, DoneInv
  <1>5. Listed' = Listed /\ Pending' = Pending
    BY <1>1 DEF Listed, Pending
  <1> QED
    BY <1>1, <1>4, <1>5 DEF WholeInv, DoneInv

\* The steps that only change the phase.
LEMMA PhaseWhole ==
    ASSUME WholeInv, Return \/ Finish \/ UNCHANGED vars
    PROVE  DoneInv'
  <1>1. /\ UNCHANGED <<top, mem, overrun, nodes, todo, heap, freed>>
        /\ Listed' = Listed /\ Pending' = Pending
    BY DEF Return, Finish, vars, stackVars, astVars, Listed, Pending
  <1>2. CASE Return
    BY <1>1, <1>2 DEF WholeInv, DoneInv, Return
  <1>3. CASE Finish
    BY <1>1, <1>3 DEF WholeInv, DoneInv, Finish
  <1>4. CASE UNCHANGED vars
    BY <1>1, <1>4 DEF WholeInv, DoneInv, vars, astVars
  <1> QED
    BY <1>2, <1>3, <1>4

LEMMA StepKeepsWhole == WholeInv /\ [Next]_vars => WholeInv'
  <1> SUFFICES ASSUME WholeInv, [Next]_vars PROVE WholeInv'
    OBVIOUS
  <1>1. IInv'
    BY StepKeeps DEF WholeInv
  <1>2. DoneInv'
    <2>1. CASE ~overrun /\ (PushRoot \/ PushEdge)
      BY <2>1, PushWhole
    <2>2. CASE ~overrun /\ Visit
      BY <2>2, VisitWhole
    <2>3. CASE FreeNode
      BY <2>3, FreeWhole
    <2>4. CASE Return \/ Finish \/ UNCHANGED vars
      BY <2>4, PhaseWhole
    <2> QED
      BY <2>1, <2>2, <2>3, <2>4 DEF Next
  <1>3. StackTypeOK'
    <2> USE DEF WholeInv, IInv
    <2>1. CASE ~overrun /\ PushRoot
      BY <2>1, PushTypes, NodeAssumption DEF PushRoot, Node, Root
    <2>2. CASE ~overrun /\ PushEdge
      BY <2>2, PushTypes DEF PushEdge, ListInv
    <2>3. CASE ~overrun /\ Visit
      BY <2>3, PopTypes DEF Visit
    <2>4. CASE UNCHANGED stackVars
      BY <2>4, Zenon DEF StackTypeOK, stackVars
    <2> QED
      BY <2>1, <2>2, <2>3, <2>4 DEF Next, Return, FreeNode, Finish, vars
  <1> QED
    BY <1>1, <1>2, <1>3 DEF WholeInv

(***************************************************************************)
(* Every variable keeps its type, the stack's also when it has been        *)
(* written behind its memory (stack.c).                                    *)
(***************************************************************************)
THEOREM Typing == Spec => []TypeOK
  <1>1. WholeInv => TypeOK
    <2> SUFFICES ASSUME WholeInv PROVE TypeOK
      OBVIOUS
    <2>1. Len(nodes) \in Nat /\ freed \in Nat /\ heap \in SUBSET Node
      BY DEF WholeInv, IInv, ListInv, DoneInv
    <2> QED
      BY <2>1 DEF WholeInv, IInv, ListInv, DoneInv, TypeOK
  <1> QED
    BY <1>1, InitWhole, StepKeepsWhole, PTL DEF Spec

\* A set of nodes that is not empty has a smallest one.
LEMMA SmallestNode ==
    ASSUME NEW T \in SUBSET Node, T # {}
    PROVE  \E n \in T : \A m \in T : n <= m
  <1>1. T \subseteq Nat
    BY NodeAssumption DEF Node
  <1>2. PICK n \in T : \A m \in T : <<m, n>> \notin OpToRel(<, Nat)
    BY <1>1, NatLessThanWellFounded, WFMin
  <1>3. \A m \in T : ~(m < n)
    BY <1>1, <1>2 DEF OpToRel
  <1> QED
    BY <1>1, <1>3

\* A search with nothing on the stack and nothing to push has listed all: the
\* smallest node that is missing would have its parent in the list.
LEMMA AllListed ==
    ASSUME WholeInv, ~overrun, phase \in {"freeing", "done"}
    PROVE  Listed = Node
  <1>1. /\ top = 0 /\ todo = {} /\ Root \in Listed \union Pending
        /\ nodes \in Seq(Node) /\ parent \in Trees
    BY DEF WholeInv, DoneInv, IInv, ListInv
  <1>2. Pending = {}
    BY <1>1 DEF Pending
  <1>3. Listed \subseteq Node
    BY <1>1 DEF Listed
  <1>4. ASSUME Node \ Listed # {} PROVE FALSE
    <2>1. PICK n \in Node \ Listed : \A m \in Node \ Listed : n <= m
      BY <1>4, SmallestNode
    <2>2. n # Root
      BY <1>1, <1>2, <2>1
    <2>3. parent[n] \in 1 .. n - 1 /\ n \in 1 .. NodeCount
      BY <1>1, <2>1, <2>2 DEF Trees, Node
    <2>4. parent[n] \in Node /\ ~(n <= parent[n])
      BY <2>3, NodeAssumption DEF Node
    <2>5. parent[n] \in Listed
      BY <2>1, <2>4
    <2> QED
      BY <1>1, <1>2, <2>1, <2>2, <2>5 DEF WholeInv, IInv, NothingForgotten
  <1> QED
    BY <1>3, <1>4

(***************************************************************************)
(* "Free the whole tree" (parser.c:857): whatever the tree, the list has   *)
(* every node of it once, and when it has been walked nothing is allocated *)
(* any more, as long as the stack does not overrun its memory.             *)
(***************************************************************************)
THEOREM Whole == Spec => []WholeTree
  <1>1. WholeInv => WholeTree
    <2> SUFFICES ASSUME WholeInv, ~overrun, phase \in {"freeing", "done"}
                 PROVE  /\ Listed = Node /\ Len(nodes) = NodeCount
                        /\ phase = "done" => heap = {}
      BY DEF WholeTree
    <2>1. /\ nodes \in Seq(Node) /\ Len(nodes) \in Nat
          /\ nodes \in [1 .. Len(nodes) -> Node]
          /\ \A i, j \in 1 .. Len(nodes) : nodes[i] = nodes[j] => i = j
      BY DEF WholeInv, IInv, ListInv, DoneInv
    <2>2. Listed = Node
      BY AllListed
    <2>3. \A n \in Node : \E i \in 1 .. Len(nodes) : nodes[i] = n
      BY <2>1, <2>2 DEF Listed
    <2>4. nodes \in Bijection(1 .. Len(nodes), Node)
      BY <2>1, <2>3 DEF Bijection, Injection, Surjection, IsInjective
    <2>5. Cardinality(Node) = Len(nodes)
      BY <2>1, <2>4, FS_CountingElements DEF ExistsBijection
    <2>6. Cardinality(Node) = NodeCount
      BY FS_Interval, NodeAssumption DEF Node
    <2>7. phase = "done" => heap = {}
      BY <2>1, <2>3 DEF WholeInv, DoneInv
    <2> QED
      BY <2>2, <2>5, <2>6, <2>7
  <1> QED
    BY <1>1, InitWhole, StepKeepsWhole, PTL DEF Spec

-----------------------------------------------------------------------------

\* The nodes on the stack are different from each other and from the node to
\* be pushed: there are fewer of them than nodes.
LEMMA RoomForOneMore ==
    ASSUME IInv, ~overrun, NEW n \in Node, n \notin Pending
    PROVE  top < NodeCount
  <1> DEFINE f == [i \in 1 .. top |-> mem[i]]
             S == Node \ {n}
  <1>1. top \in Nat /\ \A i \in 1 .. top : mem[i] \in Node
    BY CapacityAssumption DEF IInv, StackInv
  <1>2. \A i \in 1 .. top : mem[i] \in S
    BY <1>1 DEF Pending
  <1>3. f \in Injection(1 .. top, S)
    BY <1>1, <1>2 DEF IInv, NothingForgotten, Injection, IsInjective
  <1>4. IsFiniteSet(Node) /\ Cardinality(Node) = NodeCount /\ NodeCount \in Nat
    BY FS_Interval, NodeAssumption DEF Node
  <1>5. IsFiniteSet(S) /\ Cardinality(S) = NodeCount - 1
    BY <1>4, FS_RemoveElement, Zenon
  <1>6. Cardinality(1 .. top) <= Cardinality(S)
    BY <1>3, <1>5, FS_Injection
  <1>7. Cardinality(1 .. top) = top
    BY <1>1, FS_Interval
  <1> QED
    BY <1>1, <1>4, <1>5, <1>6, <1>7

(***************************************************************************)
(* A tree of no more nodes than the capacity the stack is made with        *)
(* (stack_capacity, 100, parser.c:759) never overruns it, whatever its     *)
(* shape: the growth that does not make room is only needed above that.    *)
(***************************************************************************)
THEOREM SmallTreesFit ==
    ASSUME NodeCount <= StackCapacity
    PROVE  Spec => []GrowthMakesRoom
  <1> USE CapacityAssumption, NodeAssumption
  <1>1. Init => ~overrun
    BY DEF Init, StackInit
  <1>2. IInv /\ ~overrun /\ [Next]_vars => ~overrun'
    <2> SUFFICES ASSUME IInv, ~overrun, [Next]_vars PROVE ~overrun'
      OBVIOUS
    <2>1. ASSUME NEW n \in Node, Push(n), n \notin Pending PROVE ~overrun'
      <3>1. top < StackCapacity
        BY <2>1, RoomForOneMore DEF IInv, StackInv
      <3> QED
        BY <2>1, <3>1, PushFits DEF IInv
    <2>2. CASE PushRoot
      <3>1. Pending = {} /\ Root \in Node
        BY <2>2 DEF PushRoot, IInv, ListInv, Pending, Node, Root
      <3> QED
        BY <2>1, <2>2, <3>1 DEF PushRoot
    <2>3. CASE PushEdge
      <3>1. PICK n \in todo : Push(n)
        BY <2>3 DEF PushEdge
      <3>2. n \in Node /\ n \notin Pending
        BY <3>1 DEF IInv, ListInv, NothingForgotten
      <3> QED
        BY <2>1, <3>1, <3>2
    <2>4. CASE UNCHANGED overrun
      BY <2>4
    <2> QED
      BY <2>2, <2>3, <2>4
         DEF Next, Visit, Pop, Return, FreeNode, Finish, vars, stackVars
  <1>3. ~overrun => GrowthMakesRoom
    BY DEF GrowthMakesRoom
  <1> QED
    BY <1>1, <1>2, <1>3, InitIInv, StepKeeps, PTL DEF Spec
=============================================================================
