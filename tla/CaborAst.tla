------------------------------- MODULE CaborAst -------------------------------
(***************************************************************************)
(* The tree between the passes (language/parser.h): nodes are allocated    *)
(* one after the other, a heap is the sequence of all that were, freed or  *)
(* not, and a node is known by its number in it.  A node's edges are such  *)
(* numbers, or NullAst.  A cabor_ast has a heap, a root, the tokens its    *)
(* nodes are at, and the types its nodes have from the type checker.       *)
(***************************************************************************)
EXTENDS Integers, Sequences

CONSTANT MaxDepth    \* how deep the process stack lets the calls of a pass nest

ASSUME DepthAssumption == MaxDepth \in Nat

NullAst == 0

NodeKind == {"BINARY_OP", "UNARY_OP", "LITERAL", "IDENTIFIER", "FUNCTION_CALL", "UNIT", "BLOCK",
             "IF_THEN_ELSE", "WHILE", "VAR_EXPR", "DECLARATION", "UNKNOWN"}
Node == [kind : NodeKind, at : Nat, edges : Seq(Nat)]

\* How a pass ends.
End  == {"ok", "exited", "aborted", "undefined"}
Type == {"Error", "Unit", "Int", "Bool"}

Ast(heap, root, toks, types) ==
    [heap |-> heap, root |-> root, toks |-> toks, types |-> types]
Edge(ast, node, k) == ast.heap[node].edges[k]
WordOf(ast, node) == ast.toks[ast.heap[node].at]
Words(ast) == {ast.toks[k] : k \in DOMAIN ast.toks}

\* rounds of a loop, round[x] being what one of them makes of the state x.
Repeat(round, first, rounds) ==
    LET state[k \in 0 .. rounds] == IF k = 0 THEN first ELSE round[state[k - 1]]
    IN  state[rounds]

-----------------------------------------------------------------------------
(* cabor_symbol_table: names and their values, the newest entry of a name  *)
(* being the one that is found.                                            *)

Enter(table, name, value) == Append(table, [name |-> name, value |-> value])

Entries(table, name) == {k \in DOMAIN table : table[k].name = name}
Has(table, name) == Entries(table, name) # {}
Find(table, name) ==
    table[CHOOSE k \in Entries(table, name) : \A j \in Entries(table, name) : j <= k].value
=============================================================================
