--------------------------- MODULE CaborTypeChecker ---------------------------
(***************************************************************************)
(* The type checker, language/type_checker.c.  Its state c holds the types *)
(* of the nodes of ast as far as they are written, the scope a node stands *)
(* in with the names that have been declared there, the type the last      *)
(* function returned, and how checking ended ("ok" or "undefined").        *)
(*                                                                         *)
(* A scope enters names with their types.  Names are looked up in the      *)
(* innermost scope alone: parent_scope is never read, child_scope only to  *)
(* destroy the tables, which c numbers as they are created, each with the  *)
(* number of its child_scope.  A type error is a type like any other: it   *)
(* stops nothing.                                                          *)
(*                                                                         *)
(* The functions check the nodes below theirs with below[node][c].         *)
(***************************************************************************)
EXTENDS CaborAst

Checker(ast) ==
    [types : Seq(Type),
     scope : Seq([name : Words(ast), value : Type]),
     table : Nat,
     tables : Seq(Nat),
     type  : Type,
     end   : End]

Passed(c) == c.end = "ok"

\* A node's own type stays as it was, or is written too.
Visited(c, type) == [c EXCEPT !.type = type]
Typed(c, i, type) == [c EXCEPT !.types[i] = type, !.type = type]

\* Nodes one after the other in one scope, and the types they returned.
Several(ast) == [c : Checker(ast), returned : Seq(Type)]
CheckAll(below, c, ast, edges) ==
    LET visit == [s \in Several(ast) |->
                     IF ~Passed(s.c) THEN s
                     ELSE LET d == below[edges[Len(s.returned) + 1]][s.c]
                          IN  [c |-> d, returned |-> Append(s.returned, d.type)]]
    IN  Repeat(visit, [c |-> c, returned |-> <<>>], Len(edges))

\* Mutant: the operator takes the type of its left operand unasked.
LeftDecides(all, i) == Typed(all.c, i, all.returned[1])

\* cabor_typecheck_binary_op, comparisons too
CheckBinary(all, i) ==
    IF all.returned[1] # all.returned[2] THEN Visited(all.c, "Error")
    ELSE Typed(all.c, i, all.returned[1])

CheckUnary(all, i, op) ==
    IF all.returned[1] = (IF op = "-" THEN "Int" ELSE "Bool") THEN Typed(all.c, i, all.returned[1])
    ELSE Visited(all.c, "Error")

CheckBranches(all, i) ==
    IF Len(all.returned) = 3 /\ all.returned[2] # all.returned[3] THEN Typed(all.c, i, "Error")
    ELSE Typed(all.c, i, all.returned[2])

\* The type of the body is not asked for.
CheckWhile(all, i) == Typed(all.c, i, "Unit")

\* if and while: what follows a condition that is no Bool is not visited.
CheckGuarded(below, c, ast, i) ==
    LET node == ast.heap[i]
        cond == below[node.edges[1]][c]
        all  == CheckAll(below, c, ast, node.edges)
    IN  IF ~Passed(cond) THEN cond
        ELSE IF cond.type # "Bool" THEN Visited(cond, "Error")
        ELSE IF ~Passed(all.c) THEN all.c
        ELSE IF node.kind = "WHILE" THEN CheckWhile(all, i)
        ELSE CheckBranches(all, i)

\* A call's type is the number of its kind of node, which is that of
\* CABOR_TYPE_ERROR.
CheckFunction(all) == Visited(all.c, "Error")

\* Mutant: the second block of a scope is not linked in the place of the first.
KeepsFirstChild(c) ==
    LET new == Len(c.tables) + 1
        child == c.tables[c.table]
    IN  [c EXCEPT !.scope = <<>>, !.table = new,
                  !.tables = Append([@ EXCEPT ![c.table] = IF child = 0 THEN new ELSE child], 0)]

\* cabor_create_new_symbol_scope: the new table is the child of the one around
\* it, whatever that one's child was.
NewScope(c) ==
    LET new == Len(c.tables) + 1
    IN  [c EXCEPT !.scope = <<>>, !.table = new,
                  !.tables = Append([@ EXCEPT ![c.table] = new], 0)]

\* cabor_destroy_symbol_table of the first table: the chain of children.
Destroyed(tables) ==
    LET children == [chain \in SUBSET DOMAIN tables |->
                        chain \union ({tables[n] : n \in chain} \ {0})]
    IN  Repeat(children, {1}, Len(tables))

\* The last expression gives the block its type, its names go with it.
CheckBlock(all, i, outer) ==
    [Typed(all.c, i, all.returned[Len(all.returned)])
        EXCEPT !.scope = outer.scope, !.table = outer.table]

\* Nodes whose edges are all visited first.
CheckOver(below, c, ast, i) ==
    LET node  == ast.heap[i]
        inner == IF node.kind = "BLOCK" THEN NewScope(c) ELSE c
        all   == CheckAll(below, inner, ast, node.edges)
    IN  IF ~Passed(all.c) THEN all.c
        ELSE CASE node.kind = "BINARY_OP" -> CheckBinary(all, i)
               [] node.kind = "UNARY_OP"  -> CheckUnary(all, i, WordOf(ast, i))
               [] node.kind = "BLOCK"     -> CheckBlock(all, i, c)
               [] OTHER                   -> CheckFunction(all)

\* cabor_convert_type_declaration_to_type
Declared(word) == IF word \in {"Int", "Bool"} THEN word ELSE "Error"

\* The initializer first, so that it does not see the name it is for.
CheckVar(below, c, ast, i) ==
    LET edges == ast.heap[i].edges
        value == below[edges[2]][c]
        name  == WordOf(ast, edges[1])
        told  == IF Len(edges) = 3 THEN [value EXCEPT !.types[edges[3]] = "Unit"] ELSE value
        named == [told EXCEPT !.types[edges[1]] = value.type]
    IN  IF ~Passed(value) THEN value
        ELSE IF Len(edges) = 3 /\ Declared(WordOf(ast, edges[3])) # value.type
             THEN Visited(value, "Error")
        ELSE IF Has(value.scope, name) THEN Visited(told, "Error")
        ELSE [Typed(named, i, value.type) EXCEPT !.scope = Enter(@, name, value.type)]

CheckIdentifier(c, i, name) ==
    IF Has(c.scope, name) THEN Typed(c, i, Find(c.scope, name)) ELSE Visited(c, "Error")

\* cabor_typecheck, of a node that may be NULL.
CheckNode(below, c, ast, i) ==
    LET kind == ast.heap[i].kind
        word == WordOf(ast, i)
    IN  IF i = NullAst THEN [c EXCEPT !.end = "undefined"]
        ELSE CASE kind = "LITERAL" ->
                    Typed(c, i, IF word \in {"true", "false"} THEN "Bool" ELSE "Int")
               [] kind = "IDENTIFIER" -> CheckIdentifier(c, i, word)
               [] kind = "UNIT"       -> Visited(c, "Unit")
               [] kind = "VAR_EXPR"   -> CheckVar(below, c, ast, i)
               [] kind \in {"IF_THEN_ELSE", "WHILE"} -> CheckGuarded(below, c, ast, i)
               [] kind \in {"BINARY_OP", "UNARY_OP", "BLOCK", "FUNCTION_CALL"} ->
                    CheckOver(below, c, ast, i)
               [] OTHER -> [c EXCEPT !.end = "undefined"]

\* The functions of the checker, with room on the stack for that many calls.
Check(ast) ==
    LET check[depth \in 0 .. MaxDepth] ==
            [i \in 0 .. Len(ast.heap) |->
                [c \in Checker(ast) |->
                    IF depth = 0 THEN [c EXCEPT !.end = "undefined"]
                    ELSE CheckNode(check[depth - 1], c, ast, i)]]
    IN  check[MaxDepth][ast.root][[types |-> ast.types, scope |-> <<>>, table |-> 1,
                                   tables |-> <<0>>, type |-> "Error", end |-> "ok"]]
=============================================================================
