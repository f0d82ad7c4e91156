------------------------------- MODULE CaborIr -------------------------------
(***************************************************************************)
(* The generator of intermediate code, language/ir.c: a walk over the tree *)
(* that builds the data of CaborIrData.                                    *)
(***************************************************************************)
EXTENDS CaborTokenizer, CaborIrData, SequencesExt

\* strtol, of digits alone.
Decimal(digits) ==
    LET figures(n) == {d \in 0 .. 9 : /\ n <= Len(digits)
                                      /\ At(digits, n) = SubSeq("0123456789", d + 1, d + 1)}
        value[n \in 0 .. MaxToken] ==
            IF n = 0 THEN 0
            ELSE IF figures(n) = {} THEN value[n - 1]
            ELSE 10 * value[n - 1] + (CHOOSE d \in figures(n) : TRUE)
    IN  value[MaxToken]

Number(word) ==
    CASE word = "true" -> 1 [] word = "false" -> 0 [] OTHER -> Decimal(word)

UnaryName(op) == IF op = "-" THEN "unary_-" ELSE "unary_not"

LabelName == {"then", "end", "else", "while_start", "while_body", "while_end"}

Globals == <<[name |-> "print_int", type |-> "Int"], [name |-> "print_bool", type |-> "Bool"]>>

\* What the generator makes of a tree is put together from these.
Names(ast) == {WordOf(ast, i) : i \in DOMAIN ast.heap}
                \union {"unary_-", "unary_not", "<ir_var>", "print_int", "print_bool"}
Types(ast) == {ast.types[i] : i \in DOMAIN ast.heap} \union {"Int", "Bool", "Unit"}
Constants(ast) == {Number(WordOf(ast, i)) : i \in {i \in DOMAIN ast.heap : ast.heap[i].kind = "LITERAL"}}

Instruction(ast) ==
    [op : {"LOAD"}, value : Constants(ast), dest : Int]
      \union [op : {"COPY"}, source : Int, dest : Int]
      \union [op : {"CALL"}, fun : Int, args : Seq(Int), dest : Int]
      \union [op : {"JUMP", "LABEL"}, label : Nat]
      \union [op : {"CONDJUMP"}, cond : Int, then : Nat, else : Nat]

Generator(ast) ==
    [code : Seq(Instruction(ast)), vars : Seq([name : Names(ast), type : Types(ast)]),
     labels : Seq(LabelName), scope : Seq([name : Names(ast), value : Int]),
     result : Int, end : End]

\* Nodes one after the other: args are the variables they returned.
Walk(ast) == [g : Generator(ast), args : Seq(Int)]
VisitAll(below, g, ast, edges) ==
    LET visit == [w \in Walk(ast) |->
                     LET h == below[edges[Len(w.args) + 1]][w.g]
                     IN  [g |-> h, args |-> Append(w.args, h.result)]]
    IN  Repeat(visit, [g |-> g, args |-> <<>>], Len(edges))

\* The operator itself becomes a variable, of its node's type if it is binary; a
\* unary one gets the type whose number is that of the token type CABOR_OPERATOR.
VisitOperator(below, g, ast, i, name, type) ==
    LET fun   == Require(g, name, type)
        edges == VisitAll(below, fun, ast, ast.heap[i].edges)
        dest  == UniqueVar(edges.g, ast.types[i])
    IN  Emit(dest, Call(fun.result, edges.args, dest.result))

\* cabor_visit_ir_function_call: a name that is not in scope is called too.
VisitCall(below, g, ast, i) ==
    LET fun   == Lookup(g, WordOf(ast, i))
        edges == VisitAll(below, g, ast, ast.heap[i].edges)
        dest  == UniqueVar(edges.g, ast.types[i])
    IN  Emit(dest, Call(fun, edges.args, dest.result))

\* The type checker has not been to a literal of type Error.
VisitLiteral(g, ast, i) ==
    LET var == UniqueVar(g, ast.types[i])
    IN  IF ast.types[i] = "Error" THEN Returns(var, INVALID)
        ELSE Emit(var, Load(Number(WordOf(ast, i)), var.result))

VisitBlock(below, g, ast, i) ==
    LET inner == VisitAll(below, [g EXCEPT !.scope = <<>>, !.result = UNIT], ast,
                          ast.heap[i].edges)
    IN  [inner.g EXCEPT !.scope = g.scope]

\* A condition decides where to go on, and what the first label stands for follows.
Branch(below, g, ast, i, then, else) ==
    LET cond == below[Edge(ast, i, 1)][g]
    IN  below[Edge(ast, i, 2)][Emit(Emit(cond, CondJump(cond.result, then, else)), Place(then))]

\* if without else: it is l_then again that is placed at the end.
VisitIfThen(below, g, ast, i) ==
    LET then == Len(g.labels)
        end  == Len(g.labels) + 1
        yes  == Branch(below, NewLabels(g, <<"then", "end">>), ast, i, then, end)
    IN  Returns(Emit(Emit(yes, Jump(end)), Place(then)), UNIT)

Aborted(g) == [g EXCEPT !.end = "aborted"]

\* Mutant: the then-branch runs on into the else-branch.
FallsThrough(below, g, ast, i) ==
    LET then == Len(g.labels)
        end  == Len(g.labels) + 1
        else == Len(g.labels) + 2
        yes  == Branch(below, NewLabels(g, <<"then", "end", "else">>), ast, i, then, else)
        var  == UniqueVar(yes, yes.vars[yes.result + 1].type)
        done == Emit(var, Copy(yes.result, var.result))
        no   == below[Edge(ast, i, 3)][Emit(done, Place(else))]
    IN  IF yes.end # "ok" THEN yes
        ELSE IF yes.result < 0 THEN Aborted(yes)
        ELSE Returns(Emit(Emit(Emit(no, Copy(no.result, var.result)), Jump(end)), Place(end)),
                     var.result)

\* The result has the type of the then-branch, which must have a variable.
VisitIfThenElse(below, g, ast, i) ==
    LET then == Len(g.labels)
        end  == Len(g.labels) + 1
        else == Len(g.labels) + 2
        yes  == Branch(below, NewLabels(g, <<"then", "end", "else">>), ast, i, then, else)
        var  == UniqueVar(yes, yes.vars[yes.result + 1].type)
        done == Emit(Emit(var, Copy(yes.result, var.result)), Jump(end))
        no   == below[Edge(ast, i, 3)][Emit(done, Place(else))]
    IN  IF yes.end # "ok" THEN yes
        ELSE IF yes.result < 0 THEN Aborted(yes)
        ELSE Returns(Emit(Emit(Emit(no, Copy(no.result, var.result)), Jump(end)), Place(end)),
                     var.result)

WhileLabels == <<"while_start", "while_body", "while_end">>

\* Mutant: it is l_start again that is placed at the end.
StartsAgain(below, g, ast, i) ==
    LET start == Len(g.labels)
        body  == Len(g.labels) + 1
        end   == Len(g.labels) + 2
        do    == Branch(below, Emit(NewLabels(g, WhileLabels), Place(start)), ast, i, body, end)
    IN  Returns(Emit(Emit(do, Jump(start)), Place(start)), UNIT)

\* Mutant: the labels of the condition change places.
UntilTrue(below, g, ast, i) ==
    LET start == Len(g.labels)
        body  == Len(g.labels) + 1
        end   == Len(g.labels) + 2
        cond  == below[Edge(ast, i, 1)][Emit(NewLabels(g, WhileLabels), Place(start))]
        do    == below[Edge(ast, i, 2)]
                      [Emit(Emit(cond, CondJump(cond.result, end, body)), Place(body))]
    IN  Returns(Emit(Emit(do, Jump(start)), Place(end)), UNIT)

VisitWhile(below, g, ast, i) ==
    LET start == Len(g.labels)
        body  == Len(g.labels) + 1
        end   == Len(g.labels) + 2
        do    == Branch(below, Emit(NewLabels(g, WhileLabels), Place(start)), ast, i, body, end)
    IN  Returns(Emit(Emit(do, Jump(start)), Place(end)), UNIT)

\* The name is bound after its value, and over a name that was there.
VisitVar(below, g, ast, i) ==
    LET name  == WordOf(ast, Edge(ast, i, 1))
        var   == NewVar(g, name, ast.types[i])
        value == below[Edge(ast, i, 2)][var]
    IN  Returns(Bind(Emit(value, Copy(value.result, var.result)), name, var.result), UNIT)

\* cabor_visit_ir_node, of a node that may be NULL.
VisitNode(below, g, ast, i) ==
    LET kind  == ast.heap[i].kind
        word  == WordOf(ast, i)
        edges == Len(ast.heap[i].edges)
    IN  IF i = NullAst THEN [g EXCEPT !.end = "undefined"]
        ELSE CASE kind = "BINARY_OP"     -> VisitOperator(below, g, ast, i, word, ast.types[i])
               [] kind = "UNARY_OP"      -> VisitOperator(below, g, ast, i, UnaryName(word), "Unit")
               [] kind = "LITERAL"       -> VisitLiteral(g, ast, i)
               [] kind = "IDENTIFIER"    -> Returns(g, Lookup(g, word))
               [] kind = "FUNCTION_CALL" -> VisitCall(below, g, ast, i)
               [] kind = "UNIT"          -> Returns(g, UNIT)
               [] kind = "BLOCK"         -> VisitBlock(below, g, ast, i)
               [] kind = "WHILE"         -> VisitWhile(below, g, ast, i)
               [] kind = "VAR_EXPR"      -> VisitVar(below, g, ast, i)
               [] kind = "IF_THEN_ELSE" /\ edges = 2 -> VisitIfThen(below, g, ast, i)
               [] kind = "IF_THEN_ELSE" /\ edges = 3 -> VisitIfThenElse(below, g, ast, i)
               [] OTHER                  -> Returns(g, INVALID)

Visits(below, ast) ==
    [i \in 0 .. Len(ast.heap) |->
        [g \in Generator(ast) |-> IF g.end # "ok" THEN g ELSE VisitNode(below, g, ast, i)]]
TooDeep(ast) ==
    [i \in 0 .. Len(ast.heap) |-> [g \in Generator(ast) |-> [g EXCEPT !.end = "undefined"]]]

\* The visits of all nodes, with room on the stack for that many calls.
Visit(ast) ==
    LET visit[depth \in 0 .. MaxDepth] ==
            IF depth = 0 THEN TooDeep(ast) ELSE Visits(visit[depth - 1], ast)
    IN  visit[MaxDepth]

\* cabor_generate_ir: the value of the program is printed if its variable is
\* an Int or a Bool.
Generate(ast) ==
    LET names == Enter(Enter(<<>>, "print_int", 0), "print_bool", 1)
        g     == Visit(ast)[ast.root][Begin(<<>>, Globals, names, UNIT)]
        type  == IF g.result > 0 THEN g.vars[g.result + 1].type ELSE "Unit"
    IN  IF g.end # "ok" THEN g
        ELSE CASE type = "Int"  -> Emit(g, Call(0, <<g.result>>, UNIT))
               [] type = "Bool" -> Emit(g, Call(1, <<g.result>>, UNIT))
               [] OTHER         -> g
=============================================================================
