----------------------------- MODULE CaborParser -----------------------------
(***************************************************************************)
(* The recursive descent parser, language/parser.c, one operator           *)
(* per function.  A parser state p holds the tokens it was given, how many *)
(* units it has put behind them, the cursor (from 1), the node the last    *)
(* function returned, the heap, how many nodes are allocated and not       *)
(* freed, and how parsing ended so far:                                    *)
(*                                                                         *)
(*   "ok"         it has not ended                                         *)
(*   "exited"     CABOR_RUNTIME_ERROR, which calls exit(1)                 *)
(*   "aborted"    a CABOR_ASSERT of the debug build                        *)
(*   "undefined"  a NULL token or node is read, a function ends without    *)
(*                its return, a node gets more edges than it has room for, *)
(*                or the calls of the parser nest deeper than the stack    *)
(*                                                                         *)
(* The functions call each other through below: below[level][p] is the     *)
(* call of a binary expression of that level, or of a factor, one call     *)
(* deeper.  A function given a state that has ended returns it.            *)
(***************************************************************************)
EXTENDS CaborTokenizer, CaborAst

CONSTANT MaxEdges   \* CABOR_AST_NODE_MAX_EDGES

ASSUME EdgesAssumption == MaxEdges \in Nat \ {0}

\* binary_precedence_levels, from the loosest; factors come behind them.
Precedence == <<{"="}, {"or"}, {"and"}, {"==", "!="}, {"<", "<=", ">", ">="},
                {"+", "-"}, {"*", "/", "%"}>>
FactorLevel == Len(Precedence) + 1

\* What the proofs need of these tokens: no operator is taken for a name or a number.
Signs == {"=", "or", "and", "==", "!=", "<", "<=", ">", ">=", "+", "-", "*", "/", "%", "not",
          "while", "do"}
ASSUME SignAssumption == \A t \in Signs : Kind(t) \notin {"identifier", "integer"}

Parser(toks) ==
    [toks : {toks}, units : Nat, at : Nat, node : Nat, heap : Seq(Node), made : Int, end : End]

Ok(p) == p.end = "ok"
Stop(p, how) == [p EXCEPT !.end = how]
Fail(p) == [p EXCEPT !.node = NullAst]

\* The token vector, cabor_vector_get_token: the units are behind the tokens.
Size(p) == Len(p.toks) + p.units
Word(p, i) == IF i <= Len(p.toks) THEN p.toks[i] ELSE UnitToken

Token(p) == Word(p, p.at)
More(p) == p.at < Size(p)
Ahead(p) == IF More(p) THEN Word(p, p.at + 1) ELSE "<END>"

\* next: at the last token the cursor stays there.
Advance(p) == IF More(p) THEN [p EXCEPT !.at = @ + 1] ELSE p

\* cabor_allocate_ast_node
Make(p, kind, at, edges) ==
    IF Len(edges) > MaxEdges THEN Stop(p, "undefined")
    ELSE [p EXCEPT !.node = Len(p.heap) + 1,
                   !.heap = Append(@, [kind |-> kind, at |-> at, edges |-> edges]),
                   !.made = @ + 1]

\* token_is_term
IsTerm(p, node) ==
    Kind(Word(p, p.heap[node].at)) \in {"identifier", "integer", "operator", "keyword"}

Expression(below, p) == below[1][p]

\* A loop that collects edges.  It ends before it has gone round for each token.
Collecting(toks) == [parser : Parser(toks), edges : Seq(Nat), going : BOOLEAN]
Collect(round, p) ==
    LET last == Repeat(round, [parser |-> p, edges |-> <<>>, going |-> TRUE], Len(p.toks))
    IN  IF last.going THEN Stop(last.parser, "undefined") ELSE last.parser
Done(loop, p) == [loop EXCEPT !.parser = p, !.going = FALSE]

-----------------------------------------------------------------------------
(* Binary operators: one loop per level of precedence. *)

\* Mutant: the operands change places.
ApplyBackwards(p, at, left) ==
    IF ~Ok(p) THEN p
    ELSE IF NullAst \in {left, p.node} THEN Stop(p, "undefined")
    ELSE IF ~IsTerm(p, left) \/ ~IsTerm(p, p.node) THEN Stop(p, "aborted")
    ELSE Make(p, "BINARY_OP", at, <<p.node, left>>)

\* cabor_parse_operator: both operands must begin with a term.
Apply(p, at, left) ==
    IF ~Ok(p) THEN p
    ELSE IF NullAst \in {left, p.node} THEN Stop(p, "undefined")
    ELSE IF ~IsTerm(p, left) \/ ~IsTerm(p, p.node) THEN Stop(p, "aborted")
    ELSE Make(p, "BINARY_OP", at, <<left, p.node>>)

\* Mutant: the right operand takes the operators of its own level too.
RightFirst(below, p, level) ==
    IF ~Ok(p) \/ Ahead(p) \notin Precedence[level] THEN p
    ELSE LET op == Advance(p)
         IN  Apply(below[level][Advance(op)], op.at, p.node)

\* A round of the loop of cabor_parse_binary_expression, from its left operand on.
Operator(below, p, level) ==
    IF ~Ok(p) \/ Ahead(p) \notin Precedence[level] THEN p
    ELSE LET op == Advance(p)
         IN  Apply(below[level + 1][Advance(op)], op.at, p.node)

\* There are no more rounds than operators of the level.
Binary(below, p, level) ==
    LET round == [q \in Parser(p.toks) |-> Operator(below, q, level)]
        ops   == {i \in DOMAIN p.toks : p.toks[i] \in Precedence[level]}
    IN  Repeat(round, below[level + 1][p], Cardinality(ops))

\* Without a token behind it the operator is its own operand, for ever.
Unary(below, p) ==
    LET operand == below[FactorLevel][Advance(p)]
    IN  IF ~Ok(operand) THEN operand
        ELSE Make(operand, "UNARY_OP", p.at, <<operand.node>>)

\* Mutant: the expression is parsed to find its end, and then once more.
ParenthesizedTwice(below, p) ==
    LET ahead == Expression(below, Advance(p))
        inner == Expression(below, [Advance(p) EXCEPT !.made = ahead.made, !.heap = ahead.heap])
        close == Advance(inner)
    IN  IF ~Ok(ahead) THEN ahead
        ELSE IF ~Ok(inner) THEN inner
        ELSE IF Token(close) # ")" THEN Stop(close, "aborted") ELSE close

\* The cursor stays on the last token, which may be a ) of something else.
Parenthesized(below, p) ==
    LET inner == Expression(below, Advance(p))
        close == Advance(inner)
    IN  IF ~Ok(inner) THEN inner
        ELSE IF Token(close) # ")" THEN Stop(close, "aborted") ELSE close

\* cabor_parse_identifier
Name(p) ==
    IF Token(p) \in {"true", "false"} THEN "LITERAL" ELSE "IDENTIFIER"

-----------------------------------------------------------------------------
(* Constructs that begin with a word. *)

\* The token behind the then-branch is consumed whatever it is.
If(below, p) ==
    LET cond == Expression(below, Advance(p))
        then == Advance(cond)
        yes  == Expression(below, Advance(then))
        else == Advance(yes)
        no   == Expression(below, Advance(else))
    IN  IF ~More(p) THEN Fail(p)
        ELSE IF ~Ok(cond) THEN cond
        ELSE IF Ahead(cond) # "then" \/ ~More(then) THEN Fail(then)
        ELSE IF ~Ok(yes) THEN yes
        ELSE IF Ahead(yes) # "else" \/ ~More(else)
             THEN Make(else, "IF_THEN_ELSE", p.at, <<cond.node, yes.node>>)
        ELSE IF ~Ok(no) THEN no
        ELSE Make(no, "IF_THEN_ELSE", p.at, <<cond.node, yes.node, no.node>>)

\* Without a token behind it the word is its own condition, for ever.
While(below, p) ==
    LET cond == Expression(below, Advance(p))
        do   == Advance(cond)
        body == Expression(below, Advance(do))
    IN  IF ~Ok(cond) THEN cond
        ELSE IF ~More(cond) THEN Stop(cond, "undefined")
        ELSE IF Ahead(cond) # "do" THEN Fail(do)
        ELSE IF ~Ok(body) THEN body
        ELSE Make(body, "WHILE", p.at, <<cond.node, body.node>>)

\* var name [: type] = value; the edges are name, value and type.
Var(below, p) ==
    LET name  == Advance(p)
        typed == Ahead(name) = ":"
        sign  == name.at + (IF typed THEN 3 ELSE 1)
        eq    == [name EXCEPT !.at = sign]
        value == Expression(below, Advance(eq))
        left  == Make(value, Name(name), name.at, <<>>)
        type  == Make(left, "DECLARATION", name.at + 2, <<>>)
        edges == <<left.node, value.node>>
    IN  IF ~More(p) \/ Kind(Token(name)) # "identifier" THEN Fail(name)
        ELSE IF ~More(name) THEN Stop(name, "undefined")
        ELSE IF sign > Size(p) THEN Fail([name EXCEPT !.at = Size(p)])
        ELSE IF Token(eq) # "=" THEN Fail(eq)
        ELSE IF ~Ok(value) THEN value
        ELSE IF typed THEN Make(type, "VAR_EXPR", p.at, Append(edges, type.node))
        ELSE Make(left, "VAR_EXPR", p.at, edges)

\* The , or ) an argument is skipped to, or 0: what lies between is dropped.
Separator(p) ==
    LET found == {i \in p.at + 1 .. Size(p) : Word(p, i) \in {",", ")"}}
    IN  IF found = {} THEN 0 ELSE Min(found)

\* A round of the loop of cabor_parse_function, at the first token of an argument.
Argument(below, loop, name) ==
    LET p      == loop.parser
        arg    == Expression(below, p)
        all    == Append(loop.edges, arg.node)
        sep    == Separator(arg)
        behind == [arg EXCEPT !.at = IF sep = 0 THEN Size(arg) ELSE sep]
    IN  IF ~loop.going THEN loop
        ELSE IF Token(p) = ")" THEN Done(loop, Make(p, "FUNCTION_CALL", name, loop.edges))
        ELSE IF ~Ok(arg) THEN Done(loop, arg)
        ELSE IF sep = 0 THEN Done(loop, Make(behind, "UNKNOWN", 1, <<>>))
        ELSE IF Token(behind) = ")" THEN Done(loop, Make(behind, "FUNCTION_CALL", name, all))
        ELSE IF ~More(behind) THEN Done(loop, Make(behind, "UNKNOWN", 1, <<>>))
        ELSE [loop EXCEPT !.parser = Advance(behind), !.edges = all]

Function(below, p) ==
    LET open  == Advance(p)
        round == [loop \in Collecting(p.toks) |-> Argument(below, loop, p.at)]
    IN  IF More(open) THEN Collect(round, Advance(open))
        ELSE Make(open, "UNKNOWN", 1, <<>>)

\* On an error the roots of the expressions are freed, and nothing below them.
FailBlock(p, edges) == [Fail(p) EXCEPT !.made = @ - Len(edges)]

\* A round of the loop of cabor_parse_block, at the first token of an expression.
\* A block that ends in ;} gets a unit, whose token goes behind all others.
Statement(below, loop, begin) ==
    LET expr == Expression(below, loop.parser)
        all  == Append(loop.edges, expr.node)
        sep  == Advance(expr)
        unit == Make([sep EXCEPT !.units = @ + 1, !.at = @ + 1], "UNIT", Size(sep) + 1, <<>>)
    IN  IF ~loop.going THEN loop
        ELSE IF ~Ok(expr) THEN Done(loop, expr)
        ELSE IF expr.node = NullAst THEN Done(loop, FailBlock(expr, loop.edges))
        ELSE IF ~More(expr) THEN Done(loop, Stop(expr, "undefined"))
        ELSE IF Token(sep) = "}" THEN Done(loop, Make(sep, "BLOCK", begin, all))
        ELSE IF Token(sep) # ";" \/ ~More(sep) THEN Done(loop, FailBlock(sep, all))
        ELSE IF Ahead(sep) = "}"
             THEN Done(loop, Make(unit, "BLOCK", begin, Append(all, unit.node)))
        ELSE [loop EXCEPT !.parser = Advance(sep), !.edges = all]

Block(below, p) ==
    LET round == [loop \in Collecting(p.toks) |-> Statement(below, loop, p.at)]
    IN  IF More(p) THEN Collect(round, Advance(p)) ELSE Stop(p, "undefined")

Factor(below, p) ==
    LET t == Token(p) IN
    CASE Kind(t) = "identifier" /\ Ahead(p) = "("  -> Function(below, p)
      [] Kind(t) = "identifier" /\ Ahead(p) # "("  -> Make(p, Name(p), p.at, <<>>)
      [] Kind(t) = "integer"                 -> Make(p, "LITERAL", p.at, <<>>)
      [] t \in {"-", "not"}                  -> Unary(below, p)
      [] t = "("                             -> Parenthesized(below, p)
      [] t = "{"                             -> Block(below, p)
      [] t = "if"                            -> If(below, p)
      [] t = "while"                         -> While(below, p)
      [] t = "var"                           -> Var(below, p)
      [] t \in (Punctuation \ {"(", "{"}) \union {UnitToken} -> Stop(p, "exited")
      [] OTHER                               -> Stop(p, "undefined")

Overflow(toks) ==
    [level \in 1 .. FactorLevel |-> [p \in Parser(toks) |-> Stop(p, "undefined")]]
Calls(below, toks) ==
    [level \in 1 .. FactorLevel |->
        [p \in Parser(toks) |->
            IF level = FactorLevel THEN Factor(below, p) ELSE Binary(below, p, level)]]

\* The functions of the parser, with room on the stack for that many calls.
Parsing(toks) ==
    LET call[depth \in 0 .. MaxDepth] ==
            IF depth = 0 THEN Overflow(toks) ELSE Calls(call[depth - 1], toks)
    IN  call[MaxDepth]

\* cabor_parse: one expression; what follows it is not looked at.
Parse(toks) ==
    LET start == [toks |-> toks, units |-> 0, at |-> 1, node |-> NullAst,
                  heap |-> <<>>, made |-> 0, end |-> "ok"]
    IN  IF toks = <<>> THEN Stop(start, "aborted") ELSE Parsing(toks)[1][start]
=============================================================================
