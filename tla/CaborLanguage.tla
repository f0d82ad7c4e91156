---------------------------- MODULE CaborLanguage ----------------------------
(***************************************************************************)
(* What the compiler is measured against, written without its code: the    *)
(* programs of the language as trees, how a program is written as tokens   *)
(* with as few parentheses as its precedences allow, how these are spelled *)
(* as text, and what the program computes.                                 *)
(*                                                                         *)
(* An expression is a record of its kind, its first word and its edges, in *)
(* the order the parser gives them.  A value is a pair of a type and a     *)
(* number, false being 0 and true 1.                                       *)
(***************************************************************************)
EXTENDS Integers, Sequences, SequencesExt, TLC

Expr(kind, word, edges) == [kind |-> kind, word |-> word, edges |-> edges]

Literal(word)    == Expr("LITERAL", word, <<>>)
Named(name)      == Expr("IDENTIFIER", name, <<>>)
Infix(op, a, b) == Expr("BINARY_OP", op, <<a, b>>)
Prefix(op, a)     == Expr("UNARY_OP", op, <<a>>)
IfElse(cond, a, b) == Expr("IF_THEN_ELSE", "if", <<cond, a, b>>)
IfThen(cond, a)    == Expr("IF_THEN_ELSE", "if", <<cond, a>>)
WhileDo(cond, a)   == Expr("WHILE", "while", <<cond, a>>)
VarIs(name, a)     == Expr("VAR_EXPR", "var", <<Named(name), a>>)
TypedVar(name, type, a) ==
    Expr("VAR_EXPR", "var", <<Named(name), a, Expr("DECLARATION", type, <<>>)>>)
BlockOf(exprs)  == Expr("BLOCK", "{", exprs)
UnitBlock(exprs) == BlockOf(Append(exprs, Expr("UNIT", "<UNIT>", <<>>)))
CallOf(name, args) == Expr("FUNCTION_CALL", name, args)

-----------------------------------------------------------------------------
(* Writing *)

Levels == <<{"="}, {"or"}, {"and"}, {"==", "!="}, {"<", "<=", ">", ">="},
            {"+", "-"}, {"*", "/", "%"}>>

LevelOf(op) == CHOOSE i \in DOMAIN Levels : op \in Levels[i]
Atom == Len(Levels) + 1

\* Where an expression may stand without parentheses.
Loosest(e) ==
    CASE e.kind = "BINARY_OP" -> LevelOf(e.word)
      [] e.kind \in {"IF_THEN_ELSE", "WHILE", "VAR_EXPR"} -> 1
      [] OTHER -> Atom

RECURSIVE Write(_, _)

Separated(exprs, by) ==
    FoldLeft(LAMBDA text, e : IF text = <<>> THEN Write(e, 1) ELSE text \o <<by>> \o Write(e, 1),
             <<>>, exprs)

WriteBlock(exprs) ==
    IF Last(exprs).kind = "UNIT" THEN <<"{">> \o Separated(Front(exprs), ";") \o <<";", "}">>
    ELSE <<"{">> \o Separated(exprs, ";") \o <<"}">>

\* The tokens of e where an operand of the given level is expected.  An
\* operator binds to the left: its right operand is one level tighter.
Write(e, level) ==
    LET E(i) == Write(e.edges[i], 1)
        bare ==
          CASE e.kind = "BINARY_OP" ->
                 Write(e.edges[1], LevelOf(e.word)) \o <<e.word>>
                   \o Write(e.edges[2], LevelOf(e.word) + 1)
            [] e.kind = "UNARY_OP" -> <<e.word>> \o Write(e.edges[1], Atom)
            [] e.kind = "FUNCTION_CALL" ->
                 <<e.word, "(">> \o Separated(e.edges, ",") \o <<")">>
            [] e.kind = "BLOCK" -> WriteBlock(e.edges)
            [] e.kind = "WHILE" -> <<"while">> \o E(1) \o <<"do">> \o E(2)
            [] e.kind = "VAR_EXPR" ->
                 <<"var">> \o E(1) \o (IF Len(e.edges) = 3 THEN <<":">> \o E(3) ELSE <<>>)
                   \o <<"=">> \o E(2)
            [] e.kind = "IF_THEN_ELSE" ->
                 <<"if">> \o E(1) \o <<"then">> \o E(2)
                   \o (IF Len(e.edges) = 3 THEN <<"else">> \o E(3) ELSE <<>>)
            [] OTHER -> <<e.word>>
    IN  IF Loosest(e) < level THEN <<"(">> \o bare \o <<")">> ELSE bare

-----------------------------------------------------------------------------
(* Spelling: with a space between the tokens, with none where two of them  *)
(* can be told apart without, or with comments between them.               *)

WordOperators == {"or", "and", "not"}
Points == {"(", ")", "{", "}", ",", ";", ":"}
Looks(token) ==
    CASE token \in Points        -> "point"
      [] token \in WordOperators -> "word sign"
      [] token \in UNION Range(Levels) \ WordOperators -> "sign"
      [] OTHER                   -> "word"

Separate(a, b) ==
    LET both == {Looks(a), Looks(b)}
    IN  "point" \in both \/ both = {"sign", "word"}

Styles == {"spaced", "tight", "commented"}
Gap(style, a, b) ==
    CASE style = "spaced"    -> " "
      [] style = "tight"     -> IF Separate(a, b) THEN "" ELSE " "
      [] style = "commented" -> " /*/ + x **/\r//= {\n"

Spell(toks, style) ==
    LET piece(i) == IF i = Len(toks) THEN toks[i] ELSE toks[i] \o Gap(style, toks[i], toks[i + 1])
    IN  FoldLeft(LAMBDA text, p : text \o p, "", [i \in DOMAIN toks |-> piece(i)])

-----------------------------------------------------------------------------
(* Computing.  s holds the names in scope, the last value and whether the *)
(* program has come to a loop that never ends.                            *)

IntValue(n)  == <<"Int", n>>
BoolValue(b) == <<"Bool", IF b THEN 1 ELSE 0>>
UnitValue    == <<"Unit", 0>>
NoValues == [names |-> [n \in {} |-> UnitValue], value |-> UnitValue, loops |-> FALSE]

Constant(word) ==
    CASE word = "1" -> IntValue(1) [] word = "2" -> IntValue(2) [] word = "3" -> IntValue(3)
      [] word = "true" -> BoolValue(TRUE) [] word = "false" -> BoolValue(FALSE)

\* Division rounds towards zero; the remainder has the sign of the dividend.
Divided(a, b) == CHOOSE q \in -a .. a \union a .. -a :
    \E r \in 1 - b .. b - 1 : a = q * b + r /\ r * a >= 0

Operation(op, a, b) ==
    CASE op = "+"  -> IntValue(a[2] + b[2])
      [] op = "-"  -> IntValue(a[2] - b[2])
      [] op = "*"  -> IntValue(a[2] * b[2])
      [] op = "==" -> BoolValue(a = b)
      [] op = "!=" -> BoolValue(a # b)
      [] op = "/"  -> IntValue(Divided(a[2], b[2]))
      [] op = "%"  -> IntValue(a[2] - b[2] * Divided(a[2], b[2]))
      [] op = "<"  -> BoolValue(a[2] < b[2])
      [] op = "<=" -> BoolValue(a[2] <= b[2])
      [] op = ">"  -> BoolValue(a[2] > b[2])
      [] op = ">=" -> BoolValue(a[2] >= b[2])

RECURSIVE Eval(_, _)

\* Every construct sees the names of its own block and no others.
Eval(e, s) ==
    LET Gives(t, value) == [t EXCEPT !.value = value]
        a == Eval(e.edges[1], s)
        b == Eval(e.edges[2], a)
        Inner == FoldLeft(LAMBDA t, x : Eval(x, t), [s EXCEPT !.names = NoValues.names], e.edges)
    IN  IF s.loops THEN s ELSE
        CASE e.kind = "LITERAL"    -> Gives(s, Constant(e.word))
          [] e.kind = "IDENTIFIER" -> Gives(s, s.names[e.word])
          [] e.kind = "UNIT"       -> Gives(s, UnitValue)
          [] e.kind = "UNARY_OP"   ->
               Gives(a, IF e.word = "-" THEN IntValue(-a.value[2]) ELSE BoolValue(a.value[2] = 0))
          [] e.kind = "BINARY_OP"  -> Gives(b, Operation(e.word, a.value, b.value))
          [] e.kind = "BLOCK"      -> [Inner EXCEPT !.names = s.names]
          [] e.kind = "IF_THEN_ELSE" ->
               IF a.value[2] = 1 THEN b ELSE Eval(e.edges[3], a)
          [] e.kind = "WHILE"      ->
               IF a.value[2] = 1 THEN [a EXCEPT !.loops = TRUE] ELSE Gives(a, UnitValue)
          [] e.kind = "VAR_EXPR"   ->
               LET value == Eval(e.edges[2], s)
               IN  [value EXCEPT !.value = UnitValue,
                                 !.names = (e.edges[1].word :> value.value) @@ @]

\* What running a program prints: its value, unless that is Unit.
Prints(e) ==
    LET value == Eval(e, NoValues).value
    IN  IF value[1] = "Unit" THEN <<>> ELSE <<value>>

Loops(e) == Eval(e, NoValues).loops
=============================================================================
