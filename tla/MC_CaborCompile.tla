---------------------------- MODULE MC_CaborCompile ----------------------------
(***************************************************************************)
(* The programs the compile pipeline is run on.  Every construct stands    *)
(* inside every other, one of them compound at a time.                     *)
(***************************************************************************)
EXTENDS CaborCompile, CaborLanguage

Ints0  == {Literal("1"), Literal("2")}
Bools0 == {Literal("true"), Literal("false")}
X      == Named("x")

\* Two operands of which one at least is simple.
Pairs(As, A0, Bs, B0) == (As \X B0) \union (A0 \X Bs)

\* The Int expressions with an Int of Is, or a Bool of Bs, directly inside.
IntsOver(Is, Bs) ==
    {Infix(op, p[1], p[2]) : op \in {"+", "-", "*"}, p \in Pairs(Is, Ints0, Is, Ints0)}
      \union {Prefix("-", i) : i \in Is}
      \union {IfElse(b, i, Literal("3")) : b \in Bs, i \in Ints0}
      \union {IfElse(b, Literal("3"), i) : b \in Bools0, i \in Is}
      \union {IfElse(b, i, Literal("3")) : b \in Bools0, i \in Is}

BoolsOver(Is, Bs) ==
    {Infix(op, p[1], p[2]) : op \in {"==", "!="}, p \in Pairs(Bs, Bools0, Bs, Bools0)}
      \union {Prefix("not", b) : b \in Bs}
      \union {IfElse(p[1], p[2], Literal("false")) : p \in Pairs(Bs, Bools0, Bs, Bools0)}

Ints1  == Ints0 \union IntsOver(Ints0, Bools0)
Bools1 == Bools0 \union BoolsOver(Ints0, Bools0)

\* Blocks, variables and loops around the expressions of Is and Bs.
Blocks(Is, Bs) ==
    UNION {{BlockOf(<<VarIs("x", i), X>>),
            BlockOf(<<i, VarIs("x", i), Infix("-", X, Literal("1"))>>),
            BlockOf(<<TypedVar("x", "Int", i), BlockOf(<<i>>), X>>),
            UnitBlock(<<i>>), BlockOf(<<BlockOf(<<UnitBlock(<<i>>)>>), BlockOf(<<i>>), i>>),
            BlockOf(<<VarIs("y", Literal("2")), UnitBlock(<<i>>), i>>),
            IfElse(Literal("true"), BlockOf(<<i>>), BlockOf(<<Literal("1"), Literal("2")>>)),
            VarIs("x", i), Prefix("-", BlockOf(<<UnitBlock(<<i>>), i>>))} : i \in Is}
    \union
    UNION {{BlockOf(<<TypedVar("x", "Bool", b), WhileDo(Literal("false"), b), X>>),
            BlockOf(<<VarIs("x", b), IfElse(X, Literal("1"), Literal("2"))>>),
            WhileDo(b, UnitBlock(<<Literal("1")>>)),
            BlockOf(<<WhileDo(b, Literal("2")), Literal("3")>>)} : b \in Bs}

\* Operators that the others do not stand inside of.
Dividing  == {Infix(op, i, j) : op \in {"/", "%"}, i \in Ints1, j \in Ints0}

AllPrograms ==
    Dividing \union IntsOver(Ints1, Bools1) \union BoolsOver(Ints1, Bools1) \union Blocks(Ints1, Bools1)

\* Comparisons of numbers, which the type checker takes for numbers.
Comparing == {Infix(op, i, j) : op \in {"==", "<", "<=", ">", ">="}, i \in Ints1, j \in Ints0}

\* Two and three operators of any levels, the unary ones, and calls.
AllInfixes == UNION Range(Levels)
AllTrees ==
    LET one(op) == Infix(op, Literal("1"), X)
    IN  Comparing \union {Infix(op, one(p), X) : op, p \in AllInfixes}
          \union {Infix(op, X, one(p)) : op, p \in AllInfixes}
          \union {Infix(op, one(p), one(q)) : op, p, q \in {"=", "or", "==", "<", "-", "+", "/"}}
          \union {Infix(op, Prefix(u, X), Prefix(u, one(op))) : op \in AllInfixes, u \in {"-", "not"}}
          \union {CallOf("f", <<one(op), X, CallOf("f", <<>>)>>) : op \in AllInfixes}
          \union {CallOf("f", <<CallOf("f", <<BlockOf(<<one(op)>>)>>), UnitBlock(<<X>>)>>) :
                    op \in AllInfixes}
          \union {VarIs("x", CallOf("f", <<IfElse(X, one(op), X)>>)) : op \in AllInfixes}

Wrong == {Infix("+", Literal("1"), Literal("true")), Prefix("-", Literal("true")),
          Prefix("not", Literal("1")), IfElse(Literal("1"), Literal("2"), Literal("3")),
          IfElse(Literal("true"), Literal("1"), Literal("false")), X,
          WhileDo(Literal("1"), Literal("1")), TypedVar("x", "Bool", Literal("1")),
          TypedVar("x", "Int", Literal("true")),
          BlockOf(<<VarIs("x", Literal("1")), VarIs("x", Literal("2"))>>),
          BlockOf(<<VarIs("x", Literal("1")), BlockOf(<<X>>)>>),
          BlockOf(<<BlockOf(<<VarIs("x", Literal("1"))>>), X>>),
          BlockOf(<<VarIs("x", X)>>)}

AllIllTyped ==
    Wrong
      \union {Infix(op, Literal("1"), e) :
                op \in {"+", "=="}, e \in {w \in Wrong : w.kind # "BLOCK"}}
      \union {Prefix("-", e) : e \in Wrong} \union {VarIs("y", e) : e \in Wrong}
      \union {BlockOf(<<Literal("1"), e>>) : e \in Wrong}
      \union {IfElse(e, Literal("1"), Literal("2")) : e \in Wrong}
      \union {IfElse(Literal("true"), Literal("1"), e) : e \in Wrong}

\* What is called by an operator's name, or has no value.
Odd == {<<"{", "not", "true", ";", "unary_not", "(", "1", ",", "2", ")", "}">>,
        <<"{", "not", "true", ";", "unary_not", "(", ")", "}">>,
        <<"print_int", "(", ")">>, <<"print_int", "(", "7", ")">>,
        <<"1", "/", "0">>, <<"not", "7">>}

\* Every short sequence of tokens, and longer ones of those that nest and join.
Tokens == {"x", "1", "true", "+", "-", "not", "=", "(", ")", "{", "}", ";", ",", ":",
           "if", "then", "else", "while", "do", "var", "return"}
Joints == {"x", "-", "(", ")", "{", "}", ";", ","}
AllSources ==
    UNION {[1 .. n -> Tokens] : n \in 0 .. 3} \union UNION {[1 .. n -> Joints] : n \in 4 .. 5}
      \union {<<"if", "true", "then">> \o s :
                s \in UNION {[1 .. n -> Joints \union {"else"}] : n \in 1 .. 3}}
      \union Odd

\* Every short text of characters that can be part of more than one token, and
\* names around the longest a token may be.
Pieces == {"x", "1", "=", "-", "/", "*", " ", "\n", "(", "or", "not", "?"}
Joined(s) == FoldLeft(LAMBDA all, c : all \o c, "", s)
AllTexts ==
    {Joined(s) : s \in UNION {[1 .. n -> Pieces] : n \in 1 .. 3}}
      \union {Joined(s) : s \in [1 .. 5 -> {"x", "/", "*", "\n", "or", "-"}]}
      \union {"{ x1 ; if_", "xor + nota", "abcdefghi", "abcdefghij", "abcdefghijk + 1"}

\* An if without an else, alone and in front of other expressions.
Optionals == {IfThen(Literal("true"), Literal("1")),
              BlockOf(<<IfThen(Literal("true"), Literal("1")), Literal("2")>>)}

\* The texts, and what they were written from.
Meant(e, toks, raw, prints, loops) ==
    [tree |-> e, tokens |-> toks, text |-> raw, prints |-> prints, loops |-> loops]
Only(e, toks, raw) == Meant(e, toks, raw, <<>>, FALSE)
NoTree == Literal("none")

Trees(exprs) ==
    {[text |-> Spell(Write(e, 1), style), meant |-> Only(e, Write(e, 1), "")] :
        e \in exprs, style \in Styles}
Programs(exprs) ==
    {[text |-> Spell(Write(e, 1), style), meant |-> Meant(e, Write(e, 1), "", Prints(e), Loops(e))] :
        e \in exprs, style \in Styles}
Spelled(all) == {[text |-> Spell(toks, "spaced"), meant |-> Only(NoTree, <<>>, "")] : toks \in all}
Texts(all)   == {[text |-> raw, meant |-> Only(NoTree, <<>>, raw)] : raw \in all}

AllInputs ==
    [program |-> Programs(AllPrograms), tree |-> Trees(AllTrees), illtyped |-> Trees(AllIllTyped),
     tokens |-> Spelled(AllSources), text |-> Texts(AllTexts)]
OptionalInputs == [tree |-> Trees(Optionals)]
=============================================================================
