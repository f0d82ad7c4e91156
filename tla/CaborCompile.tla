----------------------------- MODULE CaborCompile -----------------------------
(***************************************************************************)
(* cabor_compile, language/compiler.c: one program on its way through the  *)
(* tokenizer, the parser, the type checker and the generators of           *)
(* intermediate code and of assembly.  The intermediate code is executed   *)
(* one instruction at a time, and then, if the assembler takes it, the     *)
(* assembly is.                                                            *)
(*                                                                         *)
(* The source is the text of one of Inputs, of a kind: a "program", whose  *)
(* meaning is fixed, a "tree", of which only the parse is compared, an     *)
(* "illtyped" expression, "tokens" or any "text".  The kind and what the   *)
(* source is meant to be are read by the properties alone.  No type and no *)
(* NULL tree keeps cabor_compile from going on.                            *)
(*                                                                         *)
(* Names are found or not found, as if no two of a program shared a slot   *)
(* of the hash map: see LookupAnswers of CaborHashMap for when they do.    *)
(***************************************************************************)
EXTENDS CaborParser, CaborTypeChecker, CaborIr, CaborCodegen

CONSTANT Inputs   \* for each kind a set of texts, with what they are meant to be

ASSUME InputAssumption ==
    \A k \in DOMAIN Inputs : \A input \in Inputs[k] : Len(input.text) \in Nat

VARIABLES
    kind,     \* the kind of the source
    meant,    \* what it was written from, and what it is to print
    text,     \* the source, forgotten once it has been read
    tokens,   \* the token vector, which the parser appends to
    phase,    \* source, tokenized, parsed, typed, generated, running, halted,
              \* executing, finished, or how else it ended
    heap,     \* the nodes the parser has allocated, freed or not
    tree,     \* cabor_ast: the node that is the root
    made,     \* how many nodes the parser has allocated and not freed
    types,    \* the types of the nodes
    tables,   \* the symbol tables of the type checker, each with its child
    type,     \* what cabor_typecheck returned for the root
    ir,       \* cabor_ir_data
    asm,      \* cabor_x64_assembly
    pc,       \* the next instruction
    store,    \* the values of the variables, or cells, written so far
    printed   \* the values printed so far, each with its type

astVars == <<heap, tree, made, types, tables>>
vars == <<kind, meant, text, tokens, phase, astVars, type, ir, asm, pc, store, printed>>

Unwritten == [var \in {} |-> 0]

Init ==
    /\ kind \in DOMAIN Inputs
    /\ \E input \in Inputs[kind] : meant = input.meant /\ text = input.text
    /\ tokens = <<>>
    /\ phase = "source"
    /\ heap = <<>>
    /\ tree = NullAst
    /\ made = 0
    /\ types = <<>>
    /\ tables = <<>>
    /\ type = "Error"
    /\ ir = Begin(<<>>, <<>>, <<>>, UNIT)
    /\ asm = <<>>
    /\ pc = 1
    /\ store = Unwritten
    /\ printed = <<>>

Ended(end, go) == IF end \in End \ {"ok"} THEN end ELSE go

\* A character behind the buffer is taken for a token if it looks like one.
Stray(s) == IF s.past THEN {<<c>> : c \in Punctuation} ELSE {}

TokenizeSource ==
    /\ phase = "source"
    /\ LET s == Tokenize(text)
       IN  /\ \E stray \in {<<>>} \union Stray(s) : tokens' = s.toks \o stray
           /\ phase' = Ended(s.end, "tokenized")
    /\ text' = ""
    /\ UNCHANGED <<kind, meant, astVars, type, ir, asm, pc, store, printed>>

\* cabor_parse gives every node the type CABOR_TYPE_ERROR.
ParseTokens ==
    /\ phase = "tokenized"
    /\ LET p == Parse(tokens)
       IN  /\ heap' = p.heap
           /\ tree' = p.node
           /\ made' = p.made
           /\ types' = [node \in DOMAIN p.heap |-> "Error"]
           /\ tokens' = tokens \o [unit \in 1 .. p.units |-> UnitToken]
           /\ phase' = Ended(p.end, "parsed")
    /\ UNCHANGED <<kind, meant, text, tables, type, ir, asm, pc, store, printed>>

TypeCheck ==
    /\ phase = "parsed"
    /\ LET c == Check(Ast(heap, tree, tokens, types))
       IN  /\ types' = c.types
           /\ tables' = c.tables
           /\ type' = c.type
           /\ phase' = Ended(c.end, "typed")
    /\ UNCHANGED <<kind, meant, text, tokens, heap, tree, made, ir, asm, pc, store, printed>>

GenerateIr ==
    /\ phase = "typed"
    /\ ir' = Generate(Ast(heap, tree, tokens, types))
    /\ phase' = Ended(ir'.end, "generated")
    /\ UNCHANGED <<kind, meant, text, tokens, astVars, type, asm, pc, store, printed>>

\* cabor_get_stack_slot and cabor_call_args_to_intrinisc_args look up every
\* variable an instruction names: UNIT has a slot, INVALID has none, and a
\* function and its arguments must be variables.
Addressable(i) ==
    CASE i.op = "CALL"     -> i.fun >= 0 /\ \A k \in DOMAIN i.args : i.args[k] >= 0
      [] i.op = "COPY"     -> i.source # INVALID
      [] i.op = "CONDJUMP" -> i.cond # INVALID
      [] OTHER             -> TRUE

\* A fourth argument is written behind cabor_intrinsic_args, and what a call of
\* an operator by its name does not give is read as it happens to be there.
Roomy(i) ==
    i.op = "CALL" =>
        LET name == ir.vars[i.fun + 1].name
        IN  /\ Len(i.args) <= 3
            /\ name \in Infixes \union Unaries => Len(i.args) >= Takes(name)

GenerateAssembly ==
    /\ phase = "generated"
    /\ LET bad == {k \in DOMAIN ir.code : ~Addressable(ir.code[k]) \/ ~Roomy(ir.code[k])}
       IN  IF bad = {} THEN asm' = Assembly(ir) /\ phase' = "running"
           ELSE /\ phase' = IF Addressable(ir.code[Min(bad)]) THEN "undefined" ELSE "aborted"
                /\ UNCHANGED asm
    /\ UNCHANGED <<kind, meant, text, tokens, astVars, type, ir, pc, store, printed>>

-----------------------------------------------------------------------------
(* Executing the intermediate code: the machine it is meant for, with a    *)
(* store in which a variable that was never written cannot be read.        *)

Placed(label) == {i \in DOMAIN ir.code : ir.code[i] = Place(label)}
Target(label) == CHOOSE i \in Placed(label) : TRUE

Value(var) == Read(store, var)

Written(var) == Variable(var) \in DOMAIN store
Readable(i) ==
    CASE i.op = "CALL"     -> \A k \in DOMAIN i.args : Written(i.args[k])
      [] i.op = "COPY"     -> Written(i.source)
      [] i.op = "CONDJUMP" -> /\ Written(i.cond)
                              /\ Cardinality(Placed(i.then)) = 1
                              /\ Cardinality(Placed(i.else)) = 1
      [] i.op = "JUMP"     -> Cardinality(Placed(i.label)) = 1
      [] OTHER             -> TRUE

\* One instruction, its effect by what it is.
Execute(i) ==
    LET name == ir.vars[i.fun + 1].name IN
    CASE i.op = "LABEL" -> pc' = pc + 1 /\ UNCHANGED <<store, printed>>
      [] i.op = "JUMP"  -> pc' = Target(i.label) /\ UNCHANGED <<store, printed>>
      [] i.op = "CONDJUMP" ->
           /\ pc' = Target(IF Value(i.cond) = 1 THEN i.then ELSE i.else)
           /\ UNCHANGED <<store, printed>>
      [] i.op = "CALL" /\ name \in {"print_int", "print_bool"} ->
           /\ printed' = Append(printed, <<IF name = "print_int" THEN "Int" ELSE "Bool",
                                           Value(i.args[1])>>)
           /\ pc' = pc + 1 /\ UNCHANGED store
      [] OTHER ->
           /\ store' = Stored(store, i.dest, Outcome(store, i, name))
           /\ pc' = pc + 1 /\ UNCHANGED printed

Known(i) ==
    i.op = "CALL" =>
        LET name == ir.vars[i.fun + 1].name
        IN  /\ name \in Infixes \union Unaries \union {"print_int", "print_bool"}
            /\ Len(i.args) >= Takes(name)
            /\ HasValue(name, ValuesOf(store, i.args))

Step ==
    /\ phase = "running" /\ pc \in DOMAIN ir.code
    /\ LET i == ir.code[pc]
       IN  IF Readable(i) /\ Known(i) THEN Execute(i) /\ UNCHANGED phase
           ELSE phase' = "stuck" /\ UNCHANGED <<pc, store, printed>>
    /\ UNCHANGED <<kind, meant, text, tokens, astVars, type, ir, asm>>

Halt ==
    /\ phase = "running" /\ pc = Len(ir.code) + 1
    /\ phase' = "halted"
    /\ UNCHANGED <<kind, meant, text, tokens, astVars, type, ir, asm, pc, store, printed>>

\* gcc, on the file cabor_compile has written.
Assemble ==
    /\ phase = "halted"
    /\ phase' = IF Accepted(asm) THEN "executing" ELSE "rejected"
    /\ pc' = 1
    /\ store' = [cell \in {RAX, RDX, Flag} |-> 0]
    /\ printed' = <<>>
    /\ UNCHANGED <<kind, meant, text, tokens, astVars, type, ir, asm>>

\* The functions of the preamble print %rdi, return it and keep no register.
RunCall(name) ==
    LET value == store[Register("rdi")]
    IN  /\ printed' = Append(printed, <<IF name = "print_int" THEN "Int" ELSE "Bool", value>>)
        /\ store' = RAX :> value @@ [c \in {c \in DOMAIN store : c[1] = "slot"} |-> store[c]]

Readies(a) ==
    CASE a.op \in {"jmp", "label", "cqto", "ret"} -> TRUE
      [] a.op = "call" -> Register("rdi") \in DOMAIN store
      [] a.op = "jne"  -> Flag \in DOMAIN store
      [] a.op = "movq" -> a.args[1][1] = "immediate" \/ a.args[1] \in DOMAIN store
      [] OTHER -> \A k \in DOMAIN a.args : a.args[k][1] = "immediate" \/ a.args[k] \in DOMAIN store

RunStep ==
    /\ phase = "executing"
    /\ LET a == asm[pc]
           target == CHOOSE k \in Defined(asm, a.args[1]) : TRUE
       IN  CASE ~Readies(a) -> phase' = "crashed" /\ UNCHANGED <<pc, store, printed>>
             [] Readies(a) /\ a.op = "ret" -> phase' = "finished" /\ UNCHANGED <<pc, store, printed>>
             [] Readies(a) /\ a.op = "call" ->
                  RunCall(a.args[1]) /\ pc' = pc + 1 /\ UNCHANGED phase
             [] Readies(a) /\ a.op \in {"jmp", "jne"} ->
                  /\ pc' = IF a.op = "jmp" \/ store[Flag] # 0 THEN target ELSE pc + 1
                  /\ UNCHANGED <<phase, store, printed>>
             [] OTHER -> store' = Effect(store, a) /\ pc' = pc + 1 /\ UNCHANGED <<phase, printed>>
    /\ UNCHANGED <<kind, meant, text, tokens, astVars, type, ir, asm>>

Next ==
    \/ TokenizeSource \/ ParseTokens \/ TypeCheck \/ GenerateIr \/ GenerateAssembly
    \/ Step \/ Halt \/ Assemble \/ RunStep

\* WF_vars(Next), with ENABLED Next written out: a call that has begun goes on.
Busy == phase \in {"source", "tokenized", "parsed", "typed", "generated", "running",
                   "halted", "executing"}
Fairness == []<>(~Busy) \/ []<><<TRUE>>_vars

Spec == Init /\ [][Next]_vars /\ Fairness

-----------------------------------------------------------------------------
(* Properties. *)

\* An expression below node n, with words for token numbers.
Shape(n) ==
    LET shape[node \in 0 .. Len(heap)] ==
            IF node = NullAst THEN [kind |-> "LITERAL", word |-> "none", edges |-> <<>>]
            ELSE LET edges == heap[node].edges
                 IN  [kind |-> heap[node].kind, word |-> tokens[heap[node].at],
                      edges |-> [k \in DOMAIN edges |-> shape[edges[k]]]]
    IN  shape[n]

Parsed == phase \notin {"source", "tokenized"}

Nodes(kinds) == {n \in DOMAIN heap : heap[n].kind \in kinds}
Optional(n)  == heap[n].kind = "IF_THEN_ELSE" /\ Len(heap[n].edges) = 2

\* What is written comes back from the tokenizer token by token, whether blanks,
\* comments or nothing at all stands between two tokens that can be told apart
\* (tokenizer.c:365-435): operators are as long as they can be, words and
\* numbers end where they end, and a comment that begins behind a blank ends
\* at its own end.
TokensRight ==
    kind \in {"program", "tree", "illtyped"} /\ phase = "tokenized" =>
        tokens = meant.tokens

Without(string, chars) ==
    FoldLeft(LAMBDA all, i : IF At(string, i) \in chars THEN all ELSE all \o At(string, i),
             "", [i \in 1 .. Len(string) |-> i])

\* Of any text in which no comment begins, and no word operator touches a sign
\* or its like, the tokens put together are the text without its blanks and
\* the characters that belong to no token: nothing is lost, doubled or moved
\* (tokenizer.c:374-432).
NothingLost ==
    kind = "text" /\ phase = "tokenized" =>
        \/ \E i \in 1 .. Len(meant.text) : \E c \in {"//", "/*"} : Begins(meant.text, i, c)
        \/ Crowded(meant.text)
        \/ FoldLeft(LAMBDA all, t : all \o t, "", tokens) = Without(meant.text, Blank \union {"?"})

\* A program is parsed to the tree it was written from: parentheses are needed
\* only against the table of precedences, operators of a level group to the
\* left, and unary operators, calls, blocks and the constructs with words nest
\* in each other (parser.c:180-741).
ParsesBack ==
    kind \notin {"tokens", "text"} /\ Parsed => Shape(tree) = meant.tree

\* Whatever the tokens, no token stands for two nodes, and a binary operator's
\* token is behind those of its left operand and all that was parsed before,
\* and before those of its right one, the units of blocks and the nodes of
\* calls that could not be parsed aside: one cursor goes through all the
\* functions of the parser and never back (parser.c:180-741).
SourceOrder ==
    phase = "parsed" =>
        /\ \A n, m \in DOMAIN heap \ Nodes({"UNKNOWN"}) : heap[n].at = heap[m].at => n = m
        /\ \A n \in Nodes({"BINARY_OP"}), m \in DOMAIN heap :
              LET left  == heap[n].edges[1]
                  right == heap[n].edges[2]
              IN  /\ m <= left /\ heap[m].kind \notin {"UNIT", "UNKNOWN"}
                        => heap[m].at < heap[n].at
                  /\ left < m /\ m <= right /\ heap[m].kind # "UNKNOWN"
                        => heap[m].at > heap[n].at

\* Whatever the tokens, no node is below two others or twice below one, so that
\* destroying the tree frees none twice; and if the parser returns a tree and
\* has lost neither an expression nor a call, all that it has allocated is in
\* it, so that destroying it frees them all (parser.c:158-164, 239-274, 712-741).
Links    == UNION {{n} \X DOMAIN heap[n].edges : n \in DOMAIN heap}
Below(e) == heap[e[1]].edges[e[2]]
NoNodeLost ==
    phase = "parsed" =>
        /\ \A e, f \in Links : Below(e) = Below(f) /\ Below(e) # NullAst => e = f
        /\ tree # NullAst => \A e \in Links : Below(e) # tree
        /\ tree # NullAst /\ Nodes({"UNKNOWN"}) = {} /\ (\A e \in Links : Below(e) # NullAst) =>
              /\ made = Len(heap)
              /\ DOMAIN heap \ {tree} \subseteq {Below(e) : e \in Links}

\* The type checker's answer for the root is the type of the value the program
\* has, and Error where an operand, a condition, a branch, a declaration or a
\* name in scope is at odds with it (type_checker.c:42-334).  A var expression
\* has the type of its variable, although it has no value.
TypedRight ==
    phase = "typed" =>
        /\ kind = "illtyped" => type = "Error"
        /\ kind = "program" /\ meant.tree.kind # "VAR_EXPR" /\ ~meant.loops
             => type = IF meant.prints = <<>> THEN "Unit" ELSE meant.prints[1][1]

\* Of the symbol tables made for a program, one for each block, destroying the
\* first frees its own and those of the blocks that no later block follows in
\* any scope around them, and main finds the others (type_checker.c:20-40).
Inside(n) ==
    LET inside[node \in 0 .. Len(heap)] ==
            IF node = NullAst THEN {}
            ELSE {node} \union UNION {inside[e] : e \in Range(heap[node].edges)}
    IN  inside[n]
ScopesFreed ==
    kind = "program" /\ phase = "typed" =>
        LET blocks == Nodes({"BLOCK"})
            freed  == {b \in blocks : \A later \in blocks : later > b => b \in Inside(later)}
        IN  /\ Len(tables) = 1 + Cardinality(blocks)
            /\ Cardinality(Destroyed(tables)) = 1 + Cardinality(freed)

\* Whatever the tokens, every label the generated code jumps to is placed in it
\* exactly once, and no label twice, unless there is an if without an else
\* (ir.c:569-631).
JumpsLand ==
    phase = "running" /\ (\A n \in DOMAIN heap : ~Optional(n)) =>
        /\ \A label \in 0 .. Len(ir.labels) - 1 : Cardinality(Placed(label)) = 1
        /\ \A i \in DOMAIN ir.code : Targets(ir.code[i]) \subseteq 0 .. Len(ir.labels) - 1

\* A program of the typed part of the language is compiled, its code reads no
\* variable that has not been written, and when it halts it has printed the
\* program's value as what it is, once, or nothing if that is Unit.
CompiledRight ==
    kind = "program" =>
        /\ phase \notin {"exited", "aborted", "undefined", "stuck"}
        /\ phase = "halted" => ~meant.loops /\ printed = meant.prints

\* What is emitted for an operator leaves the operator's value in the slot of the
\* result, < and <= aside, whatever the operands for which it has a value, and
\* leaves the other variables alone (codegen.c:51-152, 313-364).
IntrinsicRight ==
    phase = "running" /\ pc \in DOMAIN ir.code /\ ir.code[pc].op = "CALL" =>
        LET i     == ir.code[pc]
            name  == ir.vars[i.fun + 1].name
            cells == [c \in {Slot(v[2]) : v \in DOMAIN store} |-> Value(c[2])]
        IN  name \in (Infixes \union Unaries) \ {"<", "<="} /\ Readable(i)
              /\ HasValue(name, ValuesOf(store, i.args)) => OperatorRight(cells, store, i, name)

\* The assembly of a program without operators, and with no label name used
\* twice, is taken by the assembler, and prints what the program means: slots,
\* labels, jumps and calls are those of the intermediate code
\* (codegen.c:173-204, 251-304, 366-391).
AssemblyRight ==
    /\ kind = "program" /\ phase \in {"rejected", "crashed", "finished"}
    /\ IsInjective(ir.labels)
    /\ \A k \in DOMAIN ir.code :
          ir.code[k].op = "CALL" => ir.vars[ir.code[k].fun + 1].name \in Preamble
    => phase = "finished" /\ printed = meant.prints

\* The intermediate code of such a program halts, unless it comes to a loop
\* whose condition is true, and so does its assembly where there is one to run:
\* the jumps of if and while lead out of them.
Halts ==
    (kind = "program" /\ ~meant.loops) ~> (phase \in {"rejected", "crashed", "finished"})

\* "Check for 'else', it's fine if we don't find it since it's optional"
\* (parser.c:450): an if without an else is parsed like any other expression,
\* whatever follows it.
OptionalElse ==
    kind = "tree" /\ Parsed => Shape(tree) = meant.tree
=============================================================================
