--------------------------- MODULE CompileProofs ---------------------------
(****************************************************************************)
(* Proofs about a compilation as a whole, for every input, however long:    *)
(* what the parser hands on is a sound tree, what is generated from it      *)
(* jumps to labels that are there and writes only to new variables, and     *)
(* what is emitted for its operators computes what they mean.               *)
(****************************************************************************)
EXTENDS CaborCompile, CodegenProofs

AllElse == \A n \in DOMAIN heap : ~Optional(n)

\* What is stored is a number, and a variable's.
Numbers(values) == DOMAIN values \subseteq Variables /\ \A v \in DOMAIN values : values[v] \in Int

\* The code names what has been made, and has been translated to assembly.
CodeFits   == \E ast : Good(ast, ir)
Translated == \A k \in DOMAIN ir.code : Addressable(ir.code[k]) /\ Roomy(ir.code[k])

\* What each pass leaves for the next one.
IInv ==
    /\ phase = "source" => Len(text) \in Nat
    /\ phase = "tokenized" => Vector(tokens)
    /\ phase \in {"parsed", "typed"} => Sound(heap, tree, made)
    /\ phase \in {"generated", "running"} => CodeFits /\ (AllElse => Owing(ir, {}))
    /\ phase = "running" => Translated
    /\ phase \in {"source", "tokenized", "parsed", "typed", "generated", "running"} => Numbers(store)

-----------------------------------------------------------------------------
(* The passes. *)

LEMMA EndedIs ==
    ASSUME NEW end, NEW go
    PROVE  /\ Ended(end, go) \in {"exited", "aborted", "undefined", go}
           /\ Ended(end, go) = go => end \notin End \ {"ok"} \/ end = go
  BY DEF Ended, End

LEMMA Lengthened ==
    ASSUME NEW toks, Vector(toks), NEW more, Vector(more)
    PROVE  Vector(toks \o more)
  <1>1. PICK S : toks \in Seq(S)
    BY DEF Vector
  <1>2. PICK T : more \in Seq(T)
    BY DEF Vector
  <1>3. toks \in Seq(S \union T) /\ more \in Seq(S \union T)
    BY <1>1, <1>2
  <1>4. toks \o more \in Seq(S \union T)
    BY <1>3
  <1> QED
    BY <1>4 DEF Vector

\* What the tokenizer has read is a vector, with or without a stray token behind it.
LEMMA TokenizerGives ==
    ASSUME NEW source, Len(source) \in Nat,
           NEW stray \in {<<>>} \union Stray(Tokenize(source))
    PROVE  Vector(Tokenize(source).toks \o stray)
  <1> DEFINE s == Tokenize(source)
  <1>1. s \in Scanning(source)
    BY Tokenized DEF Result
  <1>2. stray \in {<<>>} \union Stray(s)
    OBVIOUS
  <1> HIDE DEF s
  <1>3. s.toks \in Seq(Pieces(source))
    BY <1>1 DEF Scanning
  <1>4. Vector(s.toks)
    BY <1>3 DEF Vector
  <1>5. Stray(s) \subseteq {<<c>> : c \in Punctuation}
    BY DEF Stray
  <1>6. \A c \in Punctuation : <<c>> \in Seq(Punctuation)
    OBVIOUS
  <1>7. stray \in Seq(Punctuation)
    <2>1. CASE stray = <<>>
      BY <2>1
    <2>2. CASE stray \in Stray(s)
      <3>1. stray \in {<<c>> : c \in Punctuation}
        BY <1>5, <2>2
      <3>2. PICK c \in Punctuation : stray = <<c>>
        BY <3>1
      <3> QED
        BY <1>6, <3>2
    <2> QED
      BY <1>2, <2>1, <2>2
  <1>8. Vector(stray)
    BY <1>7 DEF Vector
  <1>9. Vector(s.toks \o stray)
    BY <1>4, <1>8, Lengthened
  <1> QED
    BY <1>9 DEF s

\* A parser that returns has built a sound tree.
LEMMA ParserGives ==
    ASSUME NEW toks, Vector(toks), Ended(Parse(toks).end, "parsed") = "parsed"
    PROVE  Sound(Parse(toks).heap, Parse(toks).node, Parse(toks).made)
  <1> DEFINE p == Parse(toks)
  <1>1. p \in Parser(toks) /\ (Ok(p) => Sound(p.heap, p.node, p.made))
    BY ParseBuilds
  <1> HIDE DEF p
  <1>2. p.end \in End
    BY <1>1 DEF Parser
  <1>3. p.end = "ok"
    BY <1>2 DEF End, Ended, p
  <1>4. Sound(p.heap, p.node, p.made)
    BY <1>1, <1>3 DEF Ok
  <1> QED
    BY <1>4 DEF p

\* A sound tree is one the generator takes.
LEMMA SoundBuilt ==
    ASSUME NEW h, NEW root, NEW count, NEW toks, NEW kinds, Sound(h, root, count)
    PROVE  Built(Ast(h, root, toks, kinds))
  <1> DEFINE ast == Ast(h, root, toks, kinds)
  <1>1. ast.heap = h /\ ast.root = root
    BY DEF Ast
  <1> HIDE DEF ast
  <1>2. h \in Seq(Node) /\ root \in {NullAst, Len(h)} /\ Family(h, 0, {root})
    BY DEF Sound
  <1>3. Len(h) \in Nat /\ DOMAIN h = 1 .. Len(h)
    BY <1>2
  <1>4. root \in 0 .. Len(h)
    <2>1. \A size \in Nat : {0, size} \subseteq 0 .. size
      OBVIOUS
    <2> QED
      BY <1>2, <1>3, <2>1 DEF NullAst
  <1>5. ASSUME NEW n \in DOMAIN h
        PROVE  h[n].edges \in Seq(0 .. Len(h)) /\ Arity(h[n])
    <2>1. h[n] \in Node /\ n \in 1 .. Len(h) /\ n \in Nat /\ n <= Len(h)
      BY <1>2, <1>3, <1>5
    <2>2. h[n].edges \in Seq(Nat)
      BY <2>1 DEF Node
    <2>3. n \in 0 + 1 .. Len(h)
      BY <2>1
    <2>4. /\ Arity(h[n])
          /\ \A k \in DOMAIN h[n].edges : h[n].edges[k] \in {NullAst} \union (0 + 1 .. n - 1)
      BY <1>2, <2>3 DEF Family
    <2>5. \A k \in DOMAIN h[n].edges : h[n].edges[k] \in 0 .. Len(h)
      BY <1>3, <2>1, <2>4 DEF NullAst
    <2>6. h[n].edges \in Seq(0 .. Len(h))
      <3> DEFINE edges == h[n].edges
      <3>1. edges \in Seq(Nat) /\ \A k \in DOMAIN edges : edges[k] \in 0 .. Len(h)
        BY <2>2, <2>5
      <3> HIDE DEF edges
      <3>2. edges \in [1 .. Len(edges) -> 0 .. Len(h)] /\ Len(edges) \in Nat
        BY <3>1
      <3>3. edges \in Seq(0 .. Len(h))
        BY <3>2
      <3> QED
        BY <3>3 DEF edges
    <2> QED
      BY <2>4, <2>6
  <1>6. Built(ast)
    BY <1>1, <1>2, <1>4, <1>5 DEF Built
  <1> QED
    BY <1>6 DEF ast

-----------------------------------------------------------------------------
(* The instruction that is executed. *)

LEMMA NowIs ==
    ASSUME IInv, phase = "running", pc \in DOMAIN ir.code
    PROVE  LET i == ir.code[pc]
           IN  /\ Fresh(i) /\ Addressable(i) /\ Roomy(i)
               /\ Numbers(store)
               /\ \E ast : /\ Good(ast, ir) /\ i \in Instruction(ast)
                           /\ Operands(i) \subseteq Results(ir)
  <1>1. PICK ast : Good(ast, ir)
    BY DEF IInv, CodeFits
  <1>2. ir.code \in Seq(Instruction(ast))
    BY <1>1, GeneratorType DEF Good
  <1>3. ir.code[pc] \in Instruction(ast)
    <2> DEFINE S == Instruction(ast)
    <2>1. ir.code \in Seq(S)
      BY <1>2
    <2> HIDE DEF S
    <2>2. ir.code[pc] \in S
      BY <2>1
    <2> QED
      BY <2>2 DEF S
  <1>4. Fresh(ir.code[pc]) /\ Operands(ir.code[pc]) \subseteq Results(ir)
    BY <1>1 DEF Good
  <1>5. Translated /\ Numbers(store)
    BY DEF IInv
  <1> QED
    BY <1>1, <1>3, <1>4, <1>5 DEF Translated

LEMMA InstructionIs ==
    ASSUME NEW ast, NEW i \in Instruction(ast)
    PROVE  /\ i.op \in {"LOAD", "COPY", "CALL", "JUMP", "LABEL", "CONDJUMP"}
           /\ i.op = "LOAD" => i.value \in Constants(ast)
           /\ i.op = "CALL" => i.fun \in Int /\ i.args \in Seq(Int)
  <1>1. CASE i \in [op : {"LOAD"}, value : Constants(ast), dest : Int]
    BY <1>1
  <1>2. CASE i \in [op : {"COPY"}, source : Int, dest : Int]
    BY <1>2
  <1>3. CASE i \in [op : {"CALL"}, fun : Int, args : Seq(Int), dest : Int]
    BY <1>3
  <1>4. CASE i \in [op : {"JUMP", "LABEL"}, label : Nat]
    BY <1>4
  <1>5. CASE i \in [op : {"CONDJUMP"}, cond : Int, then : Nat, else : Nat]
    BY <1>5
  <1> QED
    BY <1>1, <1>2, <1>3, <1>4, <1>5 DEF Instruction

\* The arguments of a call are variables, and if it is not a function of the
\* preamble that is called, its destination is another one.
LEMMA CallIs ==
    ASSUME IInv, phase = "running", pc \in DOMAIN ir.code, ir.code[pc].op = "CALL"
    PROVE  LET i    == ir.code[pc]
               name == ir.vars[i.fun + 1].name
           IN  /\ i.args \in Seq(Nat)
               /\ name \notin {"print_int", "print_bool"} =>
                     i.dest \in Nat /\ \A k \in DOMAIN i.args : i.dest # i.args[k]
  <1> DEFINE i == ir.code[pc]
             args == i.args
  <1>1. Fresh(i) /\ Addressable(i)
    BY NowIs
  <1>2. PICK ast : Good(ast, ir) /\ i \in Instruction(ast)
    BY NowIs
  <1>3. i.op = "CALL"
    OBVIOUS
  <1> HIDE DEF i
  <1>4. i.fun \in Int /\ args \in Seq(Int)
    BY <1>2, <1>3, InstructionIs
  <1>5. \A k \in DOMAIN args : args[k] >= 0
    BY <1>1, <1>3 DEF Addressable
  <1>6. i.fun \in {0, 1} \/ (i.dest \in Nat /\ \A k \in DOMAIN args : args[k] # i.dest)
    BY <1>1, <1>3 DEF Fresh
  <1> HIDE DEF args
  <1>7. args \in Seq(Nat)
    <2>1. \A k \in DOMAIN args : args[k] \in Nat
      BY <1>4, <1>5
    <2>2. args \in [1 .. Len(args) -> Nat] /\ Len(args) \in Nat
      BY <1>4, <2>1
    <2> QED
      BY <2>2
  <1>8. Named(ir)
    BY <1>2 DEF Good
  <1>9. i.fun \in {0, 1} => ir.vars[i.fun + 1].name \in {"print_int", "print_bool"}
    BY <1>8 DEF Named
  <1> QED
    BY <1>6, <1>7, <1>9 DEF args, i

LEMMA StoredNumbers ==
    ASSUME NEW values, Numbers(values), NEW var \in Nat, NEW value \in Int
    PROVE  Numbers(Stored(values, var, value))
  <1>1. Variable(var) \in Variables
    BY DEF Variables
  <1> QED
    BY <1>1 DEF Stored, Numbers

LEMMA StepNumbers ==
    ASSUME IInv, Step
    PROVE  Numbers(store')
  <1> DEFINE i == ir.code[pc]
             name == ir.vars[i.fun + 1].name
  <1>1. phase = "running" /\ pc \in DOMAIN ir.code
    BY DEF Step
  <1>2. Fresh(i) /\ Numbers(store)
    BY <1>1, NowIs
  <1>3. PICK ast : i \in Instruction(ast)
    BY <1>1, NowIs
  <1>4. /\ i.op \in {"LOAD", "COPY", "CALL", "JUMP", "LABEL", "CONDJUMP"}
        /\ i.op = "LOAD" => i.value \in Int
    BY <1>3, InstructionIs, ConstantsAreInts
  <1>5. \/ store' = store
        \/ /\ Readable(i) /\ Known(i)
           /\ i.op \in {"LOAD", "COPY"} \/ (i.op = "CALL" /\ name \notin {"print_int", "print_bool"})
           /\ store' = Stored(store, i.dest, Outcome(store, i, name))
    <2>1. CASE ~(Readable(i) /\ Known(i))
      BY <2>1 DEF Step
    <2>2. CASE Readable(i) /\ Known(i)
      <3>1. Execute(i)
        BY <2>2 DEF Step
      <3> HIDE DEF i
      <3>2. CASE i.op \in {"LABEL", "JUMP", "CONDJUMP"}
        <4>1. CASE i.op = "LABEL"
          BY <3>1, <4>1 DEF Execute
        <4>2. CASE i.op = "JUMP"
          BY <3>1, <4>2 DEF Execute
        <4>3. CASE i.op = "CONDJUMP"
          BY <3>1, <4>3 DEF Execute
        <4> QED
          BY <3>2, <4>1, <4>2, <4>3
      <3>3. CASE i.op = "CALL" /\ name \in {"print_int", "print_bool"}
        BY <3>1, <3>3 DEF Execute
      <3>4. CASE i.op \in {"LOAD", "COPY"} \/ (i.op = "CALL" /\ name \notin {"print_int", "print_bool"})
        BY <2>2, <3>1, <3>4 DEF Execute
      <3> QED
        BY <1>4, <3>2, <3>3, <3>4
    <2> QED
      BY <2>1, <2>2
  <1>6. ASSUME Readable(i), Known(i),
               i.op \in {"LOAD", "COPY"} \/ (i.op = "CALL" /\ name \notin {"print_int", "print_bool"})
        PROVE  i.dest \in Nat /\ Outcome(store, i, name) \in Int
    <2>1. CASE i.op = "LOAD"
      BY <1>2, <1>4, <2>1 DEF Fresh, Outcome
    <2>2. CASE i.op = "COPY"
      <3>1. Written(i.source)
        BY <1>6, <2>2 DEF Readable
      <3>2. Read(store, i.source) \in Int
        BY <1>2, <3>1 DEF Written, Numbers, Read
      <3> QED
        BY <1>2, <2>2, <3>2 DEF Fresh, Outcome
    <2>3. CASE i.op = "CALL"
      <3>1. i.args \in Seq(Nat) /\ i.dest \in Nat
        BY <1>1, <1>6, <2>3, CallIs
      <3> DEFINE args == i.args
                 x    == ValuesOf(store, args)
      <3>2. /\ name \in Infixes \union Unaries \union {"print_int", "print_bool"}
            /\ Len(args) >= Takes(name) /\ HasValue(name, x)
            /\ \A k \in DOMAIN args : Written(args[k])
        BY <1>6, <2>3 DEF Known, Readable
      <3>3. name \in Infixes \union Unaries /\ Outcome(store, i, name) = Applied(name, x)
        BY <1>6, <2>3, <3>2 DEF Outcome
      <3> HIDE DEF i, name, args
      <3>4. \A k \in DOMAIN args : x[k] \in Int
        BY <1>2, <3>2 DEF Written, Numbers, Read, ValuesOf
      <3> HIDE DEF x
      <3>5. args \in Seq(Nat)
        BY <3>1 DEF args
      <3>6. x[1] \in Int /\ (name \in Infixes => x[2] \in Int)
        <4>1. Len(args) \in Nat /\ DOMAIN args = 1 .. Len(args)
          BY <3>5
        <4>2. 1 \in DOMAIN args /\ (name \in Infixes => 2 \in DOMAIN args)
          BY <3>2, <4>1 DEF Takes
        <4> QED
          BY <3>4, <4>2
      <3>7. Applied(name, x) \in Int
        BY <3>2, <3>3, <3>6, AppliedIsInt
      <3> QED
        BY <3>1, <3>3, <3>7
    <2> QED
      BY <1>6, <2>1, <2>2, <2>3
  <1> QED
    BY <1>2, <1>5, <1>6, StoredNumbers

-----------------------------------------------------------------------------
(* The invariant. *)

LEMMA InitIInv == Init => IInv
  <1> SUFFICES ASSUME Init PROVE IInv
    OBVIOUS
  <1>1. phase = "source"
    BY DEF Init
  <1>2. PICK input \in Inputs[kind] : meant = input.meant /\ text = input.text
    BY DEF Init
  <1>3. kind \in DOMAIN Inputs
    BY DEF Init
  <1>4. Len(text) \in Nat
    BY <1>2, <1>3, InputAssumption
  <1>5. Numbers(store)
    BY DEF Init, Unwritten, Numbers
  <1> QED
    BY <1>1, <1>4, <1>5 DEF IInv

LEMMA NextIInv == IInv /\ [Next]_vars => IInv'
  <1> SUFFICES ASSUME IInv, [Next]_vars PROVE IInv'
    OBVIOUS
  <1>1. CASE TokenizeSource
    <2>1. phase = "source" /\ Len(text) \in Nat
      BY <1>1 DEF TokenizeSource, IInv
    <2>2. PICK stray \in {<<>>} \union Stray(Tokenize(text)) :
              /\ tokens' = Tokenize(text).toks \o stray
              /\ phase' = Ended(Tokenize(text).end, "tokenized")
      BY <1>1 DEF TokenizeSource
    <2>3. Vector(tokens')
      BY <2>1, <2>2, TokenizerGives
    <2>4. phase' \in {"exited", "aborted", "undefined", "tokenized"}
      BY <2>2, EndedIs
    <2>5. Numbers(store')
      BY <1>1 DEF TokenizeSource, IInv
    <2> QED
      BY <2>3, <2>4, <2>5 DEF IInv
  <1>2. CASE ParseTokens
    <2>1. Vector(tokens)
      BY <1>2 DEF ParseTokens, IInv
    <2>2. /\ heap' = Parse(tokens).heap /\ tree' = Parse(tokens).node
          /\ made' = Parse(tokens).made /\ phase' = Ended(Parse(tokens).end, "parsed")
      BY <1>2 DEF ParseTokens
    <2>3. phase' \in {"exited", "aborted", "undefined", "parsed"}
      BY <2>2, EndedIs
    <2>4. phase' = "parsed" => Sound(heap', tree', made')
      BY <2>1, <2>2, ParserGives
    <2>5. Numbers(store')
      BY <1>2 DEF ParseTokens, IInv
    <2> QED
      BY <2>3, <2>4, <2>5 DEF IInv
  <1>3. CASE TypeCheck
    <2>1. Sound(heap, tree, made)
      BY <1>3 DEF TypeCheck, IInv
    <2>2. heap' = heap /\ tree' = tree /\ made' = made
      BY <1>3 DEF TypeCheck
    <2>3. phase' \in {"exited", "aborted", "undefined", "typed"}
      BY <1>3, EndedIs DEF TypeCheck
    <2>4. Sound(heap', tree', made')
      BY <2>1, <2>2
    <2>5. Numbers(store')
      BY <1>3 DEF TypeCheck, IInv
    <2> QED
      BY <2>3, <2>4, <2>5 DEF IInv
  <1>4. CASE GenerateIr
    <2> DEFINE ast == Ast(heap, tree, tokens, types)
    <2>1. Sound(heap, tree, made)
      BY <1>4 DEF GenerateIr, IInv
    <2>2. heap' = heap /\ ir' = Generate(ast) /\ phase' = Ended(ir'.end, "generated")
      BY <1>4 DEF GenerateIr, astVars
    <2>3. phase' \in {"exited", "aborted", "undefined", "generated"}
      BY <2>2, EndedIs
    <2>4. Built(ast)
      BY <2>1, SoundBuilt
    <2>5. AllElse' => WithElse(ast)
      BY <2>2 DEF AllElse, Optional, WithElse, Ast
    <2> HIDE DEF ast
    <2>6. Good(ast, ir') /\ (ir'.end = "ok" /\ WithElse(ast) => Owing(ir', {}))
      BY <2>2, <2>4, LabelsLand
    <2>7. ir'.end \in End
      BY <2>6, GeneratorType DEF Good
    <2>8. phase' = "generated" => ir'.end = "ok"
      BY <2>2, <2>7 DEF Ended, End
    <2>9. CodeFits'
      BY <2>6 DEF CodeFits
    <2>10. Numbers(store')
      BY <1>4 DEF GenerateIr, IInv
    <2> QED
      BY <2>3, <2>5, <2>6, <2>8, <2>9, <2>10 DEF IInv
  <1>5. CASE GenerateAssembly
    <2>1. phase = "generated" /\ heap' = heap /\ ir' = ir
      BY <1>5 DEF GenerateAssembly, astVars
    <2>2. phase' \in {"running", "undefined", "aborted"}
      BY <1>5 DEF GenerateAssembly
    <2>3. CodeFits' /\ (AllElse' => Owing(ir', {}))
      BY <2>1 DEF IInv, AllElse, Optional, CodeFits
    <2>4. phase' = "running" => Translated'
      <3>1. phase' = "running" => Translated
        BY <1>5 DEF GenerateAssembly, Translated
      <3> QED
        BY <2>1, <3>1 DEF Translated, Roomy
    <2>5. Numbers(store')
      BY <1>5 DEF GenerateAssembly, IInv
    <2> QED
      BY <2>2, <2>3, <2>4, <2>5 DEF IInv
  <1>6. CASE Step
    <2>1. phase = "running" /\ heap' = heap /\ ir' = ir
      BY <1>6 DEF Step, astVars
    <2>2. phase' \in {"running", "stuck"}
      BY <1>6, <2>1 DEF Step
    <2>3. CodeFits' /\ (AllElse' => Owing(ir', {}))
      BY <2>1 DEF IInv, AllElse, Optional, CodeFits
    <2>4. Translated'
      BY <2>1 DEF IInv, Translated, Roomy
    <2>5. Numbers(store')
      BY <1>6, StepNumbers
    <2> QED
      BY <2>2, <2>3, <2>4, <2>5 DEF IInv
  <1>7. CASE Halt
    BY <1>7 DEF Halt, IInv
  <1>8. CASE Assemble
    <2>1. phase' \in {"executing", "rejected"}
      BY <1>8 DEF Assemble
    <2> QED
      BY <2>1 DEF IInv
  <1>9. CASE RunStep
    <2>1. phase' \in {"executing", "crashed", "finished"}
      <3>1. phase = "executing"
        BY <1>9 DEF RunStep
      <3>2. phase' \in {phase, "crashed", "finished"}
        BY <1>9, Zenon DEF RunStep
      <3> QED
        BY <3>1, <3>2
    <2> QED
      BY <2>1 DEF IInv
  <1>10. CASE UNCHANGED vars
    BY <1>10 DEF IInv, vars, astVars, AllElse, Optional, CodeFits, Translated, Roomy
  <1> QED
    BY <1>1, <1>2, <1>3, <1>4, <1>5, <1>6, <1>7, <1>8, <1>9, <1>10 DEF Next

THEOREM PassesFit == Spec => []IInv
  BY InitIInv, NextIInv, PTL DEF Spec

-----------------------------------------------------------------------------
(* What it is for. *)

LEMMA IInvSourceOrder == IInv => SourceOrder
  <1> SUFFICES ASSUME IInv, phase = "parsed" PROVE SourceOrder
    BY DEF SourceOrder
  <1>1. Sound(heap, tree, made)
    BY DEF IInv
  <1>2. heap \in Seq(Node) /\ DOMAIN heap = 1 .. Len(heap) /\ Len(heap) \in Nat
    BY <1>1 DEF Sound
  <1>3. Ordered(heap, 0)
    BY <1>1 DEF Sound
  <1>4. ASSUME NEW n \in DOMAIN heap \ Nodes({"UNKNOWN"}), NEW m \in DOMAIN heap \ Nodes({"UNKNOWN"}),
               heap[n].at = heap[m].at
        PROVE  n = m
    <2>1. n \in 1 .. Len(heap) /\ m \in 1 .. Len(heap)
      BY <1>2
    <2>2. heap[n].kind # "UNKNOWN" /\ heap[m].kind # "UNKNOWN"
      BY DEF Nodes
    <2> QED
      BY <1>1, <1>4, <2>1, <2>2 DEF Sound
  <1>5. ASSUME NEW n \in Nodes({"BINARY_OP"}), NEW m \in DOMAIN heap
        PROVE  LET left  == heap[n].edges[1]
                   right == heap[n].edges[2]
               IN  /\ m <= left /\ heap[m].kind \notin {"UNIT", "UNKNOWN"}
                         => heap[m].at < heap[n].at
                   /\ left < m /\ m <= right /\ heap[m].kind # "UNKNOWN"
                         => heap[m].at > heap[n].at
    <2>1. n \in 0 + 1 .. Len(heap) /\ m \in 0 + 1 .. Len(heap) /\ heap[n].kind = "BINARY_OP"
      BY <1>2 DEF Nodes
    <2> QED
      BY <1>3, <2>1 DEF Ordered, Normal
  <1> QED
    BY <1>4, <1>5 DEF SourceOrder

LEMMA LinkIs ==
    ASSUME NEW e \in Links
    PROVE  e = <<e[1], e[2]>> /\ e[1] \in DOMAIN heap /\ e[2] \in DOMAIN heap[e[1]].edges
  BY DEF Links

LEMMA IInvNoNodeLost == IInv => NoNodeLost
  <1> SUFFICES ASSUME IInv, phase = "parsed" PROVE NoNodeLost
    BY DEF NoNodeLost
  <1>1. Sound(heap, tree, made)
    BY DEF IInv
  <1>2. heap \in Seq(Node) /\ DOMAIN heap = 1 .. Len(heap) /\ Len(heap) \in Nat
    BY <1>1 DEF Sound
  <1>3. Family(heap, 0, {tree}) /\ Whole(heap, 0, {tree}, made)
    BY <1>1 DEF Sound
  <1>4. \A n \in DOMAIN heap : n \in 0 + 1 .. Len(heap)
    BY <1>2
  <1>5. ASSUME NEW e \in Links, NEW f \in Links, Below(e) = Below(f), Below(e) # NullAst
        PROVE  e = f
    <2>1. /\ e = <<e[1], e[2]>> /\ e[1] \in 0 + 1 .. Len(heap) /\ e[2] \in DOMAIN heap[e[1]].edges
          /\ f = <<f[1], f[2]>> /\ f[1] \in 0 + 1 .. Len(heap) /\ f[2] \in DOMAIN heap[f[1]].edges
      BY <1>4, LinkIs
    <2>2. heap[e[1]].edges[e[2]] = heap[f[1]].edges[f[2]] /\ heap[e[1]].edges[e[2]] # NullAst
      BY <1>5 DEF Below
    <2>3. e[1] = f[1] /\ e[2] = f[2]
      BY <1>3, <2>1, <2>2 DEF Family
    <2> QED
      BY <2>1, <2>3
  <1>6. ASSUME tree # NullAst, NEW e \in Links
        PROVE  Below(e) # tree
    <2>1. e[1] \in 0 + 1 .. Len(heap) /\ e[2] \in DOMAIN heap[e[1]].edges
      BY <1>4, LinkIs
    <2>2. heap[e[1]].edges[e[2]] \in {tree} => heap[e[1]].edges[e[2]] = NullAst
      BY <1>3, <2>1 DEF Family
    <2> QED
      BY <1>6, <2>2 DEF Below
  <1>7. ASSUME tree # NullAst, Nodes({"UNKNOWN"}) = {}, \A e \in Links : Below(e) # NullAst
        PROVE  made = Len(heap) /\ DOMAIN heap \ {tree} \subseteq {Below(e) : e \in Links}
    <2>1. ASSUME NEW n \in 0 + 1 .. Len(heap) PROVE heap[n].kind # "UNKNOWN"
      <3>1. n \in DOMAIN heap
        BY <1>2, <2>1
      <3> QED
        BY <1>7, <3>1 DEF Nodes
    <2>2. ASSUME NEW n \in 0 + 1 .. Len(heap), NEW k \in DOMAIN heap[n].edges
          PROVE  <<n, k>> \in Links /\ Below(<<n, k>>) = heap[n].edges[k]
      <3>1. n \in DOMAIN heap
        BY <1>2, <2>2
      <3>2. <<n, k>> \in {n} \X DOMAIN heap[n].edges
        BY <2>2
      <3> QED
        BY <3>1, <3>2 DEF Links, Below
    <2>3. Lossless(heap, 0, {tree})
      BY <1>7, <2>1, <2>2 DEF Lossless
    <2>4. made = Len(heap) - 0 /\ Complete(heap, 0, {tree})
      BY <1>3, <2>3 DEF Whole
    <2>5. ASSUME NEW n \in DOMAIN heap \ {tree}
          PROVE  n \in {Below(e) : e \in Links}
      <3>1. n \in 0 + 1 .. Len(heap)
        BY <1>4
      <3>2. PICK m \in 0 + 1 .. Len(heap) : \E k \in DOMAIN heap[m].edges : heap[m].edges[k] = n
        BY <2>4, <2>5, <3>1 DEF Complete
      <3>3. PICK k \in DOMAIN heap[m].edges : heap[m].edges[k] = n
        BY <3>2
      <3> QED
        BY <2>2, <3>3
    <2> QED
      BY <1>2, <2>4, <2>5
  <1> QED
    BY <1>5, <1>6, <1>7 DEF NoNodeLost

LEMMA IInvJumpsLand == IInv => JumpsLand
  <1> SUFFICES ASSUME IInv, phase = "running", AllElse PROVE JumpsLand
    BY DEF JumpsLand, AllElse
  <1>1. Owing(ir, {})
    BY DEF IInv
  <1>2. ASSUME NEW label \in 0 .. Len(ir.labels) - 1
        PROVE  Cardinality(Placed(label)) = 1
    <2>1. label \in Labels(ir) \ {}
      BY <1>2 DEF Labels
    <2>2. PICK k \in DOMAIN ir.code : ir.code[k] = Place(label)
      BY <1>1, <2>1 DEF Owing
    <2>3. \A j \in DOMAIN ir.code : ir.code[j] = Place(label)
              => ir.code[j].op = "LABEL" /\ ir.code[j].label = label
      BY DEF Place
    <2>4. \A j \in DOMAIN ir.code : ir.code[j] = Place(label) => j = k
      BY <1>1, <2>2, <2>3 DEF Owing
    <2>5. Placed(label) = {k}
      BY <2>2, <2>4 DEF Placed
    <2> QED
      BY <2>5, FS_Singleton
  <1>3. \A i \in DOMAIN ir.code : Targets(ir.code[i]) \subseteq 0 .. Len(ir.labels) - 1
    BY <1>1 DEF Owing, Labels
  <1> QED
    BY <1>2, <1>3 DEF JumpsLand

\* Slots that hold what is stored.
LEMMA SlotsSimulate ==
    ASSUME NEW values, DOMAIN values \subseteq Variables
    PROVE  Simulates([c \in {Slot(v[2]) : v \in DOMAIN values} |-> Read(values, c[2])], values)
  <1> DEFINE cells == [c \in {Slot(v[2]) : v \in DOMAIN values} |-> Read(values, c[2])]
  <1>1. ASSUME NEW v \in DOMAIN values
        PROVE  Slot(v[2]) \in DOMAIN cells /\ cells[Slot(v[2])] = values[v]
    <2>1. PICK n \in Nat : v = <<"variable", n>>
      BY <1>1 DEF Variables, Variable
    <2>2. v[2] = n /\ Slot(n) = <<"slot", n>> /\ v = Variable(n)
      BY <2>1 DEF Slot, UNIT, Variable
    <2>3. Slot(v[2])[2] = n
      BY <2>2
    <2>4. Slot(v[2]) \in DOMAIN cells /\ cells[Slot(v[2])] = Read(values, Slot(v[2])[2])
      BY <1>1
    <2> QED
      BY <2>2, <2>3, <2>4 DEF Read
  <1> QED
    BY <1>1 DEF Simulates

LEMMA IInvIntrinsicRight == IInv => IntrinsicRight
  <1> DEFINE i     == ir.code[pc]
             name  == ir.vars[i.fun + 1].name
             cells == [c \in {Slot(v[2]) : v \in DOMAIN store} |-> Value(c[2])]
  <1> SUFFICES ASSUME IInv, phase = "running", pc \in DOMAIN ir.code, i.op = "CALL",
                      name \in (Infixes \union Unaries) \ {"<", "<="}, Readable(i),
                      HasValue(name, ValuesOf(store, i.args))
               PROVE  OperatorRight(cells, store, i, name)
    BY DEF IntrinsicRight
  <1>1. Numbers(store) /\ Roomy(i)
    BY NowIs
  <1>2. name \notin {"print_int", "print_bool"}
    BY DEF Infixes, Unaries
  <1>3. i.args \in Seq(Nat) /\ i.dest \in Nat /\ \A k \in DOMAIN i.args : i.dest # i.args[k]
    BY <1>2, CallIs
  <1>4. Len(i.args) >= Takes(name)
    BY <1>1 DEF Roomy
  <1>5. \A k \in DOMAIN i.args : Variable(i.args[k]) \in DOMAIN store
    BY DEF Readable, Written
  <1>6. Simulates(cells, store)
    BY <1>1, SlotsSimulate DEF Numbers, Value
  <1>7. PICK fun, args, dest : args = i.args /\ dest = i.dest
    OBVIOUS
  <1> HIDE DEF i, name, cells
  <1>8. OperatorRight(cells, store, Call(fun, args, dest), name)
    BY <1>1, <1>3, <1>4, <1>5, <1>6, <1>7, OperatorsRight DEF Numbers
  <1>9. /\ Call(fun, args, dest).op = "CALL" /\ Call(fun, args, dest).args = i.args
        /\ Call(fun, args, dest).dest = i.dest
    BY <1>7 DEF Call
  <1>10. Outcome(store, Call(fun, args, dest), name) = Outcome(store, i, name)
    BY <1>9 DEF Outcome
  <1> QED
    BY <1>8, <1>9, <1>10 DEF OperatorRight

(***************************************************************************)
(* Whatever the source, no token stands for two nodes, and the nodes of a  *)
(* binary operator's operands are at tokens on either side of its own: the *)
(* one cursor of the parser goes through all its functions and never back  *)
(* (parser.c:180-741).                                                     *)
(***************************************************************************)
THEOREM SourceOrderHolds == Spec => []SourceOrder
  BY PassesFit, IInvSourceOrder, PTL

(***************************************************************************)
(* Whatever the source, destroying the tree frees no node twice, and frees *)
(* all the parser has allocated, unless it has given up an expression or   *)
(* a call (parser.c:158-164, 239-274, 712-741).                            *)
(***************************************************************************)
THEOREM NoNodeLostHolds == Spec => []NoNodeLost
  BY PassesFit, IInvNoNodeLost, PTL

(***************************************************************************)
(* Whatever the source, and however deep it nests, every label the         *)
(* generated code jumps to is placed in it exactly once, and no label      *)
(* twice, unless there is an if without an else (ir.c:569-631).            *)
(***************************************************************************)
THEOREM JumpsLandHolds == Spec => []JumpsLand
  BY PassesFit, IInvJumpsLand, PTL

(***************************************************************************)
(* Whatever the source, and wherever its execution has come to, what is    *)
(* emitted for the operator that is called next leaves its value in the    *)
(* slot of the result and all other variables alone, < and <= aside: its   *)
(* operands have been given, are numbers and are not the result            *)
(* (ir.c:407-464, codegen.c:51-152, 313-364).                              *)
(***************************************************************************)
THEOREM IntrinsicRightHolds == Spec => []IntrinsicRight
  BY PassesFit, IInvIntrinsicRight, PTL
=============================================================================
