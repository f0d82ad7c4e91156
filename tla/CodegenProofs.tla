--------------------------- MODULE CodegenProofs ----------------------------
(****************************************************************************)
(* Proofs about what is generated. Of any tree without an if without an    *)
(* else the intermediate code has every label once, and no jump that leads *)
(* nowhere. What is emitted for an instruction does to the slots what the  *)
(* instruction is meant to do to the variables, for every store.           *)
(****************************************************************************)
EXTENDS CaborIr, CaborCodegen, SyntaxProofs

-----------------------------------------------------------------------------
(* What the generator of intermediate code keeps. *)

\* A tree the parser may have built.
Built(ast) ==
    /\ ast.heap \in Seq(Node)
    /\ ast.root \in 0 .. Len(ast.heap)
    /\ \A n \in DOMAIN ast.heap : /\ ast.heap[n].edges \in Seq(0 .. Len(ast.heap))
                                  /\ Arity(ast.heap[n])

\* Without an if without an else.
WithElse(ast) ==
    \A n \in DOMAIN ast.heap : ~(ast.heap[n].kind = "IF_THEN_ELSE" /\ Len(ast.heap[n].edges) = 2)

\* The labels there are.
Labels(g) == 0 .. Len(g.labels) - 1
\* The variables there are.
Made(g)   == 0 .. Len(g.vars) - 1
\* What a visit may return.
Results(g) == Made(g) \union {INVALID, UNIT}

\* What an instruction names.
Operands(i) ==
    CASE i.op = "LOAD"     -> {i.dest}
      [] i.op = "COPY"     -> {i.source, i.dest}
      [] i.op = "CALL"     -> {i.fun, i.dest} \union {i.args[k] : k \in DOMAIN i.args}
      [] i.op = "CONDJUMP" -> {i.cond}
      [] OTHER             -> {}

\* The functions of the preamble stay the first variables.
Named(g) == /\ Len(g.vars) >= 2
            /\ g.vars[1].name = "print_int" /\ g.vars[2].name = "print_bool"

\* What is written is a variable, and that of a call is none of its arguments;
\* only the value of the program is printed into nothing.
Fresh(i) ==
    CASE i.op \in {"LOAD", "COPY"} -> i.dest \in Nat
      [] i.op = "CALL" -> \/ i.fun \in {0, 1}
                          \/ i.dest \in Nat /\ \A k \in DOMAIN i.args : i.args[k] # i.dest
      [] OTHER -> TRUE

\* What has been generated names variables that have been made.
Good(ast, g) ==
    /\ g \in Generator(ast)
    /\ Named(g)
    /\ \A k \in DOMAIN g.code : Fresh(g.code[k])
    /\ \A k \in DOMAIN g.scope : g.scope[k].value \in Made(g)
    /\ \A k \in DOMAIN g.code : Operands(g.code[k]) \subseteq Results(g)
    /\ g.result \in Results(g)

\* All labels but those of owed are placed once, and every jump has one.
Owing(g, owed) ==
    /\ owed \subseteq Labels(g)
    /\ \A l \in Labels(g) \ owed : \E k \in DOMAIN g.code : g.code[k] = Place(l)
    /\ \A k \in DOMAIN g.code : g.code[k].op = "LABEL" => g.code[k].label \in Labels(g) \ owed
    /\ \A j, k \in DOMAIN g.code :
          g.code[j].op = "LABEL" /\ g.code[k].op = "LABEL" /\ g.code[j].label = g.code[k].label
             => j = k
    /\ \A k \in DOMAIN g.code : Targets(g.code[k]) \subseteq Labels(g)

LEMMA GeneratorType ==
    ASSUME NEW ast, NEW g \in Generator(ast)
    PROVE  /\ g.code \in Seq(Instruction(ast))
           /\ g.vars \in Seq([name : Names(ast), type : Types(ast)])
           /\ g.labels \in Seq(LabelName)
           /\ g.scope \in Seq([name : Names(ast), value : Int])
           /\ g.result \in Int /\ g.end \in End
           /\ Len(g.code) \in Nat /\ Len(g.vars) \in Nat /\ Len(g.labels) \in Nat
           /\ DOMAIN g.code = 1 .. Len(g.code)
           /\ Len(g.scope) \in Nat /\ DOMAIN g.scope = 1 .. Len(g.scope)
  BY DEF Generator

LEMMA EmitFields ==
    ASSUME NEW ast, NEW g \in Generator(ast), NEW i \in Instruction(ast)
    PROVE  LET h == Emit(g, i)
           IN  /\ h \in Generator(ast)
               /\ h.vars = g.vars /\ h.labels = g.labels /\ h.scope = g.scope
               /\ h.result = g.result /\ h.end = g.end
               /\ DOMAIN h.code = 1 .. Len(g.code) + 1
               /\ Len(h.code) = Len(g.code) + 1
               /\ h.code[Len(g.code) + 1] = i
               /\ \A k \in DOMAIN g.code : k \in DOMAIN h.code /\ h.code[k] = g.code[k]
               /\ \A k \in DOMAIN h.code : k \in DOMAIN g.code \/ k = Len(g.code) + 1
  <1> DEFINE h == Emit(g, i)
  <1>2. g.code \in Seq(Instruction(ast))
    BY GeneratorType
  <1>0. Append(g.code, i) \in Seq(Instruction(ast))
    BY <1>2
  <1>1. /\ h \in Generator(ast)
        /\ h.vars = g.vars /\ h.labels = g.labels /\ h.scope = g.scope
        /\ h.result = g.result /\ h.end = g.end
        /\ h.code = Append(g.code, i)
    BY <1>0 DEF Emit, Generator
  <1> HIDE DEF h
  <1>3. /\ Len(h.code) = Len(g.code) + 1
        /\ h.code[Len(g.code) + 1] = i
        /\ \A k \in 1 .. Len(g.code) : h.code[k] = g.code[k]
        /\ Len(g.code) \in Nat
        /\ DOMAIN g.code = 1 .. Len(g.code) /\ DOMAIN h.code = 1 .. Len(g.code) + 1
    BY <1>1, <1>2
  <1> QED
    BY <1>1, <1>3 DEF h

LEMMA EmitPlain ==
    ASSUME NEW ast, NEW g \in Generator(ast), NEW i \in Instruction(ast), NEW owed,
           Owing(g, owed), i.op # "LABEL", Targets(i) \subseteq Labels(g)
    PROVE  Owing(Emit(g, i), owed)
  <1> DEFINE h == Emit(g, i)
  <1>1. /\ h.labels = g.labels
        /\ h.code[Len(g.code) + 1] = i
        /\ \A k \in DOMAIN g.code : k \in DOMAIN h.code /\ h.code[k] = g.code[k]
        /\ \A k \in DOMAIN h.code : k \in DOMAIN g.code \/ k = Len(g.code) + 1
    BY EmitFields
  <1> HIDE DEF h
  <1>2. Labels(h) = Labels(g)
    BY <1>1 DEF Labels
  <1>3. \A k \in DOMAIN h.code : h.code[k].op = "LABEL" => k \in DOMAIN g.code /\ h.code[k] = g.code[k]
    BY <1>1
  <1>4. \A k \in DOMAIN h.code : Targets(h.code[k]) \subseteq Labels(h)
    BY <1>1, <1>2 DEF Owing
  <1>5. \A l \in Labels(h) \ owed : \E k \in DOMAIN h.code : h.code[k] = Place(l)
    BY <1>1, <1>2 DEF Owing
  <1> QED
    BY <1>2, <1>3, <1>4, <1>5 DEF Owing, h

LEMMA EmitPlace ==
    ASSUME NEW ast, NEW g \in Generator(ast), NEW owed, Owing(g, owed), NEW l \in owed
    PROVE  /\ Place(l) \in Instruction(ast)
           /\ Owing(Emit(g, Place(l)), owed \ {l})
  <1> DEFINE h == Emit(g, Place(l))
  <1>0. l \in Labels(g) /\ l \in Nat
    BY GeneratorType DEF Owing, Labels
  <1>1. Place(l) \in Instruction(ast) /\ Place(l).op = "LABEL" /\ Place(l).label = l
        /\ Targets(Place(l)) = {}
    BY <1>0 DEF Place, Instruction, Targets
  <1>2. /\ h.labels = g.labels
        /\ h.code[Len(g.code) + 1] = Place(l)
        /\ Len(g.code) + 1 \in DOMAIN h.code
        /\ \A k \in DOMAIN g.code : k \in DOMAIN h.code /\ h.code[k] = g.code[k]
        /\ \A k \in DOMAIN h.code : k \in DOMAIN g.code \/ k = Len(g.code) + 1
    BY <1>1, EmitFields, GeneratorType
  <1> HIDE DEF h
  <1>3. Labels(h) = Labels(g)
    BY <1>2 DEF Labels
  <1>4. \A m \in Labels(h) \ (owed \ {l}) : \E k \in DOMAIN h.code : h.code[k] = Place(m)
    <2> TAKE m \in Labels(h) \ (owed \ {l})
    <2>1. CASE m = l
      BY <1>2, <2>1
    <2>2. CASE m # l
      BY <1>2, <1>3, <2>2 DEF Owing
    <2> QED
      BY <2>1, <2>2
  <1>5. \A k \in DOMAIN g.code : g.code[k].op = "LABEL" => g.code[k].label # l
    BY DEF Owing
  <1>6. \A k \in DOMAIN h.code : h.code[k].op = "LABEL" => h.code[k].label \in Labels(h) \ (owed \ {l})
    BY <1>0, <1>1, <1>2, <1>3 DEF Owing
  <1>7. ASSUME NEW j \in DOMAIN h.code, NEW k \in DOMAIN h.code,
               h.code[j].op = "LABEL", h.code[k].op = "LABEL", h.code[j].label = h.code[k].label
        PROVE  j = k
    BY <1>1, <1>2, <1>5, <1>7 DEF Owing
  <1>8. \A k \in DOMAIN h.code : Targets(h.code[k]) \subseteq Labels(h)
    BY <1>1, <1>2, <1>3 DEF Owing
  <1>9. owed \ {l} \subseteq Labels(h)
    BY <1>3 DEF Owing
  <1> QED
    BY <1>1, <1>4, <1>6, <1>7, <1>8, <1>9 DEF Owing, h

LEMMA LabelsAdded ==
    ASSUME NEW ast, NEW g \in Generator(ast), NEW names \in Seq(LabelName), NEW owed, Owing(g, owed)
    PROVE  Owing(NewLabels(g, names), owed \union (Len(g.labels) .. Len(g.labels) + Len(names) - 1))
  <1> DEFINE h == NewLabels(g, names)
  <1>1. h.code = g.code /\ h.labels = g.labels \o names
    BY DEF NewLabels, Generator
  <1>2. Len(h.labels) = Len(g.labels) + Len(names) /\ Len(g.labels) \in Nat /\ Len(names) \in Nat
    BY <1>1, GeneratorType
  <1> HIDE DEF h
  <1>3. Labels(h) = Labels(g) \union (Len(g.labels) .. Len(g.labels) + Len(names) - 1)
    BY <1>2 DEF Labels
  <1>4. Labels(g) \intersect (Len(g.labels) .. Len(g.labels) + Len(names) - 1) = {}
    BY <1>2 DEF Labels
  <1> QED
    BY <1>1, <1>3, <1>4 DEF Owing, h

-----------------------------------------------------------------------------

\* The generator only adds to what it has built, and what has ended stays so.
Onward(ast, g, h) ==
    /\ Good(ast, h)
    /\ Len(g.vars) <= Len(h.vars)
    /\ Len(g.labels) <= Len(h.labels)
    /\ h.end = "ok" => g.end = "ok"

\* It places no label that is owed, and all that it makes itself.
Settled(ast, g, h) ==
    h.end = "ok" /\ WithElse(ast) => \A owed \in SUBSET Nat : Owing(g, owed) => Owing(h, owed)

LEMMA OnwardTrans ==
    ASSUME NEW ast, NEW f, NEW g, NEW h, Good(ast, f), Onward(ast, f, g), Onward(ast, g, h)
    PROVE  /\ Onward(ast, f, h)
           /\ Settled(ast, f, g) /\ Settled(ast, g, h) => Settled(ast, f, h)
  <1>1. /\ Len(f.vars) \in Nat /\ Len(g.vars) \in Nat /\ Len(h.vars) \in Nat
        /\ Len(f.labels) \in Nat /\ Len(g.labels) \in Nat /\ Len(h.labels) \in Nat
    BY GeneratorType DEF Onward, Good
  <1> QED
    BY <1>1 DEF Onward, Settled

LEMMA SameIsSettled ==
    ASSUME NEW ast, NEW g, NEW h, h.code = g.code, h.labels = g.labels
    PROVE  Settled(ast, g, h)
  BY DEF Settled, Owing, Labels

LEMMA EmitOnward ==
    ASSUME NEW ast, NEW g, Good(ast, g), NEW i \in Instruction(ast),
           Operands(i) \subseteq Results(g), Fresh(i)
    PROVE  /\ Onward(ast, g, Emit(g, i))
           /\ Emit(g, i).vars = g.vars /\ Emit(g, i).result = g.result
           /\ Emit(g, i).labels = g.labels /\ Emit(g, i).end = g.end
           /\ Emit(g, i).scope = g.scope
           /\ i.op # "LABEL" /\ Targets(i) \subseteq Labels(g) => Settled(ast, g, Emit(g, i))
  <1> DEFINE h == Emit(g, i)
  <1>1. g \in Generator(ast)
    BY DEF Good
  <1>2. /\ h \in Generator(ast)
        /\ h.vars = g.vars /\ h.labels = g.labels /\ h.scope = g.scope
        /\ h.result = g.result /\ h.end = g.end
        /\ h.code[Len(g.code) + 1] = i
        /\ \A k \in DOMAIN g.code : h.code[k] = g.code[k]
        /\ \A k \in DOMAIN h.code : k \in DOMAIN g.code \/ k = Len(g.code) + 1
    BY <1>1, EmitFields
  <1>3. i.op # "LABEL" /\ Targets(i) \subseteq Labels(g) => Settled(ast, g, h)
    BY <1>1, EmitPlain DEF Settled
  <1> HIDE DEF h
  <1>4. Made(h) = Made(g) /\ Results(h) = Results(g)
    BY <1>2 DEF Made, Results
  <1>8. Named(h)
    BY <1>2 DEF Good, Named
  <1>5. Good(ast, h)
    BY <1>2, <1>4, <1>8 DEF Good
  <1>6. Len(g.vars) \in Nat /\ Len(g.labels) \in Nat
    BY <1>1, GeneratorType
  <1>7. Onward(ast, g, h)
    BY <1>2, <1>5, <1>6 DEF Onward
  <1> QED
    BY <1>2, <1>3, <1>7 DEF h

LEMMA ReturnsOnward ==
    ASSUME NEW ast, NEW g, Good(ast, g), NEW var \in Results(g)
    PROVE  /\ Onward(ast, g, Returns(g, var)) /\ Settled(ast, g, Returns(g, var))
           /\ Returns(g, var).result = var /\ Returns(g, var).end = g.end
           /\ Returns(g, var).vars = g.vars
  <1> DEFINE h == Returns(g, var)
  <1>1. g \in Generator(ast) /\ var \in Int
    BY GeneratorType DEF Good, Results, Made, INVALID, UNIT
  <1>2. /\ h \in Generator(ast)
        /\ h.vars = g.vars /\ h.labels = g.labels /\ h.scope = g.scope
        /\ h.result = var /\ h.end = g.end /\ h.code = g.code
    BY <1>1 DEF Returns, Generator
  <1> HIDE DEF h
  <1>4. Made(h) = Made(g) /\ Results(h) = Results(g)
    BY <1>2 DEF Made, Results
  <1>5. Good(ast, h)
    BY <1>2, <1>4 DEF Good, Named
  <1>6. Len(g.vars) \in Nat /\ Len(g.labels) \in Nat
    BY <1>1, GeneratorType
  <1>7. Onward(ast, g, h)
    BY <1>2, <1>5, <1>6 DEF Onward
  <1>8. Settled(ast, g, h)
    BY <1>2, SameIsSettled
  <1> QED
    BY <1>2, <1>7, <1>8 DEF h

LEMMA NewVarOnward ==
    ASSUME NEW ast, NEW g, Good(ast, g), NEW name \in Names(ast), NEW type \in Types(ast)
    PROVE  LET h == NewVar(g, name, type)
           IN  /\ Onward(ast, g, h) /\ Settled(ast, g, h)
               /\ h.result = Len(g.vars) /\ h.result \in Made(h) /\ h.end = g.end
               /\ h.result \notin Results(g)
               /\ Made(g) \subseteq Made(h) /\ h.labels = g.labels
  <1> DEFINE h == NewVar(g, name, type)
             made == [name |-> name, type |-> type]
  <1>1. g \in Generator(ast)
    BY DEF Good
  <1>2. g.vars \in Seq([name : Names(ast), type : Types(ast)]) /\ Len(g.vars) \in Nat
        /\ Len(g.labels) \in Nat
    BY <1>1, GeneratorType
  <1>3. Append(g.vars, made) \in Seq([name : Names(ast), type : Types(ast)])
        /\ Len(Append(g.vars, made)) = Len(g.vars) + 1
        /\ \A k \in 1 .. Len(g.vars) : Append(g.vars, made)[k] = g.vars[k]
    BY <1>2
  <1>4. /\ h \in Generator(ast)
        /\ h.vars = Append(g.vars, made) /\ h.labels = g.labels /\ h.scope = g.scope
        /\ h.result = Len(g.vars) /\ h.end = g.end /\ h.code = g.code
    <2>1. h = [g EXCEPT !.vars = Append(g.vars, made), !.result = Len(g.vars)]
      BY DEF NewVar
    <2> DEFINE now    == Append(g.vars, made)
               number == Len(g.vars)
    <2>2. now \in Seq([name : Names(ast), type : Types(ast)]) /\ number \in Int
      BY <1>2, <1>3
    <2>3. h = [g EXCEPT !.vars = now, !.result = number]
      BY <2>1
    <2> HIDE DEF h, made, now, number
    <2>4. /\ h \in Generator(ast)
          /\ h.vars = now /\ h.labels = g.labels /\ h.scope = g.scope
          /\ h.result = number /\ h.end = g.end /\ h.code = g.code
      BY <1>1, <2>2, <2>3 DEF Generator
    <2> QED
      BY <2>4 DEF now, number
  <1> HIDE DEF h, made
  <1>5. Made(g) \subseteq Made(h) /\ Results(g) \subseteq Results(h) /\ h.result \in Made(h)
    BY <1>2, <1>3, <1>4 DEF Made, Results
  <1>6. h.result \in Results(h) /\ h.result \notin Results(g)
    BY <1>2, <1>4, <1>5 DEF Results, Made, INVALID, UNIT
  <1>10. Named(h)
    <2>1. Named(g) /\ 1 \in 1 .. Len(g.vars) /\ 2 \in 1 .. Len(g.vars)
      BY <1>2 DEF Good, Named
    <2>2. h.vars[1] = g.vars[1] /\ h.vars[2] = g.vars[2] /\ Len(h.vars) = Len(g.vars) + 1
      BY <1>3, <1>4, <2>1
    <2> QED
      BY <1>2, <2>1, <2>2 DEF Named
  <1>7. Good(ast, h)
    BY <1>4, <1>5, <1>6, <1>10 DEF Good
  <1>8. Onward(ast, g, h)
    BY <1>2, <1>3, <1>4, <1>7 DEF Onward
  <1>9. Settled(ast, g, h)
    BY <1>4, SameIsSettled
  <1> QED
    BY <1>4, <1>5, <1>6, <1>8, <1>9 DEF h

LEMMA BindOnward ==
    ASSUME NEW ast, NEW g, Good(ast, g), NEW name \in Names(ast), NEW var \in Made(g)
    PROVE  LET h == Bind(g, name, var)
           IN  /\ Onward(ast, g, h) /\ Settled(ast, g, h)
               /\ h.result = g.result /\ h.end = g.end /\ h.vars = g.vars
  <1> DEFINE h == Bind(g, name, var)
             entry == [name |-> name, value |-> var]
  <1>1. g \in Generator(ast)
    BY DEF Good
  <1>2. /\ g.scope \in Seq([name : Names(ast), value : Int])
        /\ Len(g.vars) \in Nat /\ Len(g.labels) \in Nat
        /\ DOMAIN g.scope = 1 .. Len(g.scope) /\ Len(g.scope) \in Nat
    BY <1>1, GeneratorType
  <1>10. var \in Int
    BY <1>2 DEF Made
  <1>3. /\ Append(g.scope, entry) \in Seq([name : Names(ast), value : Int])
        /\ DOMAIN Append(g.scope, entry) = 1 .. Len(g.scope) + 1
        /\ Append(g.scope, entry)[Len(g.scope) + 1] = entry
        /\ \A k \in DOMAIN g.scope : Append(g.scope, entry)[k] = g.scope[k]
    BY <1>2, <1>10
  <1>4. /\ h \in Generator(ast)
        /\ h.scope = Append(g.scope, entry) /\ h.labels = g.labels /\ h.vars = g.vars
        /\ h.result = g.result /\ h.end = g.end /\ h.code = g.code
    BY <1>1, <1>2, <1>3 DEF Bind, Enter, Generator
  <1>0. entry.value = var
    OBVIOUS
  <1> HIDE DEF h, entry
  <1>5. Made(g) = Made(h) /\ Results(g) = Results(h)
    BY <1>4 DEF Made, Results
  <1>6. \A k \in DOMAIN h.scope : h.scope[k].value \in Made(h)
    BY <1>0, <1>2, <1>3, <1>4, <1>5 DEF Good
  <1>7. Good(ast, h)
    BY <1>4, <1>5, <1>6 DEF Good, Named
  <1>8. Onward(ast, g, h)
    BY <1>2, <1>4, <1>7 DEF Onward
  <1>9. Settled(ast, g, h)
    BY <1>4, SameIsSettled
  <1> QED
    BY <1>4, <1>8, <1>9 DEF h

LEMMA NewLabelsOnward ==
    ASSUME NEW ast, NEW g, Good(ast, g), NEW names \in Seq(LabelName)
    PROVE  LET h == NewLabels(g, names)
           IN  /\ Onward(ast, g, h)
               /\ h.result = g.result /\ h.end = g.end /\ h.vars = g.vars
               /\ Len(h.labels) = Len(g.labels) + Len(names)
  <1> DEFINE h == NewLabels(g, names)
  <1>1. g \in Generator(ast)
    BY DEF Good
  <1>2. g.labels \in Seq(LabelName) /\ Len(g.vars) \in Nat /\ Len(g.labels) \in Nat
    BY <1>1, GeneratorType
  <1>3. /\ g.labels \o names \in Seq(LabelName)
        /\ Len(g.labels \o names) = Len(g.labels) + Len(names) /\ Len(names) \in Nat
    BY <1>2
  <1>4. /\ h \in Generator(ast)
        /\ h.scope = g.scope /\ h.labels = g.labels \o names /\ h.vars = g.vars
        /\ h.result = g.result /\ h.end = g.end /\ h.code = g.code
    BY <1>1, <1>3 DEF NewLabels, Generator
  <1> HIDE DEF h
  <1>5. Made(g) = Made(h) /\ Results(g) = Results(h)
    BY <1>4 DEF Made, Results
  <1>6. Good(ast, h)
    BY <1>4, <1>5 DEF Good, Named
  <1>7. Onward(ast, g, h)
    BY <1>2, <1>3, <1>4, <1>6 DEF Onward
  <1> QED
    BY <1>3, <1>4, <1>7 DEF h

\* What a name in scope stands for has been made.
LEMMA LookupMade ==
    ASSUME NEW ast, NEW g, Good(ast, g), NEW name
    PROVE  /\ Has(g.scope, name) => Find(g.scope, name) \in Made(g)
           /\ Lookup(g, name) \in Results(g)
  <1> DEFINE entries == Entries(g.scope, name)
             newest  == CHOOSE k \in entries : \A j \in entries : j <= k
  <1>1. entries \subseteq DOMAIN g.scope /\ DOMAIN g.scope = 1 .. Len(g.scope) /\ Len(g.scope) \in Nat
    BY GeneratorType DEF Entries, Good
  <1>2. ASSUME entries # {} PROVE newest \in entries
    <2> DEFINE back == {Len(g.scope) - k : k \in entries}
    <2>1. back \subseteq Nat /\ back # {}
      BY <1>1, <1>2
    <2>2. PICK b \in back : \A m \in back : b <= m
      BY <2>1, SmallestNumber
    <2>3. PICK k \in entries : b = Len(g.scope) - k
      BY <2>2
    <2>4. \A j \in entries : j \in Nat /\ Len(g.scope) - j \in back
      BY <1>1
    <2>5. ASSUME NEW j \in entries PROVE j <= k
      <3>1. b <= Len(g.scope) - j
        BY <2>2, <2>4
      <3>2. j \in Nat /\ k \in Nat /\ Len(g.scope) \in Nat
        BY <1>1
      <3> QED
        BY <2>3, <3>1, <3>2
    <2> QED
      BY <2>5
  <1>3. Has(g.scope, name) => Find(g.scope, name) \in Made(g)
    BY <1>1, <1>2 DEF Has, Find, Good
  <1> QED
    BY <1>3 DEF Lookup, Results

-----------------------------------------------------------------------------

\* All visits keep to this.
Visiting(ast, below) ==
    \A i \in 0 .. Len(ast.heap), g \in Generator(ast) :
        Good(ast, g) => Onward(ast, g, below[i][g]) /\ Settled(ast, g, below[i][g])

LEMMA OnwardResults ==
    ASSUME NEW ast, NEW g, NEW h, Good(ast, g), Onward(ast, g, h)
    PROVE  Made(g) \subseteq Made(h) /\ Results(g) \subseteq Results(h)
  <1>1. Len(g.vars) \in Nat /\ Len(h.vars) \in Nat /\ Len(g.vars) <= Len(h.vars)
    BY GeneratorType DEF Onward, Good
  <1> QED
    BY <1>1 DEF Made, Results

LEMMA OnwardSelf ==
    ASSUME NEW ast, NEW g, Good(ast, g)
    PROVE  Onward(ast, g, g) /\ Settled(ast, g, g)
  <1>1. Len(g.vars) \in Nat /\ Len(g.labels) \in Nat
    BY GeneratorType DEF Good
  <1> QED
    BY <1>1 DEF Onward, Settled

\* The nodes an operator, a call or a block has are visited one after the other.
LEMMA VisitAllOnward ==
    ASSUME NEW ast, NEW below, Visiting(ast, below), NEW g, Good(ast, g),
           NEW edges \in Seq(0 .. Len(ast.heap))
    PROVE  LET w == VisitAll(below, g, ast, edges)
           IN  /\ Onward(ast, g, w.g) /\ Settled(ast, g, w.g)
               /\ w.args \in Seq(Int)
               /\ \A k \in DOMAIN w.args : w.args[k] \in Results(w.g)
  <1> DEFINE rounds == Len(edges)
             first  == [g |-> g, args |-> <<>>]
             visit  == [w \in Walk(ast) |->
                           LET h == below[edges[Len(w.args) + 1]][w.g]
                           IN  [g |-> h, args |-> Append(w.args, h.result)]]
             Reached(k) == {w \in Walk(ast) :
                               /\ Onward(ast, g, w.g) /\ Settled(ast, g, w.g)
                               /\ Len(w.args) = k
                               /\ \A j \in DOMAIN w.args : w.args[j] \in Results(w.g)}
             S == [k \in 0 .. rounds |-> Reached(k)]
  <1>1. rounds \in Nat
    OBVIOUS
  <1>2. first \in S[0]
    <2>1. first \in Walk(ast) /\ first.g = g /\ first.args = <<>>
      BY DEF Walk, Good
    <2> HIDE DEF first
    <2>2. first \in Reached(0)
      BY <2>1, OnwardSelf
    <2> QED
      BY <1>1, <2>2
  <1>3. ASSUME NEW k \in 0 .. rounds - 1, NEW w \in S[k]
        PROVE  visit[w] \in S[k + 1]
    <2> DEFINE h == below[edges[k + 1]][w.g]
               x == [g |-> h, args |-> Append(w.args, h.result)]
    <2>1. /\ w \in Walk(ast) /\ Onward(ast, g, w.g) /\ Settled(ast, g, w.g) /\ Len(w.args) = k
          /\ \A j \in DOMAIN w.args : w.args[j] \in Results(w.g)
      BY <1>1
    <2>2. visit[w] = x
      BY <2>1
    <2>3. w.g \in Generator(ast) /\ w.args \in Seq(Int) /\ Good(ast, w.g)
      BY <2>1 DEF Walk, Onward
    <2>4. edges[k + 1] \in 0 .. Len(ast.heap)
      BY <1>1
    <2>5. Onward(ast, w.g, h) /\ Settled(ast, w.g, h)
      BY <2>3, <2>4 DEF Visiting
    <2>6. Onward(ast, g, h) /\ Settled(ast, g, h)
      BY <2>1, <2>5, OnwardTrans
    <2>7. h \in Generator(ast) /\ h.result \in Int /\ h.result \in Results(h)
      BY <2>5, GeneratorType DEF Onward, Good
    <2>8. Results(w.g) \subseteq Results(h)
      BY <2>3, <2>5, OnwardResults
    <2> HIDE DEF h
    <2>9. /\ Append(w.args, h.result) \in Seq(Int) /\ Len(Append(w.args, h.result)) = k + 1
          /\ \A j \in DOMAIN Append(w.args, h.result) : Append(w.args, h.result)[j] \in Results(h)
      BY <2>1, <2>3, <2>7, <2>8
    <2>10. x \in Reached(k + 1)
      BY <2>6, <2>7, <2>9 DEF Walk
    <2>11. k + 1 \in 0 .. rounds
      BY <1>1
    <2> HIDE DEF x, visit, Reached
    <2> QED
      BY <2>2, <2>10, <2>11
  <1>4. VisitAll(below, g, ast, edges) = Repeat(visit, first, rounds)
    BY DEF VisitAll
  <1> HIDE DEF visit, first
  <1>5. Repeat(visit, first, rounds) \in S[rounds]
    <2> HIDE DEF S, rounds
    <2> QED
      BY <1>1, <1>2, <1>3, RepeatReaches
  <1>6. VisitAll(below, g, ast, edges) \in Reached(rounds)
    BY <1>1, <1>4, <1>5
  <1> QED
    BY <1>6 DEF Walk

-----------------------------------------------------------------------------
(* One visit, when the visits below it keep to this. *)

\* So does one visit.
Works(ast, g, h) == Onward(ast, g, h) /\ Settled(ast, g, h)

LEMMA WorksTrans ==
    ASSUME NEW ast, NEW f, NEW g, NEW h, Good(ast, f), Works(ast, f, g), Works(ast, g, h)
    PROVE  Works(ast, f, h)
  BY OnwardTrans DEF Works

LEMMA WorksGood ==
    ASSUME NEW ast, NEW g, NEW h, Works(ast, g, h)
    PROVE  Good(ast, h)
  BY DEF Works, Onward

LEMMA InstructionTypes ==
    ASSUME NEW ast
    PROVE  /\ \A value \in Constants(ast), dest \in Int :
                 /\ Load(value, dest) \in Instruction(ast) /\ Load(value, dest).op = "LOAD"
                 /\ Operands(Load(value, dest)) = {dest}
                 /\ Targets(Load(value, dest)) = {}
                 /\ dest \in Nat => Fresh(Load(value, dest))
           /\ \A source, dest \in Int :
                 /\ Copy(source, dest) \in Instruction(ast) /\ Copy(source, dest).op = "COPY"
                 /\ Operands(Copy(source, dest)) = {source, dest}
                 /\ Targets(Copy(source, dest)) = {}
                 /\ dest \in Nat => Fresh(Copy(source, dest))
           /\ \A label \in Nat :
                 /\ Jump(label) \in Instruction(ast) /\ Jump(label).op = "JUMP"
                 /\ Operands(Jump(label)) = {} /\ Targets(Jump(label)) = {label}
                 /\ Fresh(Jump(label)) /\ Fresh(Place(label))
                 /\ Place(label) \in Instruction(ast) /\ Place(label).op = "LABEL"
                 /\ Operands(Place(label)) = {} /\ Targets(Place(label)) = {}
  BY DEF Load, Copy, Jump, Place, Instruction, Operands, Targets, Fresh

LEMMA CallType ==
    ASSUME NEW ast, NEW fun \in Int, NEW args \in Seq(Int), NEW dest \in Int
    PROVE  /\ Call(fun, args, dest) \in Instruction(ast) /\ Call(fun, args, dest).op = "CALL"
           /\ Operands(Call(fun, args, dest)) = {fun, dest} \union {args[k] : k \in DOMAIN args}
           /\ Targets(Call(fun, args, dest)) = {}
           /\ fun \in {0, 1} \/ (dest \in Nat /\ \A k \in DOMAIN args : args[k] # dest)
                => Fresh(Call(fun, args, dest))
  <1> DEFINE i == Call(fun, args, dest)
  <1>1. i.op = "CALL" /\ i.fun = fun /\ i.args = args /\ i.dest = dest
    BY DEF Call
  <1>2. i \in Instruction(ast)
    BY DEF Call, Instruction
  <1> HIDE DEF i
  <1>3. Operands(i) = {fun, dest} \union {args[k] : k \in DOMAIN args} /\ Targets(i) = {}
    BY <1>1 DEF Operands, Targets
  <1>4. fun \in {0, 1} \/ (dest \in Nat /\ \A k \in DOMAIN args : args[k] # dest) => Fresh(i)
    BY <1>1 DEF Fresh
  <1> QED
    BY <1>1, <1>2, <1>3, <1>4 DEF i

LEMMA CondJumpType ==
    ASSUME NEW ast, NEW cond \in Int, NEW then \in Nat, NEW else \in Nat
    PROVE  LET i == CondJump(cond, then, else)
           IN  /\ i \in Instruction(ast) /\ i.op = "CONDJUMP"
               /\ Operands(i) = {cond} /\ Targets(i) = {then, else} /\ Fresh(i)
  <1> DEFINE i == CondJump(cond, then, else)
  <1>1. i.op = "CONDJUMP" /\ i.cond = cond /\ i.then = then /\ i.else = else
    BY DEF CondJump
  <1>2. i \in Instruction(ast)
    BY DEF CondJump, Instruction
  <1> HIDE DEF i
  <1>3. Operands(i) = {cond} /\ Targets(i) = {then, else} /\ Fresh(i)
    BY <1>1 DEF Operands, Targets, Fresh
  <1> QED
    BY <1>1, <1>2, <1>3 DEF i

LEMMA ResultsAreNumbers ==
    ASSUME NEW ast, NEW g, Good(ast, g)
    PROVE  /\ Results(g) \subseteq Int /\ Made(g) \subseteq Results(g)
           /\ INVALID \in Results(g) /\ UNIT \in Results(g) /\ g.result \in Results(g)
           /\ g \in Generator(ast) /\ Len(g.vars) \in Nat
           /\ Labels(g) \subseteq Nat /\ Len(g.labels) \in Nat
           /\ Made(g) \subseteq Nat
  <1>1. Len(g.vars) \in Nat /\ Len(g.labels) \in Nat /\ g \in Generator(ast) /\ g.result \in Results(g)
    BY GeneratorType DEF Good
  <1> QED
    BY <1>1 DEF Results, Made, INVALID, UNIT, Labels

LEMMA RequireWorks ==
    ASSUME NEW ast, NEW g, Good(ast, g), NEW name \in Names(ast), NEW type \in Types(ast)
    PROVE  LET h == Require(g, name, type)
           IN  Works(ast, g, h) /\ h.result \in Made(h)
  <1>1. CASE Has(g.scope, name)
    <2> DEFINE h == Returns(g, Find(g.scope, name))
    <2>1. Find(g.scope, name) \in Made(g) /\ Find(g.scope, name) \in Results(g)
      BY <1>1, LookupMade DEF Results
    <2>2. Works(ast, g, h) /\ h.result = Find(g.scope, name) /\ h.vars = g.vars
      BY <2>1, ReturnsOnward DEF Works
    <2>3. Require(g, name, type) = h
      BY <1>1 DEF Require
    <2> HIDE DEF h
    <2> QED
      BY <2>1, <2>2, <2>3 DEF Made
  <1>2. CASE ~Has(g.scope, name)
    <2> DEFINE v == NewVar(g, name, type)
               h == Bind(v, name, Len(g.vars))
    <2>1. Works(ast, g, v) /\ v.result = Len(g.vars) /\ v.result \in Made(v)
      BY NewVarOnward DEF Works
    <2>2. Good(ast, v) /\ Len(g.vars) \in Made(v)
      BY <2>1, WorksGood
    <2> HIDE DEF v
    <2>3. Works(ast, v, h) /\ h.result = v.result /\ h.vars = v.vars
      BY <2>2, BindOnward DEF Works
    <2>4. Require(g, name, type) = h
      BY <1>2 DEF Require, v
    <2> HIDE DEF h
    <2> QED
      BY <2>1, <2>3, <2>4, WorksTrans DEF Made
  <1> QED
    BY <1>1, <1>2

\* What is visited is put into a call.
LEMMA CallWorks ==
    ASSUME NEW ast, NEW g, Good(ast, g), NEW fun \in Results(g), NEW args \in Seq(Int),
           \A k \in DOMAIN args : args[k] \in Results(g), NEW type \in Types(ast)
    PROVE  LET dest == UniqueVar(g, type)
           IN  Works(ast, g, Emit(dest, Call(fun, args, dest.result)))
  <1> DEFINE dest == UniqueVar(g, type)
             i    == Call(fun, args, dest.result)
  <1>1. Works(ast, g, dest) /\ dest.result \in Made(dest) /\ dest.result \notin Results(g)
    BY NewVarOnward DEF UniqueVar, Names, Works
  <1>2. Good(ast, dest) /\ Results(g) \subseteq Results(dest)
    BY <1>1, WorksGood, OnwardResults DEF Works
  <1>3. fun \in Int /\ dest.result \in Int /\ dest.result \in Nat /\ dest.result \in Results(dest)
    BY <1>1, <1>2, ResultsAreNumbers
  <1> HIDE DEF dest
  <1>7. \A k \in DOMAIN args : args[k] # dest.result
    BY <1>1
  <1>4. /\ i \in Instruction(ast) /\ i.op = "CALL" /\ Targets(i) = {} /\ Fresh(i)
        /\ Operands(i) = {fun, dest.result} \union {args[k] : k \in DOMAIN args}
    <2> DEFINE to == dest.result
    <2>1. fun \in Int /\ to \in Int /\ to \in Nat /\ \A k \in DOMAIN args : args[k] # to
      BY <1>3, <1>7
    <2> HIDE DEF to
    <2>2. /\ Call(fun, args, to) \in Instruction(ast) /\ Call(fun, args, to).op = "CALL"
          /\ Targets(Call(fun, args, to)) = {} /\ Fresh(Call(fun, args, to))
          /\ Operands(Call(fun, args, to)) = {fun, to} \union {args[k] : k \in DOMAIN args}
      BY <2>1, CallType
    <2> QED
      BY <2>2 DEF to
  <1> HIDE DEF i
  <1>5. Operands(i) \subseteq Results(dest)
    BY <1>2, <1>3, <1>4
  <1>6. Works(ast, dest, Emit(dest, i))
    BY <1>2, <1>4, <1>5, EmitOnward DEF Works
  <1> QED
    BY <1>1, <1>6, WorksTrans DEF i, dest

LEMMA NodeParts ==
    ASSUME NEW ast, Built(ast), NEW i \in DOMAIN ast.heap
    PROVE  /\ ast.heap[i].edges \in Seq(0 .. Len(ast.heap))
           /\ \A k \in 1 .. Len(ast.heap[i].edges) : Edge(ast, i, k) \in 0 .. Len(ast.heap)
           /\ Len(ast.heap[i].edges) \in Nat
           /\ ast.types[i] \in Types(ast) /\ WordOf(ast, i) \in Names(ast)
           /\ Arity(ast.heap[i])
  BY DEF Built, Edge, Types, Names

LEMMA VisitOperatorWorks ==
    ASSUME NEW ast, Built(ast), NEW below, Visiting(ast, below), NEW g, Good(ast, g),
           NEW i \in DOMAIN ast.heap, NEW name \in Names(ast), NEW type \in Types(ast)
    PROVE  Works(ast, g, VisitOperator(below, g, ast, i, name, type))
  <1> DEFINE fun   == Require(g, name, type)
             edges == VisitAll(below, fun, ast, ast.heap[i].edges)
             dest  == UniqueVar(edges.g, ast.types[i])
             h     == Emit(dest, Call(fun.result, edges.args, dest.result))
  <1>1. ast.types[i] \in Types(ast) /\ ast.heap[i].edges \in Seq(0 .. Len(ast.heap))
    BY NodeParts
  <1>2. Works(ast, g, fun) /\ fun.result \in Made(fun)
    BY <1>1, RequireWorks
  <1>3. Good(ast, fun)
    BY <1>2, WorksGood
  <1> HIDE DEF fun
  <1>4. /\ Works(ast, fun, edges.g)
        /\ edges.args \in Seq(Int)
        /\ \A k \in DOMAIN edges.args : edges.args[k] \in Results(edges.g)
    BY <1>1, <1>3, VisitAllOnward DEF Works
  <1>5. Good(ast, edges.g) /\ fun.result \in Results(edges.g)
    BY <1>2, <1>3, <1>4, WorksGood, OnwardResults, ResultsAreNumbers DEF Works
  <1> HIDE DEF edges
  <1>6. Works(ast, edges.g, h)
    BY <1>1, <1>4, <1>5, CallWorks
  <1> HIDE DEF dest, h
  <1>7. Works(ast, g, h)
    BY <1>2, <1>3, <1>4, <1>5, <1>6, WorksTrans
  <1> QED
    BY <1>7 DEF VisitOperator, fun, edges, dest, h

LEMMA VisitCallWorks ==
    ASSUME NEW ast, Built(ast), NEW below, Visiting(ast, below), NEW g, Good(ast, g),
           NEW i \in DOMAIN ast.heap
    PROVE  Works(ast, g, VisitCall(below, g, ast, i))
  <1> DEFINE fun   == Lookup(g, WordOf(ast, i))
             edges == VisitAll(below, g, ast, ast.heap[i].edges)
             dest  == UniqueVar(edges.g, ast.types[i])
             h     == Emit(dest, Call(fun, edges.args, dest.result))
  <1>1. ast.types[i] \in Types(ast) /\ ast.heap[i].edges \in Seq(0 .. Len(ast.heap))
    BY NodeParts
  <1>2. fun \in Results(g)
    BY LookupMade
  <1> HIDE DEF fun
  <1>4. /\ Works(ast, g, edges.g)
        /\ edges.args \in Seq(Int)
        /\ \A k \in DOMAIN edges.args : edges.args[k] \in Results(edges.g)
    BY <1>1, VisitAllOnward DEF Works
  <1>5. Good(ast, edges.g) /\ fun \in Results(edges.g)
    BY <1>2, <1>4, WorksGood, OnwardResults DEF Works
  <1> HIDE DEF edges
  <1>6. Works(ast, edges.g, h)
    BY <1>1, <1>4, <1>5, CallWorks
  <1> HIDE DEF dest, h
  <1>7. Works(ast, g, h)
    BY <1>4, <1>5, <1>6, WorksTrans
  <1> QED
    BY <1>7 DEF VisitCall, fun, edges, dest, h

LEMMA VisitLiteralWorks ==
    ASSUME NEW ast, Built(ast), NEW g, Good(ast, g),
           NEW i \in DOMAIN ast.heap, ast.heap[i].kind = "LITERAL"
    PROVE  Works(ast, g, VisitLiteral(g, ast, i))
  <1> DEFINE var  == UniqueVar(g, ast.types[i])
             load == Load(Number(WordOf(ast, i)), var.result)
  <1>1. ast.types[i] \in Types(ast)
    BY NodeParts
  <1>2. Works(ast, g, var) /\ var.result \in Made(var)
    BY <1>1, NewVarOnward DEF UniqueVar, Names, Works
  <1>3. Good(ast, var)
    BY <1>2, WorksGood
  <1> HIDE DEF var
  <1>4. Works(ast, var, Returns(var, INVALID))
    BY <1>3, ResultsAreNumbers, ReturnsOnward DEF Works
  <1>5. var.result \in Nat /\ var.result \in Results(var)
    BY <1>2, <1>3, ResultsAreNumbers
  <1>6. Number(WordOf(ast, i)) \in Constants(ast)
    BY DEF Constants
  <1>7. load \in Instruction(ast) /\ load.op = "LOAD" /\ Operands(load) = {var.result} /\ Targets(load) = {}
        /\ Fresh(load)
    BY <1>5, <1>6, InstructionTypes
  <1> HIDE DEF load
  <1>8. Works(ast, var, Emit(var, load))
    BY <1>3, <1>5, <1>7, EmitOnward DEF Works
  <1>9. Works(ast, g, Emit(var, load)) /\ Works(ast, g, Returns(var, INVALID))
    BY <1>2, <1>4, <1>8, WorksTrans
  <1> QED
    BY <1>9 DEF VisitLiteral, var, load

LEMMA VisitBlockWorks ==
    ASSUME NEW ast, Built(ast), NEW below, Visiting(ast, below), NEW g, Good(ast, g),
           NEW i \in DOMAIN ast.heap
    PROVE  Works(ast, g, VisitBlock(below, g, ast, i))
  <1> DEFINE start == [g EXCEPT !.scope = <<>>, !.result = UNIT]
             inner == VisitAll(below, start, ast, ast.heap[i].edges).g
             h     == [inner EXCEPT !.scope = g.scope]
  <1>1. ast.heap[i].edges \in Seq(0 .. Len(ast.heap))
    BY NodeParts
  <1>2. g \in Generator(ast) /\ UNIT \in Int /\ <<>> \in Seq([name : Names(ast), value : Int])
    BY DEF Good, UNIT
  <1>3. /\ start \in Generator(ast)
        /\ start.scope = <<>> /\ start.result = UNIT /\ start.code = g.code
        /\ start.vars = g.vars /\ start.labels = g.labels /\ start.end = g.end
    BY <1>2 DEF Generator
  <1> HIDE DEF start
  <1>4. Results(start) = Results(g) /\ Made(start) = Made(g) /\ UNIT \in Results(g)
    BY <1>3 DEF Results, Made
  <1>5. Good(ast, start)
    BY <1>3, <1>4 DEF Good, Named
  <1>6. Works(ast, start, inner)
    BY <1>1, <1>5, VisitAllOnward DEF Works
  <1> HIDE DEF inner
  <1>7. inner \in Generator(ast) /\ Good(ast, inner) /\ g.scope \in Seq([name : Names(ast), value : Int])
    BY <1>2, <1>6, WorksGood, GeneratorType DEF Good
  <1>8. /\ h \in Generator(ast)
        /\ h.scope = g.scope /\ h.result = inner.result /\ h.code = inner.code
        /\ h.vars = inner.vars /\ h.labels = inner.labels /\ h.end = inner.end
    BY <1>7 DEF Generator
  <1> HIDE DEF h
  <1>9. Results(h) = Results(inner) /\ Made(h) = Made(inner)
    BY <1>8 DEF Results, Made
  <1>10. Made(g) \subseteq Made(inner)
    BY <1>4, <1>5, <1>6, OnwardResults DEF Works
  <1>11. Good(ast, h)
    BY <1>7, <1>8, <1>9, <1>10 DEF Good, Named
  <1>12. Onward(ast, g, h)
    BY <1>3, <1>6, <1>8, <1>11 DEF Works, Onward
  <1>13. Settled(ast, g, h)
    <2>1. Settled(ast, g, start) /\ Settled(ast, start, inner) /\ Settled(ast, inner, h)
      BY <1>3, <1>6, <1>8, SameIsSettled DEF Works
    <2>2. h.end = "ok" => inner.end = "ok" /\ start.end = "ok"
      BY <1>6, <1>8 DEF Works, Onward
    <2> QED
      BY <2>1, <2>2 DEF Settled
  <1> QED
    BY <1>12, <1>13 DEF Works, VisitBlock, start, inner, h

LEMMA VisitVarWorks ==
    ASSUME NEW ast, Built(ast), NEW below, Visiting(ast, below), NEW g, Good(ast, g),
           NEW i \in DOMAIN ast.heap, ast.heap[i].kind = "VAR_EXPR"
    PROVE  Works(ast, g, VisitVar(below, g, ast, i))
  <1> DEFINE name  == WordOf(ast, Edge(ast, i, 1))
             var   == NewVar(g, name, ast.types[i])
             value == below[Edge(ast, i, 2)][var]
             copy  == Copy(value.result, var.result)
             done  == Emit(value, copy)
             bound == Bind(done, name, var.result)
             h     == Returns(bound, UNIT)
  <1>1. /\ Edge(ast, i, 1) \in DOMAIN ast.heap
        /\ Edge(ast, i, 2) \in 0 .. Len(ast.heap) /\ ast.types[i] \in Types(ast)
    <2>1. /\ Edge(ast, i, 1) \in 0 .. Len(ast.heap) /\ Edge(ast, i, 2) \in 0 .. Len(ast.heap)
          /\ Edge(ast, i, 1) # NullAst /\ ast.types[i] \in Types(ast)
      BY NodeParts DEF Arity, Edge
    <2>2. DOMAIN ast.heap = 1 .. Len(ast.heap)
      BY DEF Built
    <2> QED
      BY <2>1, <2>2 DEF NullAst
  <1>2. name \in Names(ast)
    BY <1>1 DEF Names
  <1> HIDE DEF name
  <1>3. Works(ast, g, var) /\ var.result \in Made(var)
    BY <1>1, <1>2, NewVarOnward DEF Works
  <1>4. Good(ast, var) /\ var \in Generator(ast)
    BY <1>3, WorksGood DEF Good
  <1> HIDE DEF var
  <1>5. Works(ast, var, value)
    BY <1>1, <1>4 DEF Visiting, Works
  <1>6. Good(ast, value) /\ Made(var) \subseteq Made(value)
    BY <1>4, <1>5, WorksGood, OnwardResults DEF Works
  <1> HIDE DEF value
  <1>7. /\ value.result \in Int /\ var.result \in Nat
        /\ value.result \in Results(value) /\ var.result \in Results(value)
    BY <1>3, <1>6, ResultsAreNumbers
  <1>8. copy \in Instruction(ast) /\ copy.op = "COPY" /\ Targets(copy) = {} /\ Fresh(copy)
        /\ Operands(copy) = {value.result, var.result}
    BY <1>7, InstructionTypes
  <1> HIDE DEF copy
  <1>9. Works(ast, value, done) /\ done.vars = value.vars
    BY <1>6, <1>7, <1>8, EmitOnward DEF Works
  <1>10. Good(ast, done) /\ var.result \in Made(done)
    BY <1>3, <1>6, <1>9, WorksGood DEF Made
  <1> HIDE DEF done
  <1>11. Works(ast, done, bound)
    BY <1>2, <1>10, BindOnward DEF Works
  <1>12. Good(ast, bound)
    BY <1>11, WorksGood
  <1> HIDE DEF bound
  <1>13. Works(ast, bound, h)
    BY <1>12, ResultsAreNumbers, ReturnsOnward DEF Works
  <1> HIDE DEF h
  <1>14. Works(ast, g, h)
    BY <1>3, <1>4, <1>5, <1>6, <1>9, <1>10, <1>11, <1>12, <1>13, WorksTrans
  <1> QED
    BY <1>14 DEF VisitVar, name, var, value, copy, done, bound, h

-----------------------------------------------------------------------------
(* Labels that are owed for a while. *)

\* Emitting a label takes it from those that are owed.
LEMMA PlaceOnward ==
    ASSUME NEW ast, NEW g, Good(ast, g), NEW l \in Labels(g)
    PROVE  LET h == Emit(g, Place(l))
           IN  /\ Onward(ast, g, h) /\ h.labels = g.labels /\ h.end = g.end
               /\ h.vars = g.vars /\ h.result = g.result
               /\ \A owed : Owing(g, owed) /\ l \in owed => Owing(h, owed \ {l})
  <1>1. l \in Nat /\ g \in Generator(ast)
    BY ResultsAreNumbers
  <1>2. Place(l) \in Instruction(ast) /\ Operands(Place(l)) = {} /\ Fresh(Place(l))
    BY <1>1, InstructionTypes
  <1> QED
    BY <1>1, <1>2, EmitOnward, EmitPlace

LEMMA JumpWorks ==
    ASSUME NEW ast, NEW g, Good(ast, g), NEW l \in Labels(g)
    PROVE  Works(ast, g, Emit(g, Jump(l))) /\ Emit(g, Jump(l)).labels = g.labels
  <1>1. l \in Nat
    BY ResultsAreNumbers
  <1>2. Jump(l) \in Instruction(ast) /\ Jump(l).op = "JUMP" /\ Operands(Jump(l)) = {} /\ Targets(Jump(l)) = {l}
        /\ Fresh(Jump(l))
    BY <1>1, InstructionTypes
  <1> QED
    BY <1>2, EmitOnward DEF Works

LEMMA CopyWorks ==
    ASSUME NEW ast, NEW g, Good(ast, g), NEW source \in Results(g), NEW dest \in Made(g)
    PROVE  Works(ast, g, Emit(g, Copy(source, dest)))
  <1>1. source \in Int /\ dest \in Int /\ dest \in Nat /\ dest \in Results(g)
    BY ResultsAreNumbers
  <1>2. /\ Copy(source, dest) \in Instruction(ast) /\ Copy(source, dest).op = "COPY"
        /\ Operands(Copy(source, dest)) = {source, dest} /\ Targets(Copy(source, dest)) = {}
        /\ Fresh(Copy(source, dest))
    BY <1>1, InstructionTypes
  <1> QED
    BY <1>1, <1>2, EmitOnward DEF Works

\* Of g nothing more is used than that labels are owed there.
Pays(ast, g, h, before, after) ==
    h.end = "ok" /\ WithElse(ast) /\ Owing(g, before) => Owing(h, after)

LEMMA BranchPays ==
    ASSUME NEW ast, Built(ast), NEW below, Visiting(ast, below), NEW g, Good(ast, g),
           NEW i \in DOMAIN ast.heap, Len(ast.heap[i].edges) >= 2,
           NEW then \in Labels(g), NEW else \in Labels(g)
    PROVE  LET h == Branch(below, g, ast, i, then, else)
           IN  /\ Onward(ast, g, h)
               /\ \A owed \in SUBSET Nat : then \in owed => Pays(ast, g, h, owed, owed \ {then})
  <1> DEFINE cond   == below[Edge(ast, i, 1)][g]
             jump   == CondJump(cond.result, then, else)
             jumped == Emit(cond, jump)
             placed == Emit(jumped, Place(then))
             h      == below[Edge(ast, i, 2)][placed]
  <1>1. Edge(ast, i, 1) \in 0 .. Len(ast.heap) /\ Edge(ast, i, 2) \in 0 .. Len(ast.heap)
    BY NodeParts
  <1>2. Works(ast, g, cond)
    BY <1>1, ResultsAreNumbers DEF Visiting, Works
  <1>3. Good(ast, cond) /\ then \in Labels(cond) /\ else \in Labels(cond)
    <2>1. /\ Len(g.labels) \in Nat /\ Len(cond.labels) \in Nat /\ Len(g.labels) <= Len(cond.labels)
          /\ Good(ast, cond)
      BY <1>2, ResultsAreNumbers DEF Works, Onward
    <2> QED
      BY <2>1 DEF Labels
  <1> HIDE DEF cond
  <1>4. /\ cond.result \in Int /\ cond.result \in Results(cond)
        /\ then \in Nat /\ else \in Nat
    BY <1>3, ResultsAreNumbers
  <1>5. /\ jump \in Instruction(ast) /\ jump.op = "CONDJUMP"
        /\ Operands(jump) = {cond.result} /\ Targets(jump) = {then, else} /\ Fresh(jump)
    BY <1>4, CondJumpType
  <1> HIDE DEF jump
  <1>6. Works(ast, cond, jumped) /\ jumped.labels = cond.labels
    BY <1>3, <1>4, <1>5, EmitOnward DEF Works
  <1>7. Good(ast, jumped) /\ then \in Labels(jumped)
    BY <1>3, <1>6, WorksGood DEF Labels
  <1> HIDE DEF jumped
  <1>8. /\ Onward(ast, jumped, placed)
        /\ \A owed : Owing(jumped, owed) /\ then \in owed => Owing(placed, owed \ {then})
    BY <1>7, PlaceOnward
  <1>9. Good(ast, placed) /\ placed \in Generator(ast)
    BY <1>8 DEF Onward, Good
  <1> HIDE DEF placed
  <1>10. Works(ast, placed, h)
    BY <1>1, <1>9 DEF Visiting, Works
  <1> HIDE DEF h
  <1>11. Onward(ast, g, h)
    BY <1>2, <1>3, <1>6, <1>7, <1>8, <1>9, <1>10, OnwardTrans DEF Works
  <1>12. ASSUME NEW owed \in SUBSET Nat, then \in owed, h.end = "ok", WithElse(ast), Owing(g, owed)
         PROVE  Owing(h, owed \ {then})
    <2>1. placed.end = "ok" /\ jumped.end = "ok" /\ cond.end = "ok"
      BY <1>12, <1>6, <1>8, <1>10 DEF Works, Onward
    <2>2. Owing(jumped, owed)
      BY <1>12, <1>2, <1>6, <2>1 DEF Works, Settled
    <2>3. Owing(placed, owed \ {then})
      BY <1>12, <1>8, <2>2
    <2> QED
      BY <1>12, <1>10, <2>3 DEF Works, Settled
  <1> QED
    BY <1>11, <1>12 DEF Pays, Branch, cond, jump, jumped, placed, h

LEMMA SequencesOf ==
    ASSUME NEW S
    PROVE  /\ \A a, b, c \in S : <<a, b, c>> \in Seq(S) /\ Len(<<a, b, c>>) = 3
           /\ \A a, b \in S : <<a, b>> \in Seq(S) /\ Len(<<a, b>>) = 2
  OBVIOUS

LEMMA LabelNames ==
    /\ WhileLabels \in Seq(LabelName) /\ Len(WhileLabels) = 3
    /\ <<"then", "end", "else">> \in Seq(LabelName) /\ Len(<<"then", "end", "else">>) = 3
    /\ <<"then", "end">> \in Seq(LabelName) /\ Len(<<"then", "end">>) = 2
  <1>1. /\ "then" \in LabelName /\ "end" \in LabelName /\ "else" \in LabelName
        /\ "while_start" \in LabelName /\ "while_body" \in LabelName /\ "while_end" \in LabelName
    BY DEF LabelName
  <1>2. /\ \A a, b, c \in LabelName : <<a, b, c>> \in Seq(LabelName) /\ Len(<<a, b, c>>) = 3
        /\ \A a, b \in LabelName : <<a, b>> \in Seq(LabelName) /\ Len(<<a, b>>) = 2
    BY SequencesOf
  <1> QED
    BY <1>1, <1>2, Zenon DEF WhileLabels

\* Three new labels are paid one after the other.
LEMMA Paid ==
    ASSUME NEW owed \in SUBSET Nat, NEW a \in Nat, NEW b \in Nat, NEW c \in Nat, NEW new,
           new = {a, b, c}, a # b, a # c, b # c, a \notin owed, b \notin owed, c \notin owed
    PROVE  /\ (owed \union new) \ {a} = owed \union {b, c}
           /\ (owed \union {b, c}) \ {b} = owed \union {c}
           /\ (owed \union {c}) \ {c} = owed
           /\ owed \union new \in SUBSET Nat
           /\ owed \union {b, c} \in SUBSET Nat
           /\ owed \union {c} \in SUBSET Nat
  OBVIOUS

LEMMA AbortedFields ==
    ASSUME NEW ast, NEW g \in Generator(ast)
    PROVE  LET a == Aborted(g)
           IN  /\ a \in Generator(ast) /\ a.end = "aborted"
               /\ a.vars = g.vars /\ a.labels = g.labels /\ a.scope = g.scope
               /\ a.result = g.result /\ a.code = g.code
  BY DEF Aborted, Generator, End

LEMMA VisitWhileWorks ==
    ASSUME NEW ast, Built(ast), NEW below, Visiting(ast, below), NEW g, Good(ast, g),
           NEW i \in DOMAIN ast.heap, ast.heap[i].kind = "WHILE"
    PROVE  Works(ast, g, VisitWhile(below, g, ast, i))
  <1> DEFINE start   == Len(g.labels)
             body    == Len(g.labels) + 1
             end     == Len(g.labels) + 2
             named   == NewLabels(g, WhileLabels)
             started == Emit(named, Place(start))
             do      == Branch(below, started, ast, i, body, end)
             back    == Emit(do, Jump(start))
             ended   == Emit(back, Place(end))
             h       == Returns(ended, UNIT)
             new     == start .. start + 3 - 1
  <1>1. Len(ast.heap[i].edges) >= 2
    <2>1. Arity(ast.heap[i])
      BY NodeParts
    <2>2. Len(ast.heap[i].edges) = 2
      BY <2>1 DEF Arity
    <2> QED
      BY <2>2
  <1>2. start \in Nat /\ new = {start, body, end} /\ new \subseteq Nat
    BY ResultsAreNumbers
  <1>3. WhileLabels \in Seq(LabelName) /\ Len(WhileLabels) = 3
    BY LabelNames, Zenon
  <1>4. Onward(ast, g, named) /\ Len(named.labels) = start + 3 /\ named.end = g.end
    BY <1>3, NewLabelsOnward
  <1>5. Good(ast, named) /\ new \subseteq Labels(named)
    BY <1>2, <1>4 DEF Onward, Labels
  <1>6. \A owed : Owing(g, owed) => Owing(named, owed \union new)
    BY <1>3, LabelsAdded, ResultsAreNumbers
  <1> HIDE DEF named
  <1>7. /\ Onward(ast, named, started) /\ started.labels = named.labels
        /\ \A owed : Owing(named, owed) /\ start \in owed => Owing(started, owed \ {start})
    BY <1>2, <1>5, PlaceOnward
  <1>8. Good(ast, started) /\ new \subseteq Labels(started)
    BY <1>5, <1>7 DEF Onward, Labels
  <1> HIDE DEF started
  <1>9. /\ Onward(ast, started, do)
        /\ \A owed \in SUBSET Nat : body \in owed => Pays(ast, started, do, owed, owed \ {body})
    BY <1>1, <1>2, <1>8, BranchPays
  <1>10. Good(ast, do) /\ new \subseteq Labels(do)
    <2>1. Good(ast, do) /\ Len(started.labels) <= Len(do.labels)
      BY <1>9 DEF Onward
    <2>2. Len(started.labels) \in Nat /\ Len(do.labels) \in Nat
      BY <1>8, <2>1, ResultsAreNumbers
    <2> QED
      BY <1>8, <2>1, <2>2 DEF Labels
  <1> HIDE DEF do
  <1>11. Works(ast, do, back) /\ back.labels = do.labels
    BY <1>2, <1>10, JumpWorks
  <1>12. Good(ast, back) /\ new \subseteq Labels(back)
    BY <1>10, <1>11, WorksGood DEF Labels
  <1> HIDE DEF back
  <1>13. /\ Onward(ast, back, ended)
         /\ \A owed : Owing(back, owed) /\ end \in owed => Owing(ended, owed \ {end})
    BY <1>2, <1>12, PlaceOnward
  <1>14. Good(ast, ended)
    BY <1>13 DEF Onward
  <1> HIDE DEF ended
  <1>15. Works(ast, ended, h)
    BY <1>14, ResultsAreNumbers, ReturnsOnward DEF Works
  <1> HIDE DEF h
  <1>16. Onward(ast, g, h)
    BY <1>4, <1>5, <1>7, <1>8, <1>9, <1>10, <1>11, <1>12, <1>13, <1>14, <1>15, OnwardTrans DEF Works
  <1>17. ASSUME h.end = "ok", WithElse(ast), NEW owed \in SUBSET Nat, Owing(g, owed)
         PROVE  Owing(h, owed)
    <2>1. ended.end = "ok" /\ back.end = "ok" /\ do.end = "ok"
      BY <1>17, <1>11, <1>13, <1>15 DEF Works, Onward
    <2>2. owed \intersect new = {}
      BY <1>2, <1>17 DEF Owing, Labels
    <2>3. Owing(started, (owed \union new) \ {start})
      BY <1>2, <1>6, <1>7, <1>17
    <2>10. /\ (owed \union new) \ {start} = owed \union {body, end}
           /\ (owed \union {body, end}) \ {body} = owed \union {end}
           /\ (owed \union {end}) \ {end} = owed
           /\ owed \union {body, end} \in SUBSET Nat
           /\ owed \union {end} \in SUBSET Nat
      <3>1. /\ start \in Nat /\ body \in Nat /\ end \in Nat
            /\ start # body /\ start # end /\ body # end
            /\ start \notin owed /\ body \notin owed /\ end \notin owed
        BY <1>2, <2>2
      <3> HIDE DEF start, body, end, new
      <3> QED
        BY <1>2, <3>1 
    <2>4. (owed \union new) \ {start} = owed \union {body, end}
      BY <2>10
    <2>5. Owing(do, (owed \union {body, end}) \ {body})
      <3>1. owed \union {body, end} \in SUBSET Nat /\ body \in owed \union {body, end}
        BY <2>10
      <3> HIDE DEF body, end, new, start
      <3> QED
        BY <1>9, <1>17, <2>1, <2>3, <2>4, <3>1 DEF Pays
    <2>6. (owed \union {body, end}) \ {body} = owed \union {end} /\ owed \union {end} \in SUBSET Nat
      BY <2>10
    <2>7. Owing(back, owed \union {end})
      BY <1>11, <1>17, <2>1, <2>5, <2>6 DEF Works, Settled
    <2>8. Owing(ended, (owed \union {end}) \ {end})
      BY <1>13, <2>7
    <2>9. (owed \union {end}) \ {end} = owed
      BY <2>10
    <2> QED
      BY <1>15, <1>17, <2>8, <2>9 DEF Works, Settled
  <1> QED
    BY <1>16, <1>17 DEF Works, Settled, VisitWhile, named, started, do, back, ended, h

LEMMA VisitIfThenElseWorks ==
    ASSUME NEW ast, Built(ast), NEW below, Visiting(ast, below), NEW g, Good(ast, g),
           NEW i \in DOMAIN ast.heap, Len(ast.heap[i].edges) = 3
    PROVE  Works(ast, g, VisitIfThenElse(below, g, ast, i))
  <1> DEFINE then   == Len(g.labels)
             end    == Len(g.labels) + 1
             else   == Len(g.labels) + 2
             names  == <<"then", "end", "else">>
             named  == NewLabels(g, names)
             yes    == Branch(below, named, ast, i, then, else)
             var    == UniqueVar(yes, yes.vars[yes.result + 1].type)
             copied == Emit(var, Copy(yes.result, var.result))
             left   == Emit(copied, Jump(end))
             other  == Emit(left, Place(else))
             no     == below[Edge(ast, i, 3)][other]
             same   == Emit(no, Copy(no.result, var.result))
             out    == Emit(same, Jump(end))
             ended  == Emit(out, Place(end))
             h      == Returns(ended, var.result)
             new    == then .. then + 3 - 1
  <1> HIDE DEF named, yes, var, copied, left, other, no, same, out, ended, h
  <1>1. Len(ast.heap[i].edges) >= 2 /\ Edge(ast, i, 3) \in 0 .. Len(ast.heap)
    <2>1. \A k \in 1 .. Len(ast.heap[i].edges) : Edge(ast, i, k) \in 0 .. Len(ast.heap)
      BY NodeParts
    <2>2. Len(ast.heap[i].edges) >= 2 /\ 3 \in 1 .. Len(ast.heap[i].edges)
      OBVIOUS
    <2> QED
      BY <2>1, <2>2
  <1>2. then \in Nat /\ new = {then, else, end} /\ new \subseteq Nat
    BY ResultsAreNumbers
  <1>3. names \in Seq(LabelName) /\ Len(names) = 3
    BY LabelNames, Zenon
  <1> HIDE DEF names
  <1>4. Onward(ast, g, named) /\ Len(named.labels) = then + 3 /\ named.end = g.end
    BY <1>3, NewLabelsOnward DEF named
  <1>5. Good(ast, named) /\ new \subseteq Labels(named)
    BY <1>2, <1>4 DEF Onward, Labels
  <1>6. \A owed : Owing(g, owed) => Owing(named, owed \union new)
    BY <1>3, LabelsAdded, ResultsAreNumbers DEF named
  <1>7. /\ Onward(ast, named, yes)
        /\ \A owed \in SUBSET Nat : then \in owed => Pays(ast, named, yes, owed, owed \ {then})
    BY <1>1, <1>2, <1>5, BranchPays DEF yes
  <1>8. Good(ast, yes) /\ new \subseteq Labels(yes)
    <2>1. Good(ast, yes) /\ Len(named.labels) <= Len(yes.labels)
      BY <1>7 DEF Onward
    <2>2. Len(named.labels) \in Nat /\ Len(yes.labels) \in Nat
      BY <1>5, <2>1, ResultsAreNumbers
    <2> QED
      BY <1>5, <2>1, <2>2 DEF Labels
  <1>9. CASE yes.end # "ok"
    <2>1. VisitIfThenElse(below, g, ast, i) = yes
      BY <1>9 DEF VisitIfThenElse, yes, named, names
    <2>2. Works(ast, g, yes)
      BY <1>4, <1>5, <1>7, <1>9, OnwardTrans DEF Works, Settled
    <2> QED
      BY <2>1, <2>2
  <1>10. CASE yes.end = "ok" /\ yes.result < 0
    <2>1. VisitIfThenElse(below, g, ast, i) = Aborted(yes)
      BY <1>10 DEF VisitIfThenElse, yes, named, names
    <2>2. yes \in Generator(ast)
      BY <1>8 DEF Good
    <2> DEFINE a == Aborted(yes)
    <2>3. /\ a \in Generator(ast) /\ a.end = "aborted"
          /\ a.vars = yes.vars /\ a.labels = yes.labels /\ a.scope = yes.scope
          /\ a.result = yes.result /\ a.code = yes.code
      BY <2>2, AbortedFields
    <2> HIDE DEF a
    <2>4. Results(a) = Results(yes) /\ Made(a) = Made(yes)
      BY <2>3 DEF Results, Made
    <2>5. Good(ast, a)
      BY <1>8, <2>3, <2>4 DEF Good, Named
    <2>6. Onward(ast, yes, a) /\ Settled(ast, g, a)
      BY <1>8, <2>3, <2>5, ResultsAreNumbers DEF Onward, Settled
    <2>7. Onward(ast, g, a)
      BY <1>4, <1>5, <1>7, <1>8, <2>6, OnwardTrans
    <2> QED
      BY <2>1, <2>6, <2>7 DEF Works, a
  <1>11. CASE yes.end = "ok" /\ ~(yes.result < 0)
    <2>1. VisitIfThenElse(below, g, ast, i) = h
      BY <1>11 DEF VisitIfThenElse, yes, named, names, var, copied, left, other, no, same, out, ended, h
    <2>2. yes.vars[yes.result + 1].type \in Types(ast)
      <3>1. /\ yes.vars \in Seq([name : Names(ast), type : Types(ast)])
            /\ yes.result \in Results(yes) /\ Len(yes.vars) \in Nat
        BY <1>8, GeneratorType DEF Good
      <3>2. yes.result + 1 \in 1 .. Len(yes.vars)
        BY <1>11, <3>1 DEF Results, Made, INVALID, UNIT
      <3>3. yes.vars[yes.result + 1] \in [name : Names(ast), type : Types(ast)]
        <4> DEFINE R == [name : Names(ast), type : Types(ast)]
        <4>1. yes.vars \in Seq(R) /\ yes.result + 1 \in 1 .. Len(yes.vars)
          BY <3>1, <3>2
        <4> HIDE DEF R
        <4>2. yes.vars[yes.result + 1] \in R
          BY <4>1
        <4> QED
          BY <4>2 DEF R
      <3> QED
        BY <3>3
    <2>3. Works(ast, yes, var) /\ var.result \in Made(var) /\ var.labels = yes.labels
      <3> DEFINE t == yes.vars[yes.result + 1].type
      <3>1. "<ir_var>" \in Names(ast) /\ t \in Types(ast)
        BY <2>2 DEF Names
      <3>2. var = NewVar(yes, "<ir_var>", t)
        BY DEF var, UniqueVar
      <3> HIDE DEF t
      <3> QED
        BY <1>8, <3>1, <3>2, NewVarOnward DEF Works
    <2>4. Good(ast, var) /\ yes.result \in Results(var) /\ var.result \in Results(var)
          /\ var.result \in Int
      BY <1>8, <2>3, WorksGood, OnwardResults, ResultsAreNumbers DEF Works
    <2>5. new \subseteq Labels(var)
      BY <1>8, <2>3 DEF Labels
    <2>6. Works(ast, var, copied) /\ copied.labels = var.labels
      <3>1. Copy(yes.result, var.result) \in Instruction(ast)
        BY <1>8, <2>4, InstructionTypes, ResultsAreNumbers
      <3>2. copied.labels = var.labels
        BY <2>4, <3>1, EmitFields DEF Good, copied
      <3> QED
        BY <2>3, <2>4, <3>2, CopyWorks DEF copied
    <2>7. Good(ast, copied) /\ new \subseteq Labels(copied)
      BY <2>5, <2>6, WorksGood DEF Labels
    <2>8. Works(ast, copied, left) /\ left.labels = copied.labels
      BY <1>2, <2>7, JumpWorks DEF left
    <2>9. Good(ast, left) /\ new \subseteq Labels(left)
      BY <2>7, <2>8, WorksGood DEF Labels
    <2>10. /\ Onward(ast, left, other) /\ other.labels = left.labels
           /\ \A owed : Owing(left, owed) /\ else \in owed => Owing(other, owed \ {else})
      BY <1>2, <2>9, PlaceOnward DEF other
    <2>11. Good(ast, other) /\ new \subseteq Labels(other) /\ other \in Generator(ast)
      BY <2>9, <2>10 DEF Onward, Good, Labels
    <2>12. Works(ast, other, no)
      BY <1>1, <2>11 DEF Visiting, Works, no
    <2>13. Good(ast, no) /\ new \subseteq Labels(no)
      <3>1. Good(ast, no) /\ Len(other.labels) <= Len(no.labels)
        BY <2>12 DEF Onward, Works
      <3>2. Len(other.labels) \in Nat /\ Len(no.labels) \in Nat
        BY <2>11, <3>1, ResultsAreNumbers
      <3> QED
        BY <2>11, <3>1, <3>2 DEF Labels
    <2>14. Onward(ast, var, no)
      BY <2>4, <2>6, <2>7, <2>8, <2>9, <2>10, <2>11, <2>12, OnwardTrans DEF Works
    <2>15. var.result \in Made(no) /\ var.result \in Results(no) /\ no.result \in Results(no)
      BY <2>3, <2>4, <2>13, <2>14, OnwardResults, ResultsAreNumbers
    <2>16. Works(ast, no, same) /\ same.labels = no.labels
      <3>1. Copy(no.result, var.result) \in Instruction(ast)
        BY <2>13, <2>15, InstructionTypes, ResultsAreNumbers
      <3>2. same.labels = no.labels
        BY <2>13, <3>1, EmitFields DEF Good, same
      <3> QED
        BY <2>13, <2>15, <3>2, CopyWorks DEF same
    <2>17. Good(ast, same) /\ new \subseteq Labels(same)
      BY <2>13, <2>16, WorksGood DEF Labels
    <2>18. Works(ast, same, out) /\ out.labels = same.labels
      BY <1>2, <2>17, JumpWorks DEF out
    <2>19. Good(ast, out) /\ new \subseteq Labels(out)
      BY <2>17, <2>18, WorksGood DEF Labels
    <2>20. /\ Onward(ast, out, ended)
           /\ \A owed : Owing(out, owed) /\ end \in owed => Owing(ended, owed \ {end})
      BY <1>2, <2>19, PlaceOnward DEF ended
    <2>21. Good(ast, ended)
      BY <2>20 DEF Onward
    <2>22. Onward(ast, var, ended)
      BY <2>4, <2>13, <2>14, <2>16, <2>17, <2>18, <2>19, <2>20, OnwardTrans DEF Works
    <2>23. Works(ast, ended, h)
      <3>1. var.result \in Results(ended)
        BY <2>4, <2>22, OnwardResults
      <3> QED
        BY <2>21, <3>1, ReturnsOnward DEF Works, h
    <2>24. Onward(ast, g, h)
      BY <1>4, <1>5, <1>7, <1>8, <2>3, <2>4, <2>21, <2>22, <2>23, OnwardTrans DEF Works
    <2>25. ASSUME h.end = "ok", WithElse(ast), NEW owed \in SUBSET Nat, Owing(g, owed)
           PROVE  Owing(h, owed)
      <3>1. ended.end = "ok" /\ out.end = "ok" /\ same.end = "ok" /\ no.end = "ok"
        BY <2>25, <2>16, <2>18, <2>20, <2>23 DEF Works, Onward
      <3>2. other.end = "ok" /\ left.end = "ok" /\ copied.end = "ok" /\ var.end = "ok"
        BY <3>1, <2>6, <2>8, <2>10, <2>12 DEF Works, Onward
      <3>3. owed \intersect new = {}
        BY <1>2, <2>25 DEF Owing, Labels
      <3>12. /\ (owed \union new) \ {then} = owed \union {else, end}
             /\ (owed \union {else, end}) \ {else} = owed \union {end}
             /\ (owed \union {end}) \ {end} = owed
             /\ owed \union {else, end} \in SUBSET Nat
             /\ owed \union {end} \in SUBSET Nat
             /\ owed \union new \in SUBSET Nat /\ then \in owed \union new
        <4>1. /\ then \in Nat /\ else \in Nat /\ end \in Nat
              /\ then # else /\ then # end /\ else # end
              /\ then \notin owed /\ else \notin owed /\ end \notin owed
          BY <1>2, <3>3
        <4> HIDE DEF then, else, end, new
        <4> QED
          BY <1>2, <4>1
      <3>4. Owing(yes, (owed \union new) \ {then})
        BY <1>6, <1>7, <1>11, <2>25, <3>12 DEF Pays
      <3>5. (owed \union new) \ {then} = owed \union {else, end} /\ owed \union {else, end} \in SUBSET Nat
        BY <3>12
      <3>6. Owing(left, owed \union {else, end})
        BY <2>3, <2>6, <2>8, <2>25, <3>2, <3>4, <3>5 DEF Works, Settled
      <3>7. Owing(other, (owed \union {else, end}) \ {else})
        BY <2>10, <3>6
      <3>8. (owed \union {else, end}) \ {else} = owed \union {end} /\ owed \union {end} \in SUBSET Nat
        BY <3>12
      <3>9. Owing(out, owed \union {end})
        BY <2>12, <2>16, <2>18, <2>25, <3>1, <3>7, <3>8 DEF Works, Settled
      <3>10. Owing(ended, (owed \union {end}) \ {end})
        BY <2>20, <3>9
      <3>11. (owed \union {end}) \ {end} = owed
        BY <3>12
      <3> QED
        BY <2>23, <2>25, <3>10, <3>11 DEF Works, Settled
    <2> QED
      BY <2>1, <2>24, <2>25 DEF Works, Settled
  <1> QED
    BY <1>9, <1>10, <1>11

\* An if without an else, where it is not asked what becomes of the labels.
LEMMA VisitIfThenWorks ==
    ASSUME NEW ast, Built(ast), NEW below, Visiting(ast, below), NEW g, Good(ast, g),
           NEW i \in DOMAIN ast.heap, ast.heap[i].kind = "IF_THEN_ELSE", Len(ast.heap[i].edges) = 2
    PROVE  Works(ast, g, VisitIfThen(below, g, ast, i))
  <1> DEFINE then  == Len(g.labels)
             end   == Len(g.labels) + 1
             names == <<"then", "end">>
             named == NewLabels(g, names)
             yes   == Branch(below, named, ast, i, then, end)
             left  == Emit(yes, Jump(end))
             ended == Emit(left, Place(then))
             h     == Returns(ended, UNIT)
  <1> HIDE DEF named, yes, left, ended, h
  <1>1. Len(ast.heap[i].edges) >= 2
    OBVIOUS
  <1>2. then \in Nat
    BY ResultsAreNumbers
  <1>3. names \in Seq(LabelName) /\ Len(names) = 2
    BY LabelNames, Zenon
  <1> HIDE DEF names
  <1>4. Onward(ast, g, named) /\ Len(named.labels) = then + 2
    BY <1>3, NewLabelsOnward DEF named
  <1>5. Good(ast, named) /\ then \in Labels(named) /\ end \in Labels(named)
    BY <1>2, <1>4 DEF Onward, Labels
  <1>6. Onward(ast, named, yes)
    BY <1>1, <1>5, BranchPays DEF yes
  <1>7. Good(ast, yes) /\ then \in Labels(yes) /\ end \in Labels(yes)
    <2>1. Good(ast, yes) /\ Len(named.labels) <= Len(yes.labels)
      BY <1>6 DEF Onward
    <2>2. Len(yes.labels) \in Nat
      BY <2>1, ResultsAreNumbers
    <2> QED
      BY <1>2, <1>4, <2>1, <2>2 DEF Labels
  <1>8. Onward(ast, yes, left) /\ left.labels = yes.labels
    BY <1>7, JumpWorks DEF Works, left
  <1>9. Good(ast, left) /\ then \in Labels(left)
    BY <1>7, <1>8 DEF Onward, Labels
  <1>10. Onward(ast, left, ended)
    BY <1>9, PlaceOnward DEF ended
  <1>11. Good(ast, ended)
    BY <1>10 DEF Onward
  <1>12. Onward(ast, ended, h)
    BY <1>11, ResultsAreNumbers, ReturnsOnward DEF h
  <1>13. Onward(ast, g, h)
    BY <1>4, <1>5, <1>6, <1>7, <1>8, <1>9, <1>10, <1>11, <1>12, OnwardTrans
  <1>14. Settled(ast, g, h)
    BY DEF Settled, WithElse
  <1> QED
    BY <1>13, <1>14 DEF Works, VisitIfThen, named, names, yes, left, ended, h

-----------------------------------------------------------------------------
(* All visits.                                                             *)

LEMMA StoppedWorks ==
    ASSUME NEW ast, NEW g, Good(ast, g), NEW how \in End \ {"ok"}
    PROVE  Works(ast, g, [g EXCEPT !.end = how])
  <1> DEFINE h == [g EXCEPT !.end = how]
  <1>1. g \in Generator(ast) /\ how \in End
    BY DEF Good
  <1>2. /\ h \in Generator(ast) /\ h.end = how
        /\ h.vars = g.vars /\ h.labels = g.labels /\ h.scope = g.scope
        /\ h.result = g.result /\ h.code = g.code
    BY <1>1 DEF Generator
  <1> HIDE DEF h
  <1>3. Results(h) = Results(g) /\ Made(h) = Made(g) /\ h.end # "ok"
    BY <1>2 DEF Results, Made
  <1>4. Good(ast, h)
    BY <1>2, <1>3 DEF Good, Named
  <1> QED
    BY <1>2, <1>3, <1>4, ResultsAreNumbers DEF Onward, Settled, Works, h

LEMMA VisitNodeWorks ==
    ASSUME NEW ast, Built(ast), NEW below, Visiting(ast, below), NEW g, Good(ast, g),
           NEW i \in 0 .. Len(ast.heap)
    PROVE  Works(ast, g, VisitNode(below, g, ast, i))
  <1> DEFINE kind == ast.heap[i].kind
             word == WordOf(ast, i)
             size == Len(ast.heap[i].edges)
             h    == VisitNode(below, g, ast, i)
  <1>1. CASE i = NullAst
    <2>1. h = [g EXCEPT !.end = "undefined"]
      BY <1>1 DEF VisitNode
    <2>2. "undefined" \in End \ {"ok"}
      BY DEF End
    <2> QED
      BY <2>1, <2>2, StoppedWorks
  <1>2. CASE i # NullAst
    <2>1. i \in DOMAIN ast.heap
      BY <1>2 DEF Built, NullAst
    <2>2. word \in Names(ast) /\ Arity(ast.heap[i])
      BY <2>1, NodeParts
    <2>4. \A var \in Results(g) : Works(ast, g, Returns(g, var))
      BY ReturnsOnward DEF Works
    <2>5. Lookup(g, word) \in Results(g)
      BY LookupMade
    <2>6. UNIT \in Results(g) /\ INVALID \in Results(g)
      BY ResultsAreNumbers
    <2>7. CASE kind = "BINARY_OP"
      <3>1. ast.types[i] \in Types(ast)
        BY <2>1, NodeParts
      <3> QED
        BY <1>2, <2>1, <2>2, <2>7, <3>1, VisitOperatorWorks DEF VisitNode
    <2>8. CASE kind = "UNARY_OP"
      <3>1. UnaryName(word) \in Names(ast) /\ "Unit" \in Types(ast)
        BY DEF UnaryName, Names, Types
      <3> QED
        BY <1>2, <2>1, <2>8, <3>1, VisitOperatorWorks DEF VisitNode
    <2>9. CASE kind = "LITERAL"
      BY <1>2, <2>1, <2>9, VisitLiteralWorks DEF VisitNode
    <2>10. CASE kind = "IDENTIFIER"
      BY <1>2, <2>4, <2>5, <2>10 DEF VisitNode
    <2>11. CASE kind = "FUNCTION_CALL"
      BY <1>2, <2>1, <2>11, VisitCallWorks DEF VisitNode
    <2>12. CASE kind = "UNIT"
      BY <1>2, <2>4, <2>6, <2>12 DEF VisitNode
    <2>13. CASE kind = "BLOCK"
      BY <1>2, <2>1, <2>13, VisitBlockWorks DEF VisitNode
    <2>14. CASE kind = "WHILE"
      BY <1>2, <2>1, <2>14, VisitWhileWorks DEF VisitNode
    <2>15. CASE kind = "VAR_EXPR"
      BY <1>2, <2>1, <2>15, VisitVarWorks DEF VisitNode
    <2>3. CASE kind = "IF_THEN_ELSE" /\ size = 2
      <3>1. h = VisitIfThen(below, g, ast, i)
        BY <1>2, <2>3 DEF VisitNode
      <3> QED
        BY <2>1, <2>3, <3>1, VisitIfThenWorks
    <2>16. CASE kind = "IF_THEN_ELSE" /\ size # 2
      <3>1. size = 3
        BY <2>2, <2>16 DEF Arity
      <3>2. h = VisitIfThenElse(below, g, ast, i)
        BY <1>2, <2>16, <3>1 DEF VisitNode
      <3> QED
        BY <2>1, <3>1, <3>2, VisitIfThenElseWorks
    <2>17. CASE kind \notin {"BINARY_OP", "UNARY_OP", "LITERAL", "IDENTIFIER", "FUNCTION_CALL",
                             "UNIT", "BLOCK", "WHILE", "VAR_EXPR", "IF_THEN_ELSE"}
      <3>1. h = Returns(g, INVALID)
        BY <1>2, <2>17 DEF VisitNode
      <3> QED
        BY <2>4, <2>6, <3>1
    <2> QED
      BY <2>3, <2>7, <2>8, <2>9, <2>10, <2>11, <2>12, <2>13, <2>14, <2>15, <2>16, <2>17
  <1> QED
    BY <1>1, <1>2

LEMMA TooDeepVisiting ==
    ASSUME NEW ast
    PROVE  Visiting(ast, TooDeep(ast))
  <1> SUFFICES ASSUME NEW i \in 0 .. Len(ast.heap), NEW g \in Generator(ast), Good(ast, g)
               PROVE  Works(ast, g, TooDeep(ast)[i][g])
    BY DEF Visiting, Works
  <1>1. TooDeep(ast)[i][g] = [g EXCEPT !.end = "undefined"]
    BY DEF TooDeep
  <1>2. "undefined" \in End \ {"ok"}
    BY DEF End
  <1> QED
    BY <1>1, <1>2, StoppedWorks

LEMMA VisitsVisiting ==
    ASSUME NEW ast, Built(ast), NEW below, Visiting(ast, below)
    PROVE  Visiting(ast, Visits(below, ast))
  <1> SUFFICES ASSUME NEW i \in 0 .. Len(ast.heap), NEW g \in Generator(ast), Good(ast, g)
               PROVE  Works(ast, g, Visits(below, ast)[i][g])
    BY DEF Visiting, Works
  <1>1. Visits(below, ast)[i][g] = IF g.end # "ok" THEN g ELSE VisitNode(below, g, ast, i)
    BY DEF Visits
  <1> QED
    BY <1>1, VisitNodeWorks, OnwardSelf DEF Works

\* The visits by how deep they may nest, as Visit has them.
Deepening(v, ast, depth) ==
    v = [d \in 0 .. depth |-> IF d = 0 THEN TooDeep(ast) ELSE Visits(v[d - 1], ast)]

\* The recursive function the visits are taken from exists.
LEMMA DeepeningExists ==
    ASSUME NEW ast, NEW depth \in Nat
    PROVE  \E v : Deepening(v, ast, depth)
  <1> DEFINE Bad == {n \in Nat : ~ \E v : Deepening(v, ast, n)}
  <1>1. ASSUME Bad # {} PROVE FALSE
    <2>1. PICK n \in Bad : \A m \in Bad : n <= m
      BY <1>1, SmallestNumber
    <2>2. n \in Nat
      OBVIOUS
    <2>3. CASE n = 0
      <3> DEFINE v == [d \in 0 .. 0 |-> TooDeep(ast)]
      <3>1. v = [d \in 0 .. 0 |-> v[d]] /\ \A d \in 0 .. 0 : d = 0 /\ v[d] = TooDeep(ast)
        OBVIOUS
      <3> HIDE DEF v
      <3>2. Deepening(v, ast, 0)
        BY <3>1 DEF Deepening
      <3> QED
        BY <2>1, <2>3, <3>2
    <2>4. CASE n # 0
      <3>1. n - 1 \in Nat /\ n - 1 \notin Bad
        BY <2>1, <2>2, <2>4
      <3>2. PICK v : Deepening(v, ast, n - 1)
        BY <3>1
      <3> DEFINE t == [d \in 0 .. n |-> IF d = n THEN Visits(v[n - 1], ast) ELSE v[d]]
      <3>3. \A d \in 0 .. n : t[d] = IF d = n THEN Visits(v[n - 1], ast) ELSE v[d]
        OBVIOUS
      <3>4. t = [d \in 0 .. n |-> t[d]]
        OBVIOUS
      <3> HIDE DEF t
      <3>5. ASSUME NEW d \in 0 .. n
            PROVE  t[d] = IF d = 0 THEN TooDeep(ast) ELSE Visits(t[d - 1], ast)
        <4>1. CASE d = n
          <5>1. n - 1 \in 0 .. n /\ n - 1 # n
            BY <2>2, <2>4
          <5>2. t[n - 1] = v[n - 1]
            BY <3>3, <5>1
          <5> QED
            BY <4>1, <2>4, <3>3, <5>2
        <4>2. CASE d # n
          <5>1. d \in 0 .. n - 1 /\ (d # 0 => d - 1 \in 0 .. n - 1)
            BY <4>2, <2>2
          <5>2. v[d] = IF d = 0 THEN TooDeep(ast) ELSE Visits(v[d - 1], ast)
            BY <5>1, <3>2 DEF Deepening
          <5>3. t[d] = v[d]
            BY <4>2, <3>3
          <5>4. d # 0 => t[d - 1] = v[d - 1]
            BY <5>1, <2>2, <3>3
          <5> QED
            BY <5>2, <5>3, <5>4
        <4> QED
          BY <4>1, <4>2
      <3>6. Deepening(t, ast, n)
        BY <3>4, <3>5 DEF Deepening
      <3> QED
        BY <2>1, <3>6
    <2> QED
      BY <2>3, <2>4
  <1> QED
    BY <1>1

\* However deep the visits may nest.
LEMMA VisitVisiting ==
    ASSUME NEW ast, Built(ast)
    PROVE  Visiting(ast, Visit(ast))
  <1> DEFINE v == CHOOSE v : Deepening(v, ast, MaxDepth)
  <1>1. Deepening(v, ast, MaxDepth)
    BY DepthAssumption, DeepeningExists
  <1>2. Visit(ast) = v[MaxDepth]
    BY DEF Visit, Deepening
  <1> HIDE DEF v
  <1> DEFINE Bad == {n \in Nat : n \in 0 .. MaxDepth /\ ~Visiting(ast, v[n])}
  <1>3. ASSUME Bad # {} PROVE FALSE
    <2>1. PICK n \in Bad : \A m \in Bad : n <= m
      BY <1>3, SmallestNumber
    <2>2. v[n] = IF n = 0 THEN TooDeep(ast) ELSE Visits(v[n - 1], ast)
      BY <1>1, <2>1 DEF Deepening
    <2>3. n # 0 => n - 1 \in 0 .. MaxDepth /\ n - 1 \notin Bad
      BY <2>1, DepthAssumption
    <2>4. n # 0 => Visiting(ast, v[n - 1])
      BY <2>3
    <2> QED
      BY <2>1, <2>2, <2>4, TooDeepVisiting, VisitsVisiting
  <1>4. MaxDepth \notin Bad /\ MaxDepth \in 0 .. MaxDepth
    BY <1>3, DepthAssumption
  <1> QED
    BY <1>2, <1>4, DepthAssumption

LEMMA BeginGood ==
    ASSUME NEW ast
    PROVE  LET names == Enter(Enter(<<>>, "print_int", 0), "print_bool", 1)
               g     == Begin(<<>>, Globals, names, UNIT)
           IN  Good(ast, g) /\ g.end = "ok" /\ Owing(g, {})
  <1> DEFINE Entry == [name : Names(ast), value : Int]
             Variables   == [name : Names(ast), type : Types(ast)]
             names == Enter(Enter(<<>>, "print_int", 0), "print_bool", 1)
             g     == Begin(<<>>, Globals, names, UNIT)
  <1>1. <<>> \in Seq(Entry) /\ <<>> \in Seq(Instruction(ast)) /\ <<>> \in Seq(LabelName)
    OBVIOUS
  <1>2. /\ [name |-> "print_int", value |-> 0] \in Entry
        /\ [name |-> "print_bool", value |-> 1] \in Entry
        /\ [name |-> "print_int", type |-> "Int"] \in Variables
        /\ [name |-> "print_bool", type |-> "Bool"] \in Variables
    BY DEF Names, Types
  <1>3. names \in Seq(Entry) /\ \A k \in DOMAIN names : names[k].value \in {0, 1}
    <2> DEFINE a == [name |-> "print_int", value |-> 0]
               b == [name |-> "print_bool", value |-> 1]
    <2>1. a \in Entry /\ b \in Entry /\ a.value = 0 /\ b.value = 1
      BY <1>2
    <2>2. names = Append(Append(<<>>, a), b)
      BY DEF Enter
    <2> HIDE DEF a, b, Entry, names
    <2>3. /\ names \in Seq(Entry) /\ DOMAIN names = 1 .. 2
          /\ names[1] = a /\ names[2] = b
      BY <2>1, <2>2, <1>1
    <2> QED
      BY <2>1, <2>3
  <1>4. Globals \in Seq(Variables) /\ Len(Globals) = 2
    <2> HIDE DEF Variables
    <2>1. \A a, b \in Variables : <<a, b>> \in Seq(Variables) /\ Len(<<a, b>>) = 2
      BY SequencesOf
    <2> QED
      BY <1>2, <2>1, Zenon DEF Globals
  <1> HIDE DEF names
  <1>5. g \in Generator(ast)
    BY <1>1, <1>3, <1>4 DEF Generator, Begin, End, UNIT
  <1>6. /\ g.code = <<>> /\ g.vars = Globals /\ g.labels = <<>>
        /\ g.scope = names /\ g.result = UNIT /\ g.end = "ok"
    BY DEF Begin
  <1> HIDE DEF g
  <1>10. Len(g.vars) = 2 /\ Len(g.labels) = 0 /\ Len(g.code) = 0 /\ DOMAIN g.code = {}
    <2>1. Len(<<>>) = 0 /\ DOMAIN <<>> = {}
      OBVIOUS
    <2> QED
      BY <1>4, <1>6, <2>1, Zenon
  <1>7. Made(g) = 0 .. 1 /\ UNIT \in Results(g) /\ Labels(g) = {} /\ DOMAIN g.code = {}
    BY <1>10 DEF Made, Results, Labels
  <1>11. Named(g)
    BY <1>6, <1>10 DEF Named, Globals
  <1>8. Good(ast, g)
    BY <1>3, <1>5, <1>6, <1>7, <1>11 DEF Good
  <1>9. Owing(g, {})
    BY <1>7 DEF Owing
  <1> QED
    BY <1>6, <1>8, <1>9 DEF g, names

\* Of a tree as the parser builds it code is generated that names variables that
\* have been made and writes to new ones; with no if without an else, it has
\* every label once and all jumps go to labels (ir.c:569-631).
THEOREM LabelsLand ==
    ASSUME NEW ast, Built(ast)
    PROVE  LET g == Generate(ast)
           IN  Good(ast, g) /\ (g.end = "ok" /\ WithElse(ast) => Owing(g, {}))
  <1> DEFINE names == Enter(Enter(<<>>, "print_int", 0), "print_bool", 1)
             first == Begin(<<>>, Globals, names, UNIT)
             g     == Visit(ast)[ast.root][first]
             out   == Generate(ast)
  <1>1. Good(ast, first) /\ first.end = "ok" /\ Owing(first, {}) /\ ast.root \in 0 .. Len(ast.heap)
    BY BeginGood DEF Built
  <1> HIDE DEF first
  <1>2. Works(ast, first, g)
    BY <1>1, VisitVisiting DEF Visiting, Works, Good
  <1>3. Good(ast, g) /\ (g.end = "ok" /\ WithElse(ast) => Owing(g, {}))
    <2>1. {} \in SUBSET Nat
      OBVIOUS
    <2> QED
      BY <1>1, <1>2, <2>1 DEF Works, Settled, Onward
  <1>4. \/ out = g
        \/ \E fun \in {0, 1} : g.result > 0 /\ out = Emit(g, Call(fun, <<g.result>>, UNIT))
    <2> HIDE DEF g
    <2> DEFINE type == IF g.result > 0 THEN g.vars[g.result + 1].type ELSE "Unit"
    <2>1. out = IF g.end # "ok" THEN g
                ELSE CASE type = "Int"  -> Emit(g, Call(0, <<g.result>>, UNIT))
                       [] type = "Bool" -> Emit(g, Call(1, <<g.result>>, UNIT))
                       [] OTHER         -> g
      BY DEF Generate, g, first, names
    <2>2. type \in {"Int", "Bool"} => g.result > 0
      <3>1. "Unit" \notin {"Int", "Bool"}
        OBVIOUS
      <3> QED
        BY <3>1
    <2> HIDE DEF type, out
    <2> QED
      BY <2>1, <2>2
  <1> HIDE DEF g, out
  <1>5. ASSUME NEW fun \in {0, 1}, g.result > 0, out = Emit(g, Call(fun, <<g.result>>, UNIT))
        PROVE  Good(ast, out) /\ (out.end = "ok" /\ WithElse(ast) => Owing(out, {}))
    <2> DEFINE args == <<g.result>>
    <2>1. g.result \in Results(g) /\ g.result \in Int /\ UNIT \in Results(g) /\ Len(g.vars) \in Nat
      BY <1>3, ResultsAreNumbers
    <2>2. args \in Seq(Int) /\ {args[k] : k \in DOMAIN args} = {g.result}
      BY <2>1
    <2> HIDE DEF args
    <2>3. fun \in Results(g) /\ fun \in Int /\ UNIT \in Int
      BY <1>5, <2>1 DEF Results, Made, INVALID, UNIT
    <2> DEFINE i == Call(fun, args, UNIT)
    <2>4. /\ i \in Instruction(ast) /\ i.op = "CALL" /\ Targets(i) = {} /\ Fresh(i)
          /\ Operands(i) = {fun, UNIT} \union {args[k] : k \in DOMAIN args}
      BY <1>5, <2>2, <2>3, CallType
    <2> HIDE DEF i
    <2>5. Works(ast, g, Emit(g, i))
      BY <1>3, <2>1, <2>2, <2>3, <2>4, EmitOnward DEF Works
    <2>6. out = Emit(g, i)
      BY <1>5 DEF i, args
    <2>7. {} \in SUBSET Nat
      OBVIOUS
    <2> QED
      BY <1>3, <2>5, <2>6, <2>7 DEF Works, Settled, Onward
  <1> QED
    BY <1>3, <1>4, <1>5 DEF out

-----------------------------------------------------------------------------
(* Numbers. *)

\* The digits of a numeral up to one of its places, as Decimal reads them.
Figures(digits, n) ==
    {d \in 0 .. 9 : n <= Len(digits) /\ At(digits, n) = SubSeq("0123456789", d + 1, d + 1)}
ReadOn(digits, before, n) ==
    IF Figures(digits, n) = {} THEN before
    ELSE 10 * before + (CHOOSE d \in Figures(digits, n) : TRUE)
Reading(v, digits, size) ==
    v = [n \in 0 .. size |-> IF n = 0 THEN 0 ELSE ReadOn(digits, v[n - 1], n)]

LEMMA ReadOnIsInt ==
    ASSUME NEW digits, NEW before \in Int, NEW n
    PROVE  ReadOn(digits, before, n) \in Int
  <1> DEFINE digit == CHOOSE d \in Figures(digits, n) : TRUE
  <1>1. Figures(digits, n) # {} => digit \in Int
    <2>1. Figures(digits, n) \subseteq Int
      BY DEF Figures
    <2>2. Figures(digits, n) # {} => digit \in Figures(digits, n)
      OBVIOUS
    <2> QED
      BY <2>1, <2>2
  <1>2. ReadOn(digits, before, n) = IF Figures(digits, n) = {} THEN before ELSE 10 * before + digit
    BY DEF ReadOn
  <1> HIDE DEF digit
  <1>3. Figures(digits, n) # {} => 10 * before + digit \in Int
    BY <1>1
  <1> QED
    BY <1>2, <1>3

LEMMA NumeralExists ==
    ASSUME NEW digits, NEW size \in Nat
    PROVE  \E v : Reading(v, digits, size)
  <1> DEFINE Bad == {n \in Nat : ~ \E v : Reading(v, digits, n)}
  <1>1. ASSUME Bad # {} PROVE FALSE
    <2>1. PICK n \in Bad : \A m \in Bad : n <= m
      BY <1>1, SmallestNumber
    <2>2. n \in Nat
      OBVIOUS
    <2>3. CASE n = 0
      <3> DEFINE v == [d \in 0 .. 0 |-> 0]
      <3>1. v = [d \in 0 .. 0 |-> v[d]] /\ \A d \in 0 .. 0 : d = 0 /\ v[d] = 0
        OBVIOUS
      <3> HIDE DEF v
      <3>2. Reading(v, digits, 0)
        BY <3>1 DEF Reading
      <3> QED
        BY <2>1, <2>3, <3>2
    <2>4. CASE n # 0
      <3>1. n - 1 \in Nat /\ n - 1 \notin Bad
        BY <2>1, <2>2, <2>4
      <3>2. PICK v : Reading(v, digits, n - 1)
        BY <3>1
      <3> DEFINE t == [d \in 0 .. n |-> IF d = n THEN ReadOn(digits, v[n - 1], n) ELSE v[d]]
      <3>3. \A d \in 0 .. n : t[d] = IF d = n THEN ReadOn(digits, v[n - 1], n) ELSE v[d]
        OBVIOUS
      <3>4. t = [d \in 0 .. n |-> t[d]]
        OBVIOUS
      <3> HIDE DEF t
      <3>5. ASSUME NEW d \in 0 .. n
            PROVE  t[d] = IF d = 0 THEN 0 ELSE ReadOn(digits, t[d - 1], d)
        <4>1. CASE d = n
          <5>1. n - 1 \in 0 .. n /\ n - 1 # n
            BY <2>2, <2>4
          <5>2. t[n - 1] = v[n - 1]
            BY <3>3, <5>1
          <5> QED
            BY <4>1, <2>4, <3>3, <5>2
        <4>2. CASE d # n
          <5>1. d \in 0 .. n - 1 /\ (d # 0 => d - 1 \in 0 .. n - 1)
            BY <4>2, <2>2
          <5>2. v[d] = IF d = 0 THEN 0 ELSE ReadOn(digits, v[d - 1], d)
            BY <5>1, <3>2 DEF Reading
          <5>3. t[d] = v[d]
            BY <4>2, <3>3
          <5>4. d # 0 => t[d - 1] = v[d - 1]
            BY <5>1, <2>2, <3>3
          <5> QED
            BY <5>2, <5>3, <5>4
        <4> QED
          BY <4>1, <4>2
      <3>6. Reading(t, digits, n)
        BY <3>4, <3>5 DEF Reading
      <3> QED
        BY <2>1, <3>6
    <2> QED
      BY <2>3, <2>4
  <1> QED
    BY <1>1

\* Whatever is read as a number is one.
LEMMA DecimalIsInt ==
    ASSUME NEW digits
    PROVE  Decimal(digits) \in Int
  <1> DEFINE v == CHOOSE v : Reading(v, digits, MaxToken)
  <1>1. MaxToken \in Nat
    BY MaxTokenAssumption
  <1>2. Reading(v, digits, MaxToken)
    BY <1>1, NumeralExists
  <1>3. Decimal(digits) = v[MaxToken]
    BY DEF Decimal, Reading, ReadOn, Figures
  <1> HIDE DEF v
  <1> DEFINE Bad == {n \in Nat : n \in 0 .. MaxToken /\ v[n] \notin Int}
  <1>4. ASSUME Bad # {} PROVE FALSE
    <2>1. PICK n \in Bad : \A m \in Bad : n <= m
      BY <1>4, SmallestNumber
    <2>2. v[n] = IF n = 0 THEN 0 ELSE ReadOn(digits, v[n - 1], n)
      BY <1>2, <2>1 DEF Reading
    <2>3. n # 0 => n - 1 \in 0 .. MaxToken /\ n - 1 \notin Bad
      BY <1>1, <2>1
    <2>4. n # 0 => v[n - 1] \in Int
      BY <2>3
    <2> QED
      BY <2>1, <2>2, <2>4, ReadOnIsInt
  <1>5. MaxToken \notin Bad /\ MaxToken \in 0 .. MaxToken
    BY <1>1, <1>4
  <1> QED
    BY <1>1, <1>3, <1>5

LEMMA ConstantsAreInts ==
    ASSUME NEW ast
    PROVE  Constants(ast) \subseteq Int
  BY DecimalIsInt DEF Constants, Number

LEMMA QuotientIsInt ==
    ASSUME NEW a \in Int, NEW b \in Int, b # 0
    PROVE  Quotient(a, b) \in Int
  <1>1. Magnitude(a) \in Nat /\ Magnitude(b) \in Nat /\ Magnitude(b) > 0
    BY DEF Magnitude
  <1>2. Magnitude(a) \div Magnitude(b) \in Int
    BY <1>1
  <1> QED
    BY <1>2 DEF Quotient

\* Where an operator has a value, it is a number.
LEMMA AppliedIsInt ==
    ASSUME NEW name \in Infixes \union Unaries, NEW x, x[1] \in Int,
           name \in Infixes => x[2] \in Int, HasValue(name, x)
    PROVE  Applied(name, x) \in Int
  <1>1. CASE name \in {"/", "%"}
    <2>1. x[2] \in Int /\ x[2] # 0
      BY <1>1 DEF HasValue, Infixes
    <2>2. Quotient(x[1], x[2]) \in Int
      BY <2>1, QuotientIsInt
    <2> QED
      BY <1>1, <2>1, <2>2 DEF Applied
  <1>2. CASE name \in {"+", "-", "*"}
    <2>1. x[2] \in Int
      BY <1>2 DEF Infixes
    <2> QED
      BY <1>2, <2>1 DEF Applied
  <1>3. CASE name \in {"==", "!=", "<", "<=", ">", ">="}
    BY <1>3 DEF Applied, Truth
  <1>4. CASE name \in Unaries
    BY <1>4 DEF Applied, Unaries
  <1> QED
    BY <1>1, <1>2, <1>3, <1>4 DEF Infixes

-----------------------------------------------------------------------------
(* The instructions one by one. *)

LEMMA AsmHas ==
    ASSUME NEW op, NEW args
    PROVE  Asm(op, args).op = op /\ Asm(op, args).args = args
  BY DEF Asm

\* An instruction that is no xorq and no set instruction.
LEMMA Plain ==
    ASSUME NEW a, a.op \in {"movq", "addq", "subq", "imulq", "negq", "cmpq", "cqto", "idivq"}
    PROVE  ~Zeroes(a) /\ ~Toggles(a) /\ a.op \notin SetOps
  BY DEF Zeroes, Toggles, SetOps

\* The instructions by their operations, over any operands.
LEMMA EffectByOp ==
    ASSUME NEW cells, NEW a
    PROVE  /\ a.op \in {"movq", "addq", "subq", "imulq"} =>
                Effect(cells, a) = Set(cells, a.args[2], Combined(a.op, Held(cells, a.args[1]),
                                                                        Held(cells, a.args[2])))
           /\ a.op = "negq" => Effect(cells, a) = Set(cells, a.args[1], -Held(cells, a.args[1]))
           /\ a.op = "cmpq" =>
                Effect(cells, a)
                  = Set(cells, Flag, Held(cells, a.args[2]) - Held(cells, a.args[1]))
           /\ a.op = "cqto" => Effect(cells, a) = Set(cells, RDX, Extension(cells[RAX]))
           /\ a.op = "idivq" => Effect(cells, a) = AfterIdiv(cells, Held(cells, a.args[1]))
           /\ Zeroes(a) /\ ~Toggles(a) => Effect(cells, a) = Set(cells, a.args[2], 0)
           /\ Toggles(a) /\ ~Zeroes(a) =>
                Effect(cells, a) = Set(cells, a.args[2], Toggled(Held(cells, a.args[2])))
           /\ a.op \in SetOps =>
                Effect(cells, a) = Set(cells, RAX, Truth(Satisfies(a.op, cells[Flag])))
  <1>1. ASSUME a.op \in {"movq", "addq", "subq", "imulq"}
        PROVE  Effect(cells, a) = Set(cells, a.args[2], Combined(a.op, Held(cells, a.args[1]),
                                                                       Held(cells, a.args[2])))
    <2>1. ~Zeroes(a) /\ ~Toggles(a) /\ a.op \notin SetOps
      BY <1>1, Plain
    <2> QED
      BY <1>1, <2>1 DEF Effect
  <1>2. ASSUME a.op = "negq"
        PROVE  Effect(cells, a) = Set(cells, a.args[1], -Held(cells, a.args[1]))
    <2>1. ~Zeroes(a) /\ ~Toggles(a) /\ a.op \notin SetOps
      BY <1>2, Plain
    <2> QED
      BY <1>2, <2>1 DEF Effect
  <1>3. ASSUME a.op = "cmpq"
        PROVE  Effect(cells, a) = Set(cells, Flag, Held(cells, a.args[2]) - Held(cells, a.args[1]))
    <2>1. ~Zeroes(a) /\ ~Toggles(a) /\ a.op \notin SetOps
      BY <1>3, Plain
    <2> QED
      BY <1>3, <2>1 DEF Effect
  <1>4. ASSUME a.op = "cqto"
        PROVE  Effect(cells, a) = Set(cells, RDX, Extension(cells[RAX]))
    <2>1. ~Zeroes(a) /\ ~Toggles(a) /\ a.op \notin SetOps
      BY <1>4, Plain
    <2> QED
      BY <1>4, <2>1 DEF Effect
  <1>5. ASSUME a.op = "idivq"
        PROVE  Effect(cells, a) = AfterIdiv(cells, Held(cells, a.args[1]))
    <2>1. ~Zeroes(a) /\ ~Toggles(a) /\ a.op \notin SetOps
      BY <1>5, Plain
    <2> QED
      BY <1>5, <2>1 DEF Effect
  <1>6. ASSUME Zeroes(a) \/ Toggles(a) PROVE a.op = "xorq" /\ a.op \notin SetOps
    BY <1>6 DEF Zeroes, Toggles, SetOps
  <1>7. ASSUME Zeroes(a), ~Toggles(a)
        PROVE  Effect(cells, a) = Set(cells, a.args[2], 0)
    <2>1. a.op = "xorq" /\ a.op \notin SetOps
      BY <1>6, <1>7
    <2> QED
      BY <1>7, <2>1 DEF Effect
  <1>8. ASSUME Toggles(a), ~Zeroes(a)
        PROVE  Effect(cells, a) = Set(cells, a.args[2], Toggled(Held(cells, a.args[2])))
    <2>1. a.op = "xorq" /\ a.op \notin SetOps
      BY <1>6, <1>8
    <2> QED
      BY <1>8, <2>1 DEF Effect
  <1>9. ASSUME a.op \in SetOps
        PROVE  Effect(cells, a) = Set(cells, RAX, Truth(Satisfies(a.op, cells[Flag])))
    <2>1. /\ a.op # "negq" /\ a.op # "cmpq" /\ a.op # "cqto" /\ a.op # "idivq" /\ a.op # "xorq"
          /\ a.op \notin {"movq", "addq", "subq", "imulq"}
      BY <1>9 DEF SetOps
    <2>2. ~Zeroes(a) /\ ~Toggles(a)
      BY <2>1, <1>6
    <2> QED
      BY <1>9, <2>1, <2>2 DEF Effect
  <1> QED
    BY <1>1, <1>2, <1>3, <1>4, <1>5, <1>7, <1>8, <1>9

LEMMA EffectOfTwo ==
    ASSUME NEW cells, NEW from, NEW to, NEW op \in {"movq", "addq", "subq", "imulq"}
    PROVE  Effect(cells, Asm(op, <<from, to>>))
             = Set(cells, to, Combined(op, Held(cells, from), Held(cells, to)))
  <1>1. <<from, to>>[1] = from /\ <<from, to>>[2] = to
    OBVIOUS
  <1> QED
    BY <1>1, AsmHas, EffectByOp

LEMMA EffectOfMove ==
    ASSUME NEW cells, NEW from, NEW to
    PROVE  Effect(cells, Move(from, to)) = Set(cells, to, Held(cells, from))
  BY EffectOfTwo DEF Move, Combined

LEMMA EffectOfNegation ==
    ASSUME NEW cells, NEW to
    PROVE  Effect(cells, Asm("negq", <<to>>)) = Set(cells, to, -Held(cells, to))
  <1>1. <<to>>[1] = to
    OBVIOUS
  <1> QED
    BY <1>1, AsmHas, EffectByOp

LEMMA EffectOfComparison ==
    ASSUME NEW cells, NEW from, NEW to
    PROVE  Effect(cells, Asm("cmpq", <<from, to>>))
             = Set(cells, Flag, Held(cells, to) - Held(cells, from))
  <1>1. <<from, to>>[1] = from /\ <<from, to>>[2] = to
    OBVIOUS
  <1> QED
    BY <1>1, AsmHas, EffectByOp

LEMMA EffectOfExtension ==
    ASSUME NEW cells
    PROVE  Effect(cells, Asm("cqto", <<>>)) = Set(cells, RDX, Extension(cells[RAX]))
  BY AsmHas, EffectByOp

LEMMA EffectOfXor ==
    ASSUME NEW cells, NEW to
    PROVE  /\ Effect(cells, Asm("xorq", <<RAX, RAX>>)) = Set(cells, RAX, 0)
           /\ to # Immediate(1) =>
                Effect(cells, Asm("xorq", <<Immediate(1), to>>))
                  = Set(cells, to, Toggled(Held(cells, to)))
  <1>1. RAX # Immediate(1)
    BY DEF RAX, Register, Immediate
  <1>2. /\ <<RAX, RAX>>[1] = RAX /\ <<RAX, RAX>>[2] = RAX
        /\ <<Immediate(1), to>>[1] = Immediate(1) /\ <<Immediate(1), to>>[2] = to
    OBVIOUS
  <1>3. /\ Zeroes(Asm("xorq", <<RAX, RAX>>)) /\ ~Toggles(Asm("xorq", <<RAX, RAX>>))
        /\ to # Immediate(1) => /\ Toggles(Asm("xorq", <<Immediate(1), to>>))
                                /\ ~Zeroes(Asm("xorq", <<Immediate(1), to>>))
    BY <1>1, <1>2, AsmHas DEF Zeroes, Toggles
  <1> QED
    BY <1>2, <1>3, AsmHas, EffectByOp

LEMMA EffectOfDivision ==
    ASSUME NEW cells, NEW by, cells[RDX] = Extension(cells[RAX])
    PROVE  Effect(cells, Asm("idivq", <<by>>))
             = Set(Set(cells, RAX, Quotient(cells[RAX], Held(cells, by))),
                   RDX, cells[RAX] - Held(cells, by) * Quotient(cells[RAX], Held(cells, by)))
  <1>1. <<by>>[1] = by
    OBVIOUS
  <1>2. Effect(cells, Asm("idivq", <<by>>)) = AfterIdiv(cells, Held(cells, by))
    BY <1>1, AsmHas, EffectByOp
  <1> QED
    BY <1>2 DEF AfterIdiv

LEMMA EffectOfSet ==
    ASSUME NEW cells, NEW op \in SetOps, NEW to
    PROVE  Effect(cells, Asm(op, <<to>>))
             = Set(cells, RAX, Truth(Satisfies(op, cells[Flag])))
  BY AsmHas, EffectByOp

-----------------------------------------------------------------------------
(* Executing a sequence of instructions. *)

\* f holds the cells after none, one, two, ... instructions.
IsRun(f, cells, code, n) ==
    f = [k \in 0 .. n |-> IF k = 0 THEN cells ELSE Effect(f[k - 1], code[k])]

\* A run goes on by one instruction.
LEMMA RunGoesOn ==
    ASSUME NEW cells, NEW code, NEW n \in Nat, NEW f, IsRun(f, cells, code, n)
    PROVE  \E g : IsRun(g, cells, code, n + 1)
  <1> DEFINE last == Effect(f[n], code[n + 1])
             g    == [k \in 0 .. n + 1 |-> IF k = n + 1 THEN last ELSE f[k]]
  <1>1. ASSUME NEW k \in 0 .. n + 1
        PROVE  g[k] = IF k = 0 THEN cells ELSE Effect(g[k - 1], code[k])
    <2>1. CASE k = n + 1
      <3>1. g[k] = last /\ g[n] = f[n] /\ k # 0 /\ k - 1 = n
        BY <2>1
      <3> QED
        BY <2>1, <3>1
    <2>2. CASE k \in 0 .. n
      <3>1. f[k] = IF k = 0 THEN cells ELSE Effect(f[k - 1], code[k])
        BY <2>2 DEF IsRun
      <3>2. g[k] = f[k] /\ (k # 0 => g[k - 1] = f[k - 1])
        BY <2>2
      <3> HIDE DEF g
      <3> QED
        BY <3>1, <3>2
    <2> QED
      BY <2>1, <2>2
  <1>2. g = [k \in 0 .. n + 1 |-> g[k]]
    OBVIOUS
  <1>3. IsRun(g, cells, code, n + 1)
    <2> HIDE DEF g
    <2> QED
      BY <1>1, <1>2 DEF IsRun
  <1> QED
    BY <1>3

\* There is a run of every length, for there is no smallest without one.
LEMMA RunExists ==
    ASSUME NEW cells, NEW code, NEW n \in Nat
    PROVE  \E f : IsRun(f, cells, code, n)
  <1> DEFINE Without == {m \in Nat : ~ \E f : IsRun(f, cells, code, m)}
  <1>1. ASSUME Without # {} PROVE FALSE
    <2>1. PICK m \in Without : \A k \in Without : m <= k
      BY <1>1, SmallestNumber
    <2>2. m # 0
      <3>1. IsRun([k \in 0 .. 0 |-> cells], cells, code, 0)
        BY DEF IsRun
      <3> QED
        BY <3>1
    <2>3. m - 1 \in Nat /\ m - 1 \notin Without
      BY <2>1, <2>2
    <2>4. PICK f : IsRun(f, cells, code, m - 1)
      BY <2>3
    <2>5. \E g : IsRun(g, cells, code, m - 1 + 1)
      BY <2>3, <2>4, RunGoesOn
    <2> QED
      BY <2>1, <2>5
  <1> QED
    BY <1>1

LEMMA ExecutedIsRun ==
    ASSUME NEW cells, NEW code, Len(code) \in Nat
    PROVE  \E f : IsRun(f, cells, code, Len(code)) /\ Executed(cells, code) = f[Len(code)]
  <1> DEFINE F == CHOOSE f : IsRun(f, cells, code, Len(code))
  <1>1. IsRun(F, cells, code, Len(code))
    BY RunExists
  <1>2. Executed(cells, code) = F[Len(code)]
    BY DEF Executed, IsRun
  <1> QED
    BY <1>1, <1>2

\* The runs of the lengths that occur, written out.
LEMMA ExecutedOne ==
    ASSUME NEW cells, NEW a
    PROVE  Executed(cells, <<a>>) = Effect(cells, a)
  <1>1. PICK f : IsRun(f, cells, <<a>>, 1) /\ Executed(cells, <<a>>) = f[1]
    <2>1. Len(<<a>>) = 1
      OBVIOUS
    <2> QED
      BY <2>1, ExecutedIsRun
  <1>2. f[0] = cells
    BY <1>1 DEF IsRun
  <1>3. f[1] = Effect(f[0], a)
    <2>1. <<a>>[1] = a
      OBVIOUS
    <2> QED
      BY <1>1, <2>1 DEF IsRun
  <1> QED
    BY <1>1, <1>2, <1>3

LEMMA ExecutedTwo ==
    ASSUME NEW cells, NEW a, NEW b
    PROVE  Executed(cells, <<a, b>>) = Effect(Effect(cells, a), b)
  <1>1. PICK f : IsRun(f, cells, <<a, b>>, 2) /\ Executed(cells, <<a, b>>) = f[2]
    <2>1. Len(<<a, b>>) = 2
      OBVIOUS
    <2> QED
      BY <2>1, ExecutedIsRun
  <1>2. f[0] = cells
    BY <1>1 DEF IsRun
  <1>3. f[1] = Effect(f[0], a)
    <2>1. <<a, b>>[1] = a
      OBVIOUS
    <2> QED
      BY <1>1, <2>1 DEF IsRun
  <1>4. f[2] = Effect(f[1], b)
    <2>1. <<a, b>>[2] = b
      OBVIOUS
    <2> QED
      BY <1>1, <2>1 DEF IsRun
  <1> QED
    BY <1>1, <1>2, <1>3, <1>4

LEMMA ExecutedFour ==
    ASSUME NEW cells, NEW a, NEW b, NEW c, NEW d
    PROVE  Executed(cells, <<a, b, c, d>>) = Effect(Effect(Effect(Effect(cells, a), b), c), d)
  <1>1. PICK f : IsRun(f, cells, <<a, b, c, d>>, 4) /\ Executed(cells, <<a, b, c, d>>) = f[4]
    <2>1. Len(<<a, b, c, d>>) = 4
      OBVIOUS
    <2> QED
      BY <2>1, ExecutedIsRun
  <1>2. f[0] = cells
    BY <1>1 DEF IsRun
  <1>3. f[1] = Effect(f[0], a)
    <2>1. <<a, b, c, d>>[1] = a
      OBVIOUS
    <2> QED
      BY <1>1, <2>1 DEF IsRun
  <1>4. f[2] = Effect(f[1], b)
    <2>1. <<a, b, c, d>>[2] = b
      OBVIOUS
    <2> QED
      BY <1>1, <2>1 DEF IsRun
  <1>5. f[3] = Effect(f[2], c)
    <2>1. <<a, b, c, d>>[3] = c
      OBVIOUS
    <2> QED
      BY <1>1, <2>1 DEF IsRun
  <1>6. f[4] = Effect(f[3], d)
    <2>1. <<a, b, c, d>>[4] = d
      OBVIOUS
    <2> QED
      BY <1>1, <2>1 DEF IsRun
  <1> QED
    BY <1>1, <1>2, <1>3, <1>4, <1>5, <1>6

LEMMA ExecutedFive ==
    ASSUME NEW cells, NEW a, NEW b, NEW c, NEW d, NEW e
    PROVE  Executed(cells, <<a, b, c, d, e>>) = Effect(Effect(Effect(Effect(Effect(cells, a), b), c), d), e)
  <1>1. PICK f : IsRun(f, cells, <<a, b, c, d, e>>, 5) /\ Executed(cells, <<a, b, c, d, e>>) = f[5]
    <2>1. Len(<<a, b, c, d, e>>) = 5
      OBVIOUS
    <2> QED
      BY <2>1, ExecutedIsRun
  <1>2. f[0] = cells
    BY <1>1 DEF IsRun
  <1>3. f[1] = Effect(f[0], a)
    <2>1. <<a, b, c, d, e>>[1] = a
      OBVIOUS
    <2> QED
      BY <1>1, <2>1 DEF IsRun
  <1>4. f[2] = Effect(f[1], b)
    <2>1. <<a, b, c, d, e>>[2] = b
      OBVIOUS
    <2> QED
      BY <1>1, <2>1 DEF IsRun
  <1>5. f[3] = Effect(f[2], c)
    <2>1. <<a, b, c, d, e>>[3] = c
      OBVIOUS
    <2> QED
      BY <1>1, <2>1 DEF IsRun
  <1>6. f[4] = Effect(f[3], d)
    <2>1. <<a, b, c, d, e>>[4] = d
      OBVIOUS
    <2> QED
      BY <1>1, <2>1 DEF IsRun
  <1>7. f[5] = Effect(f[4], e)
    <2>1. <<a, b, c, d, e>>[5] = e
      OBVIOUS
    <2> QED
      BY <1>1, <2>1 DEF IsRun
  <1> QED
    BY <1>1, <1>2, <1>3, <1>4, <1>5, <1>6, <1>7

-----------------------------------------------------------------------------
(* What is emitted for the operators, over slots. *)

MemorySlots == {Slot(var) : var \in Nat}

LEMMA SlotsAreMemory ==
    ASSUME NEW p \in MemorySlots
    PROVE  /\ p # RAX /\ p # RDX /\ p # Flag /\ p # Immediate(1)
  <1>1. PICK n : p = <<"slot", n>>
    BY DEF MemorySlots, Slot
  <1> QED
    BY <1>1 DEF RAX, RDX, Flag, Register, Immediate

LEMMA SlotHeld ==
    ASSUME NEW cells, NEW p \in MemorySlots
    PROVE  Held(cells, p) = cells[p]
  <1>1. PICK n : p = <<"slot", n>>
    BY DEF MemorySlots, Slot
  <1> QED
    BY <1>1 DEF Held

LEMMA RegistersHold ==
    ASSUME NEW cells
    PROVE  /\ Held(cells, RAX) = cells[RAX] /\ Held(cells, RDX) = cells[RDX]
           /\ RAX # RDX /\ RAX # Flag /\ RDX # Flag
  BY DEF RAX, RDX, Flag, Register, Held

\* The value is in the slot, and the other slots are as they were.
Puts(after, cells, to, value) ==
    /\ DOMAIN cells \subseteq DOMAIN after
    /\ to \in DOMAIN after /\ after[to] = value
    /\ \A c \in MemorySlots \intersect DOMAIN cells : c # to => after[c] = cells[c]

LEMMA SetPuts ==
    ASSUME NEW cells, NEW to, NEW value, NEW before
    PROVE  /\ Puts(Set(cells, to, value), cells, to, value)
           /\ Puts(Set(Set(cells, to, before), to, value), cells, to, value)
  BY DEF Set, Puts

LEMMA CombinePuts ==
    ASSUME NEW cells, NEW p \in MemorySlots \intersect DOMAIN cells,
           NEW q \in MemorySlots \intersect DOMAIN cells, NEW to \in MemorySlots, to # q,
           NEW op \in {"addq", "subq", "imulq"}
    PROVE  Puts(Executed(cells, Combine(op, <<p, q>>, to)), cells, to,
                Combined(op, cells[q], cells[p]))
  <1> DEFINE value == Combined(op, cells[q], cells[p])
  <1>1. CASE to = p
    <2>1. Combine(op, <<p, q>>, to) = <<Asm(op, <<q, to>>)>>
      BY <1>1 DEF Combine
    <2>2. Held(cells, to) = cells[p] /\ Held(cells, q) = cells[q]
      BY <1>1, SlotHeld
    <2>3. Effect(cells, Asm(op, <<q, to>>)) = Set(cells, to, value)
      BY <2>2, EffectOfTwo
    <2> HIDE DEF value
    <2>4. Executed(cells, Combine(op, <<p, q>>, to)) = Set(cells, to, value)
      BY <2>1, <2>3, ExecutedOne
    <2> QED
      BY <2>4, SetPuts DEF value
  <1>2. CASE to # p
    <2> DEFINE moved == Set(cells, to, cells[p])
    <2>1. Combine(op, <<p, q>>, to) = <<Move(p, to), Asm(op, <<q, to>>)>>
      BY <1>2 DEF Combine
    <2>2. Effect(cells, Move(p, to)) = moved
      BY EffectOfMove, SlotHeld
    <2>3. moved[to] = cells[p] /\ moved[q] = cells[q]
      BY DEF Set
    <2> HIDE DEF moved
    <2>4. Held(moved, to) = cells[p] /\ Held(moved, q) = cells[q]
      BY <2>3, SlotHeld
    <2>5. Effect(moved, Asm(op, <<q, to>>)) = Set(moved, to, value)
      BY <2>4, EffectOfTwo
    <2> HIDE DEF value
    <2>6. Executed(cells, Combine(op, <<p, q>>, to)) = Set(moved, to, value)
      BY <2>1, <2>2, <2>5, ExecutedTwo
    <2> QED
      BY <2>6, SetPuts DEF value, moved
  <1> QED
    BY <1>1, <1>2

\* What registers are set to does not matter to the slots.
Kept(after, cells) ==
    /\ DOMAIN cells \subseteq DOMAIN after
    /\ \A c \in MemorySlots \intersect DOMAIN cells : after[c] = cells[c]

LEMMA SetKeeps ==
    ASSUME NEW cells, NEW after, Kept(after, cells), NEW cell \in {RAX, RDX, Flag}, NEW value
    PROVE  Kept(Set(after, cell, value), cells)
  <1>1. \A c \in MemorySlots : c # cell
    BY SlotsAreMemory
  <1> QED
    BY <1>1 DEF Kept, Set

LEMMA KeptHolds ==
    ASSUME NEW cells, NEW after, Kept(after, cells),
           NEW c \in MemorySlots \intersect DOMAIN cells
    PROVE  Held(after, c) = cells[c]
  BY SlotHeld DEF Kept

LEMMA KeptPuts ==
    ASSUME NEW cells, NEW after, Kept(after, cells), NEW to, NEW value
    PROVE  Puts(Set(after, to, value), cells, to, value)
  BY DEF Kept, Puts, Set

LEMMA SetHolds ==
    ASSUME NEW cells, NEW cell \in {RAX, RDX, Flag}, NEW value
    PROVE  /\ Set(cells, cell, value)[cell] = value
           /\ Held(Set(cells, cell, value), cell) = value
           /\ cell \in DOMAIN Set(cells, cell, value)
  BY DEF Set, Held, RAX, RDX, Flag, Register

LEMMA SetLeaves ==
    ASSUME NEW cells, NEW cell, NEW value, NEW other \in DOMAIN cells, other # cell
    PROVE  Set(cells, cell, value)[other] = cells[other]
  BY DEF Set

LEMMA DividePuts ==
    ASSUME NEW cells, NEW p \in MemorySlots \intersect DOMAIN cells,
           NEW q \in MemorySlots \intersect DOMAIN cells, NEW to \in MemorySlots
    PROVE  /\ Puts(Executed(cells, Divide(<<p, q>>, RAX, to)), cells, to,
                   Quotient(cells[p], cells[q]))
           /\ Puts(Executed(cells, Divide(<<p, q>>, RDX, to)), cells, to,
                   cells[p] - cells[q] * Quotient(cells[p], cells[q]))
  <1> DEFINE quotient  == Quotient(cells[p], cells[q])
             remainder == cells[p] - cells[q] * quotient
             moved     == Set(cells, RAX, cells[p])
             extended  == Set(moved, RDX, Extension(cells[p]))
             halfway   == Set(extended, RAX, quotient)
             divided   == Set(halfway, RDX, remainder)
  <1>1. RAX # RDX /\ RAX \in {RAX, RDX, Flag} /\ RDX \in {RAX, RDX, Flag}
    BY RegistersHold
  <1>2. Kept(moved, cells) /\ moved[RAX] = cells[p] /\ RAX \in DOMAIN moved
        /\ Effect(cells, Move(p, RAX)) = moved
    <2>1. Kept(cells, cells)
      BY DEF Kept
    <2>2. Kept(moved, cells)
      BY <1>1, <2>1, SetKeeps
    <2>3. moved[RAX] = cells[p] /\ RAX \in DOMAIN moved
      BY <1>1, SetHolds
    <2>4. Effect(cells, Move(p, RAX)) = moved
      BY EffectOfMove, SlotHeld
    <2> QED
      BY <2>2, <2>3, <2>4
  <1> HIDE DEF moved
  <1>3. /\ Kept(extended, cells) /\ extended[RAX] = cells[p]
        /\ extended[RDX] = Extension(extended[RAX])
        /\ Effect(moved, Asm("cqto", <<>>)) = extended
    <2>1. Kept(extended, cells)
      BY <1>1, <1>2, SetKeeps
    <2>2. extended[RAX] = cells[p] /\ extended[RDX] = Extension(cells[p])
      BY <1>1, <1>2, SetHolds, SetLeaves
    <2>3. Effect(moved, Asm("cqto", <<>>)) = extended
      BY <1>2, EffectOfExtension
    <2> QED
      BY <2>1, <2>2, <2>3
  <1> HIDE DEF extended
  <1>4. Held(extended, q) = cells[q]
    BY <1>3, KeptHolds
  <1>5. Effect(extended, Asm("idivq", <<q>>)) = divided
    BY <1>3, <1>4, EffectOfDivision
  <1>6. Kept(halfway, cells) /\ halfway[RAX] = quotient /\ RAX \in DOMAIN halfway
    BY <1>1, <1>3, SetKeeps, SetHolds
  <1> HIDE DEF halfway, quotient, remainder
  <1>7. Kept(divided, cells) /\ Held(divided, RDX) = remainder /\ divided[RAX] = quotient
    BY <1>1, <1>6, SetKeeps, SetHolds, SetLeaves
  <1> HIDE DEF divided
  <1>8. Held(divided, RAX) = quotient
    BY <1>7, RegistersHold
  <1>9. ASSUME NEW from
        PROVE  Executed(cells, Divide(<<p, q>>, from, to)) = Set(divided, to, Held(divided, from))
    <2>1. Divide(<<p, q>>, from, to)
            = <<Move(p, RAX), Asm("cqto", <<>>), Asm("idivq", <<q>>), Move(from, to)>>
      BY DEF Divide
    <2>2. Effect(divided, Move(from, to)) = Set(divided, to, Held(divided, from))
      BY EffectOfMove
    <2> QED
      BY <1>2, <1>3, <1>5, <2>1, <2>2, ExecutedFour
  <1>10. /\ Executed(cells, Divide(<<p, q>>, RAX, to)) = Set(divided, to, quotient)
         /\ Executed(cells, Divide(<<p, q>>, RDX, to)) = Set(divided, to, remainder)
    BY <1>7, <1>8, <1>9
  <1> QED
    BY <1>7, <1>10, KeptPuts DEF quotient, remainder

LEMMA ComparePuts ==
    ASSUME NEW cells, NEW p \in MemorySlots \intersect DOMAIN cells,
           NEW q \in MemorySlots \intersect DOMAIN cells, NEW to \in MemorySlots,
           NEW op \in SetOps
    PROVE  Puts(Executed(cells, Compare(op, <<p, q>>, to)), cells, to,
                Truth(Satisfies(op, cells[p] - cells[q])))
  <1> DEFINE answer   == Truth(Satisfies(op, cells[p] - cells[q]))
             zero     == Set(cells, RAX, 0)
             moved    == Set(zero, RDX, cells[p])
             compared == Set(moved, Flag, cells[p] - cells[q])
             told     == Set(compared, RAX, answer)
  <1>1. RAX \in {RAX, RDX, Flag} /\ RDX \in {RAX, RDX, Flag} /\ Flag \in {RAX, RDX, Flag}
    OBVIOUS
  <1>2. Kept(zero, cells) /\ Effect(cells, Asm("xorq", <<RAX, RAX>>)) = zero
    <2>1. Kept(cells, cells)
      BY DEF Kept
    <2> QED
      BY <1>1, <2>1, SetKeeps, EffectOfXor
  <1> HIDE DEF zero
  <1>3. Kept(moved, cells) /\ Held(moved, RDX) = cells[p] /\ Effect(zero, Move(p, RDX)) = moved
    <2>1. Held(zero, p) = cells[p]
      BY <1>2, KeptHolds
    <2> QED
      BY <1>1, <1>2, <2>1, SetKeeps, SetHolds, EffectOfMove
  <1> HIDE DEF moved
  <1>4. Held(moved, q) = cells[q]
    BY <1>3, KeptHolds
  <1>5. /\ Kept(compared, cells) /\ compared[Flag] = cells[p] - cells[q]
        /\ Effect(moved, Asm("cmpq", <<q, RDX>>)) = compared
    <2>1. Kept(compared, cells)
      BY <1>1, <1>3, SetKeeps
    <2>2. compared[Flag] = cells[p] - cells[q]
      BY DEF Set
    <2>3. Effect(moved, Asm("cmpq", <<q, RDX>>)) = compared
      <3>1. Effect(moved, Asm("cmpq", <<q, RDX>>)) = Set(moved, Flag, Held(moved, RDX) - Held(moved, q))
        BY EffectOfComparison
      <3> QED
        BY <1>3, <1>4, <3>1
    <2> QED
      BY <2>1, <2>2, <2>3
  <1> HIDE DEF compared
  <1>6. Effect(compared, Asm(op, <<Register("al")>>)) = told
    BY <1>5, EffectOfSet
  <1> HIDE DEF answer
  <1>7. Kept(told, cells) /\ Held(told, RAX) = answer
    BY <1>1, <1>5, SetKeeps, SetHolds
  <1> HIDE DEF told
  <1>8. Effect(told, Move(RAX, to)) = Set(told, to, answer)
    BY <1>7, EffectOfMove
  <1>9. Executed(cells, Compare(op, <<p, q>>, to)) = Set(told, to, answer)
    <2>1. Compare(op, <<p, q>>, to)
            = <<Asm("xorq", <<RAX, RAX>>), Move(p, RDX), Asm("cmpq", <<q, RDX>>),
                Asm(op, <<Register("al")>>), Move(RAX, to)>>
      BY DEF Compare
    <2> QED
      BY <1>2, <1>3, <1>5, <1>6, <1>8, <2>1, ExecutedFive
  <1> QED
    BY <1>7, <1>9, KeptPuts DEF answer

LEMMA UnaryPuts ==
    ASSUME NEW cells, NEW p \in MemorySlots \intersect DOMAIN cells, NEW to \in MemorySlots
    PROVE  /\ Puts(Executed(cells, <<Move(p, to), Asm("negq", <<to>>)>>), cells, to, -cells[p])
           /\ cells[p] \in {0, 1} =>
                Puts(Executed(cells, <<Move(p, to), Asm("xorq", <<Immediate(1), to>>)>>),
                     cells, to, 1 - cells[p])
  <1> DEFINE moved == Set(cells, to, cells[p])
  <1>1. Effect(cells, Move(p, to)) = moved
    BY EffectOfMove, SlotHeld
  <1>2. moved[to] = cells[p]
    BY DEF Set
  <1>3. ASSUME NEW value PROVE Puts(Set(moved, to, value), cells, to, value)
    BY SetPuts
  <1> HIDE DEF moved
  <1>4. Held(moved, to) = cells[p]
    BY <1>2, SlotHeld
  <1>5. Effect(moved, Asm("negq", <<to>>)) = Set(moved, to, -cells[p])
    BY <1>4, EffectOfNegation
  <1>6. ASSUME cells[p] \in {0, 1}
        PROVE  Effect(moved, Asm("xorq", <<Immediate(1), to>>)) = Set(moved, to, 1 - cells[p])
    <2>1. Toggled(0) = 1 /\ Toggled(1) = 0
      BY DEF Toggled
    <2>2. Toggled(cells[p]) = 1 - cells[p]
      BY <1>6, <2>1
    <2>3. to # Immediate(1)
      BY SlotsAreMemory
    <2> QED
      BY <1>4, <2>2, <2>3, EffectOfXor
  <1>7. /\ Executed(cells, <<Move(p, to), Asm("negq", <<to>>)>>) = Set(moved, to, -cells[p])
        /\ cells[p] \in {0, 1} =>
             Executed(cells, <<Move(p, to), Asm("xorq", <<Immediate(1), to>>)>>)
               = Set(moved, to, 1 - cells[p])
    BY <1>1, <1>5, <1>6, ExecutedTwo
  <1> QED
    BY <1>3, <1>7

-----------------------------------------------------------------------------
(* The operators over variables. *)

Variables == {Variable(var) : var \in Nat}

LEMMA PutsSimulates ==
    ASSUME NEW store, NEW cells, NEW after, NEW dest \in Nat, NEW value,
           DOMAIN store \subseteq Variables, Simulates(cells, store),
           Puts(after, cells, Slot(dest), value)
    PROVE  Simulates(after, Stored(store, dest, value))
  <1> SUFFICES ASSUME NEW v \in DOMAIN Stored(store, dest, value)
               PROVE  /\ Slot(v[2]) \in DOMAIN after
                      /\ after[Slot(v[2])] = Stored(store, dest, value)[v]
    BY DEF Simulates
  <1>1. CASE v = Variable(dest)
    <2>1. v[2] = dest /\ Stored(store, dest, value)[v] = value
      BY <1>1 DEF Variable, Stored
    <2> QED
      BY <2>1 DEF Puts
  <1>2. CASE v # Variable(dest)
    <2>1. v \in DOMAIN store /\ Stored(store, dest, value)[v] = store[v]
      BY <1>2 DEF Stored
    <2>2. PICK n \in Nat : v = <<"variable", n>>
      BY <2>1 DEF Variables, Variable
    <2>3. v[2] = n /\ n # dest
      BY <1>2, <2>2 DEF Variable
    <2>4. Slot(n) # Slot(dest) /\ Slot(n) \in MemorySlots
      BY <2>3 DEF Slot, MemorySlots, UNIT
    <2>5. Slot(n) \in DOMAIN cells /\ cells[Slot(n)] = store[v]
      BY <2>1, <2>3 DEF Simulates
    <2> QED
      BY <2>1, <2>3, <2>4, <2>5 DEF Puts
  <1> QED
    BY <1>1, <1>2

\* A variable that has been written is in its slot.
LEMMA ReadIsSlot ==
    ASSUME NEW store, NEW cells, Simulates(cells, store), NEW var \in Nat,
           Variable(var) \in DOMAIN store
    PROVE  /\ Slot(var) \in MemorySlots \intersect DOMAIN cells
           /\ cells[Slot(var)] = Read(store, var)
  <1>1. Variable(var)[2] = var
    BY DEF Variable
  <1>2. Slot(var) \in DOMAIN cells /\ cells[Slot(var)] = store[Variable(var)]
    BY <1>1 DEF Simulates
  <1> QED
    BY <1>2 DEF MemorySlots, Read

LEMMA InfixPuts ==
    ASSUME NEW cells, NEW args, NEW dest \in Nat,
           NEW x \in Int, NEW y \in Int, NEW name \in Infixes \ {"<", "<="},
           Slot(args[1]) \in MemorySlots \intersect DOMAIN cells,
           Slot(args[2]) \in MemorySlots \intersect DOMAIN cells,
           cells[Slot(args[1])] = x, cells[Slot(args[2])] = y,
           1 \in DOMAIN args, 2 \in DOMAIN args, Slot(dest) # Slot(args[2])
    PROVE  Puts(Executed(cells, Intrinsic(name, Slots(args), Slot(dest))), cells,
                Slot(dest), Applied(name, <<x, y>>))
  <1> DEFINE p == Slot(args[1])
             q == Slot(args[2])
             to == Slot(dest)
             S == Slots(args)
             Goal == Puts(Executed(cells, Intrinsic(name, S, to)), cells, to,
                          Applied(name, <<x, y>>))
  <1>1. S[1] = p /\ S[2] = q
    BY DEF Slots
  <1>2. to \in MemorySlots
    BY DEF MemorySlots
  <1>3. p \in MemorySlots \intersect DOMAIN cells /\ q \in MemorySlots \intersect DOMAIN cells
        /\ cells[p] = x /\ cells[q] = y /\ to # q
    OBVIOUS
  <1> HIDE DEF p, q, to, S
  <1>4. ASSUME NEW op PROVE Combine(op, S, to) = Combine(op, <<p, q>>, to)
    BY <1>1 DEF Combine
  <1>5. ASSUME NEW from PROVE Divide(S, from, to) = Divide(<<p, q>>, from, to)
    BY <1>1 DEF Divide
  <1>6. ASSUME NEW op PROVE Compare(op, S, to) = Compare(op, <<p, q>>, to)
    BY <1>1 DEF Compare
  <1>7. ASSUME name = "+" PROVE Goal
    <2>1. Intrinsic(name, S, to) = Combine("addq", S, to)
      BY <1>7 DEF Intrinsic, Comparisons
    <2>2. Applied(name, <<x, y>>) = Combined("addq", y, x)
      BY <1>7 DEF Applied, Combined
    <2> QED
      BY <1>2, <1>3, <1>4, <2>1, <2>2, CombinePuts
  <1>8. ASSUME name = "-" PROVE Goal
    <2>1. Intrinsic(name, S, to) = Combine("subq", S, to)
      BY <1>8 DEF Intrinsic, Comparisons
    <2>2. Applied(name, <<x, y>>) = Combined("subq", y, x)
      BY <1>8 DEF Applied, Combined
    <2> QED
      BY <1>2, <1>3, <1>4, <2>1, <2>2, CombinePuts
  <1>9. ASSUME name = "*" PROVE Goal
    <2>1. Intrinsic(name, S, to) = Combine("imulq", S, to)
      BY <1>9 DEF Intrinsic, Comparisons
    <2>2. Applied(name, <<x, y>>) = Combined("imulq", y, x)
      BY <1>9 DEF Applied, Combined
    <2> QED
      BY <1>2, <1>3, <1>4, <2>1, <2>2, CombinePuts
  <1>10. ASSUME name = "/" PROVE Goal
    <2>1. Intrinsic(name, S, to) = Divide(S, RAX, to)
      BY <1>10 DEF Intrinsic, Comparisons
    <2>2. Applied(name, <<x, y>>) = Quotient(x, y)
      BY <1>10 DEF Applied
    <2> QED
      BY <1>2, <1>3, <1>5, <2>1, <2>2, DividePuts
  <1>11. ASSUME name = "%" PROVE Goal
    <2>1. Intrinsic(name, S, to) = Divide(S, RDX, to)
      BY <1>11 DEF Intrinsic, Comparisons
    <2>2. Applied(name, <<x, y>>) = x - y * Quotient(x, y)
      BY <1>11 DEF Applied
    <2> QED
      BY <1>2, <1>3, <1>5, <2>1, <2>2, DividePuts
  <1>12. ASSUME name = "==" PROVE Goal
    <2>1. Intrinsic(name, S, to) = Compare("sete", S, to)
      BY <1>12 DEF Intrinsic, Comparisons
    <2>2. Applied(name, <<x, y>>) = Truth(Satisfies("sete", x - y))
      BY <1>12 DEF Applied, Truth, Satisfies
    <2>3. "sete" \in SetOps
      BY DEF SetOps
    <2> QED
      BY <1>2, <1>3, <1>6, <2>1, <2>2, <2>3, ComparePuts
  <1>13. ASSUME name = "!=" PROVE Goal
    <2>1. Intrinsic(name, S, to) = Compare("setne", S, to)
      BY <1>13 DEF Intrinsic, Comparisons
    <2>2. Applied(name, <<x, y>>) = Truth(Satisfies("setne", x - y))
      BY <1>13 DEF Applied, Truth, Satisfies
    <2>3. "setne" \in SetOps
      BY DEF SetOps
    <2> QED
      BY <1>2, <1>3, <1>6, <2>1, <2>2, <2>3, ComparePuts
  <1>14. ASSUME name = ">" PROVE Goal
    <2>1. Intrinsic(name, S, to) = Compare("setg", S, to)
      BY <1>14 DEF Intrinsic, Comparisons
    <2>2. Applied(name, <<x, y>>) = Truth(Satisfies("setg", x - y))
      BY <1>14 DEF Applied, Truth, Satisfies
    <2>3. "setg" \in SetOps
      BY DEF SetOps
    <2> QED
      BY <1>2, <1>3, <1>6, <2>1, <2>2, <2>3, ComparePuts
  <1>15. ASSUME name = ">=" PROVE Goal
    <2>1. Intrinsic(name, S, to) = Compare("setge", S, to)
      BY <1>15 DEF Intrinsic, Comparisons
    <2>2. Applied(name, <<x, y>>) = Truth(Satisfies("setge", x - y))
      BY <1>15 DEF Applied, Truth, Satisfies
    <2>3. "setge" \in SetOps
      BY DEF SetOps
    <2> QED
      BY <1>2, <1>3, <1>6, <2>1, <2>2, <2>3, ComparePuts
  <1> QED
    BY <1>7, <1>8, <1>9, <1>10, <1>11, <1>12, <1>13, <1>14, <1>15 DEF Infixes, p, q, to, S

LEMMA PrefixPuts ==
    ASSUME NEW cells, NEW args, NEW dest \in Nat, NEW x \in Int, NEW name \in Unaries,
           Slot(args[1]) \in MemorySlots \intersect DOMAIN cells,
           cells[Slot(args[1])] = x, 1 \in DOMAIN args, name = "unary_not" => x \in {0, 1}
    PROVE  Puts(Executed(cells, Intrinsic(name, Slots(args), Slot(dest))), cells,
                Slot(dest), Applied(name, <<x>>))
  <1> DEFINE p == Slot(args[1])
             to == Slot(dest)
             S == Slots(args)
             Goal == Puts(Executed(cells, Intrinsic(name, S, to)), cells, to,
                          Applied(name, <<x>>))
  <1>1. S[1] = p
    BY DEF Slots
  <1>2. to \in MemorySlots
    BY DEF MemorySlots
  <1>3. p \in MemorySlots \intersect DOMAIN cells /\ cells[p] = x
    OBVIOUS
  <1> HIDE DEF p, to, S
  <1>4. ASSUME name = "unary_-" PROVE Goal
    <2>1. Intrinsic(name, S, to) = <<Move(p, to), Asm("negq", <<to>>)>>
      BY <1>1, <1>4 DEF Intrinsic, Comparisons
    <2>2. Applied(name, <<x>>) = -x
      BY <1>4 DEF Applied
    <2> QED
      BY <1>2, <1>3, <2>1, <2>2, UnaryPuts
  <1>5. ASSUME name = "unary_not" PROVE Goal
    <2>1. Intrinsic(name, S, to) = <<Move(p, to), Asm("xorq", <<Immediate(1), to>>)>>
      BY <1>1, <1>5 DEF Intrinsic, Comparisons
    <2>2. Applied(name, <<x>>) = 1 - x
      BY <1>5 DEF Applied
    <2> QED
      BY <1>2, <1>3, <1>5, <2>1, <2>2, UnaryPuts
  <1> QED
    BY <1>4, <1>5 DEF Unaries, p, to, S

(***************************************************************************)
(* What is emitted for an operator (codegen.c:51-152, 313-364) puts its    *)
(* value into the slot of the result and leaves the slots of all other     *)
(* variables alone, whatever integers the operands are and whatever the    *)
(* registers hold, for all operators but < and <=.  The second operand     *)
(* must not be the result, and is not: see UniqueIsNew.                    *)
(***************************************************************************)
THEOREM OperatorsRight ==
    ASSUME NEW store, NEW cells, DOMAIN store \subseteq Variables,
           \A v \in DOMAIN store : store[v] \in Int, Simulates(cells, store),
           NEW name \in (Infixes \union Unaries) \ {"<", "<="},
           NEW fun, NEW args \in Seq(Nat), Len(args) >= Takes(name),
           \A k \in DOMAIN args : Variable(args[k]) \in DOMAIN store,
           NEW dest \in Nat, \A k \in DOMAIN args : dest # args[k],
           HasValue(name, ValuesOf(store, args))
    PROVE  OperatorRight(cells, store, Call(fun, args, dest), name)
  <1> DEFINE i == Call(fun, args, dest)
  <1>1. i.op = "CALL" /\ i.args = args /\ i.dest = dest
    BY DEF Call
  <1>2. Outcome(store, i, name) = Applied(name, ValuesOf(store, args))
    BY <1>1 DEF Outcome
  <1> HIDE DEF i
  <1>3. SUFFICES Puts(Executed(cells, Intrinsic(name, Slots(args), Slot(dest))), cells,
                      Slot(dest), Applied(name, ValuesOf(store, args)))
    BY <1>1, <1>2, PutsSimulates DEF i, OperatorRight
  <1>4. CASE name \in Infixes
    <2>1. 1 \in DOMAIN args /\ 2 \in DOMAIN args /\ args[1] \in Nat /\ args[2] \in Nat
      <3>1. Len(args) >= 2 /\ Len(args) \in Nat /\ DOMAIN args = 1 .. Len(args)
        BY <1>4 DEF Takes
      <3>2. 1 \in DOMAIN args /\ 2 \in DOMAIN args
        BY <3>1
      <3>3. \A k \in DOMAIN args : args[k] \in Nat
        OBVIOUS
      <3> QED
        BY <3>2, <3>3
    <2> DEFINE x == Read(store, args[1])
               y == Read(store, args[2])
    <2>2. x \in Int /\ y \in Int
      BY <2>1 DEF Read
    <2>3. /\ Slot(args[1]) \in MemorySlots \intersect DOMAIN cells /\ cells[Slot(args[1])] = x
          /\ Slot(args[2]) \in MemorySlots \intersect DOMAIN cells /\ cells[Slot(args[2])] = y
      BY <2>1, ReadIsSlot
    <2>4. Slot(dest) # Slot(args[2])
      BY <2>1 DEF Slot, UNIT
    <2>5. /\ ValuesOf(store, args)[1] = x /\ ValuesOf(store, args)[2] = y
      BY <2>1 DEF ValuesOf
    <2> HIDE DEF x, y
    <2>6. Applied(name, ValuesOf(store, args)) = Applied(name, <<x, y>>)
      BY <2>5 DEF Applied
    <2>7. name \in Infixes \ {"<", "<="} /\ 1 \in DOMAIN args /\ 2 \in DOMAIN args
      BY <1>4, <2>1
    <2> QED
      BY <2>2, <2>3, <2>4, <2>6, <2>7, InfixPuts
  <1>5. CASE name \notin Infixes
    <2>1. 1 \in DOMAIN args /\ args[1] \in Nat /\ name \in Unaries
      <3>1. Len(args) >= 1 /\ Len(args) \in Nat /\ DOMAIN args = 1 .. Len(args)
        BY <1>5 DEF Takes
      <3>2. 1 \in DOMAIN args
        BY <3>1
      <3>3. \A k \in DOMAIN args : args[k] \in Nat
        OBVIOUS
      <3> QED
        BY <1>5, <3>2, <3>3
    <2> DEFINE x == Read(store, args[1])
    <2>2. x \in Int
      BY <2>1 DEF Read
    <2>3. Slot(args[1]) \in MemorySlots \intersect DOMAIN cells /\ cells[Slot(args[1])] = x
      BY <2>1, ReadIsSlot
    <2>4. ValuesOf(store, args)[1] = x
      BY <2>1 DEF ValuesOf
    <2>5. name = "unary_not" => x \in {0, 1}
      BY <2>4 DEF HasValue
    <2> HIDE DEF x
    <2>6. Applied(name, ValuesOf(store, args)) = Applied(name, <<x>>)
      BY <2>1, <2>4 DEF Applied, Unaries
    <2> QED
      BY <2>1, <2>2, <2>3, <2>5, <2>6, PrefixPuts
  <1> QED
    BY <1>4, <1>5

(***************************************************************************)
(* cabor_generate_assembly has the two the wrong way round                 *)
(* (codegen.c:349-356): for all integers < computes <=, and <= computes <. *)
(***************************************************************************)
THEOREM LessIsLessOrEqual ==
    ASSUME NEW store, NEW cells, DOMAIN store \subseteq Variables,
           \A v \in DOMAIN store : store[v] \in Int, Simulates(cells, store),
           NEW a \in Nat, NEW b \in Nat, NEW dest \in Nat,
           Variable(a) \in DOMAIN store, Variable(b) \in DOMAIN store
    PROVE  LET code(name) == Intrinsic(name, Slots(<<a, b>>), Slot(dest))
               value(name) == Applied(name, ValuesOf(store, <<a, b>>))
           IN  /\ Simulates(Executed(cells, code("<")), Stored(store, dest, value("<=")))
               /\ Simulates(Executed(cells, code("<=")), Stored(store, dest, value("<")))
  <1> DEFINE x == Read(store, a)
             y == Read(store, b)
             S == Slots(<<a, b>>)
             to == Slot(dest)
  <1>1. /\ x \in Int /\ y \in Int /\ to \in MemorySlots
        /\ Slot(a) \in MemorySlots \intersect DOMAIN cells /\ cells[Slot(a)] = x
        /\ Slot(b) \in MemorySlots \intersect DOMAIN cells /\ cells[Slot(b)] = y
    BY ReadIsSlot DEF Read, MemorySlots
  <1>2. S[1] = Slot(a) /\ S[2] = Slot(b)
    BY DEF Slots
  <1>3. ValuesOf(store, <<a, b>>)[1] = x /\ ValuesOf(store, <<a, b>>)[2] = y
    BY DEF ValuesOf
  <1> HIDE DEF x, y, S, to
  <1>4. /\ Applied("<=", ValuesOf(store, <<a, b>>)) = Truth(x <= y)
        /\ Applied("<", ValuesOf(store, <<a, b>>)) = Truth(x < y)
    BY <1>3 DEF Applied
  <1>5. /\ Truth(Satisfies("setle", x - y)) = Truth(x <= y)
        /\ Truth(Satisfies("setl", x - y)) = Truth(x < y)
    BY <1>1 DEF Satisfies, Truth
  <1>6. ASSUME NEW op PROVE Compare(op, S, to) = Compare(op, <<Slot(a), Slot(b)>>, to)
    BY <1>2 DEF Compare
  <1>7. /\ Intrinsic("<", S, to) = Compare("setle", <<Slot(a), Slot(b)>>, to)
        /\ Intrinsic("<=", S, to) = Compare("setl", <<Slot(a), Slot(b)>>, to)
    BY <1>6 DEF Intrinsic, Comparisons
  <1>8. /\ Puts(Executed(cells, Intrinsic("<", S, to)), cells, to, Truth(x <= y))
        /\ Puts(Executed(cells, Intrinsic("<=", S, to)), cells, to, Truth(x < y))
    <2>1. "setle" \in SetOps /\ "setl" \in SetOps
      BY DEF SetOps
    <2> QED
      BY <1>1, <1>5, <1>7, <2>1, ComparePuts
  <1> QED
    BY <1>4, <1>8, PutsSimulates DEF S, to

\* What is emitted, by what the instruction is.
LEMMA SelectByOp ==
    ASSUME NEW i, NEW g
    PROVE  /\ i.op = "LOAD" => Select(i, g) = <<Move(Immediate(i.value), Slot(i.dest))>>
           /\ i.op = "COPY" =>
                Select(i, g) = <<Move(Slot(i.source), RAX), Move(RAX, Slot(i.dest))>>
           /\ i.op = "CONDJUMP" =>
                Select(i, g) = <<Asm("cmpq", <<Immediate(0), Slot(i.cond)>>),
                                 Asm("jne", <<g.labels[i.then + 1]>>),
                                 Asm("jmp", <<g.labels[i.else + 1]>>)>>
  BY DEF Select

(***************************************************************************)
(* Loading a constant and copying a variable (codegen.c:256-278): the code *)
(* does to the slots what the instruction does to the store, whatever the  *)
(* registers hold.                                                         *)
(***************************************************************************)
THEOREM MovesRight ==
    ASSUME NEW store, NEW cells, DOMAIN store \subseteq Variables, Simulates(cells, store),
           NEW g, NEW name, NEW dest \in Nat, NEW value,
           NEW source \in Nat, Variable(source) \in DOMAIN store
    PROVE  \A i \in {Load(value, dest), Copy(source, dest)} :
               Simulates(Executed(cells, Select(i, g)),
                         Stored(store, dest, Outcome(store, i, name)))
  <1> DEFINE to == Slot(dest)
             from == Slot(source)
  <1>1. ASSUME NEW i, i.op = "LOAD", i.value = value, i.dest = dest
        PROVE  Simulates(Executed(cells, Select(i, g)),
                         Stored(store, dest, Outcome(store, i, name)))
    <2>1. Executed(cells, Select(i, g)) = Effect(cells, Move(Immediate(value), to))
      BY <1>1, SelectByOp, ExecutedOne
    <2>2. Effect(cells, Move(Immediate(value), to)) = Set(cells, to, value)
      <3>1. Held(cells, Immediate(value)) = value
        BY DEF Held, Immediate
      <3> QED
        BY <3>1, EffectOfMove
    <2>3. Outcome(store, i, name) = value
      BY <1>1 DEF Outcome
    <2>4. Puts(Set(cells, to, value), cells, to, value)
      BY SetPuts
    <2> QED
      BY <2>1, <2>2, <2>3, <2>4, PutsSimulates
  <1>2. ASSUME NEW i, i.op = "COPY", i.source = source, i.dest = dest
        PROVE  Simulates(Executed(cells, Select(i, g)),
                         Stored(store, dest, Outcome(store, i, name)))
    <2> DEFINE x == Read(store, source)
               moved == Set(cells, RAX, x)
    <2>1. Held(cells, from) = x
      BY ReadIsSlot, SlotHeld
    <2>2. Effect(cells, Move(from, RAX)) = moved
      BY <2>1, EffectOfMove
    <2>3. Kept(moved, cells) /\ Held(moved, RAX) = x
      <3>1. Kept(cells, cells) /\ RAX \in {RAX, RDX, Flag}
        BY DEF Kept
      <3>2. Kept(moved, cells)
        BY <3>1, SetKeeps
      <3>3. Held(moved, RAX) = x
        BY <3>1, SetHolds
      <3> QED
        BY <3>2, <3>3
    <2> HIDE DEF moved
    <2>4. Effect(moved, Move(RAX, to)) = Set(moved, to, x)
      BY <2>3, EffectOfMove
    <2>5. Executed(cells, Select(i, g)) = Set(moved, to, x)
      <3>1. Select(i, g) = <<Move(from, RAX), Move(RAX, to)>>
        BY <1>2, SelectByOp
      <3>2. Executed(cells, <<Move(from, RAX), Move(RAX, to)>>)
              = Effect(Effect(cells, Move(from, RAX)), Move(RAX, to))
        BY ExecutedTwo
      <3> QED
        BY <3>1, <3>2, <2>2, <2>4
    <2>6. Outcome(store, i, name) = x
      BY <1>2 DEF Outcome
    <2>7. Puts(Set(moved, to, x), cells, to, x)
      BY <2>3, KeptPuts
    <2> QED
      BY <2>5, <2>6, <2>7, PutsSimulates
  <1>3. /\ Load(value, dest).op = "LOAD" /\ Load(value, dest).value = value
        /\ Load(value, dest).dest = dest
        /\ Copy(source, dest).op = "COPY" /\ Copy(source, dest).source = source
        /\ Copy(source, dest).dest = dest
    BY DEF Load, Copy
  <1> QED
    BY <1>1, <1>2, <1>3

(***************************************************************************)
(* A conditional jump (codegen.c:280-304) leaves the slots as they are and *)
(* goes where the intermediate code goes: jne is taken to the first label  *)
(* if the condition is true, and jmp goes to the second if it is false.    *)
(***************************************************************************)
THEOREM BranchesRight ==
    ASSUME NEW store, NEW cells, DOMAIN store \subseteq Variables, Simulates(cells, store),
           NEW g, NEW cond \in Nat, NEW then, NEW else,
           Variable(cond) \in DOMAIN store, Read(store, cond) \in {0, 1}
    PROVE  LET code  == Select(CondJump(cond, then, else), g)
               after == Effect(cells, code[1])
           IN  /\ Simulates(after, store)
               /\ after[Flag] # 0 <=> Read(store, cond) = 1
               /\ code[2] = Asm("jne", <<g.labels[then + 1]>>)
               /\ code[3] = Asm("jmp", <<g.labels[else + 1]>>)
  <1> DEFINE i == CondJump(cond, then, else)
             code == Select(i, g)
             x == Read(store, cond)
             compared == Set(cells, Flag, x - 0)
  <1>1. i.op = "CONDJUMP" /\ i.cond = cond /\ i.then = then /\ i.else = else
    BY DEF CondJump
  <1> HIDE DEF i
  <1>2. /\ code[1] = Asm("cmpq", <<Immediate(0), Slot(cond)>>)
        /\ code[2] = Asm("jne", <<g.labels[then + 1]>>)
        /\ code[3] = Asm("jmp", <<g.labels[else + 1]>>)
    BY <1>1, SelectByOp
  <1> HIDE DEF code
  <1>3. Held(cells, Slot(cond)) = x /\ Held(cells, Immediate(0)) = 0
    BY ReadIsSlot, SlotHeld DEF Held, Immediate
  <1>4. Effect(cells, code[1]) = compared
    BY <1>2, <1>3, EffectOfComparison
  <1>5. Kept(compared, cells) /\ compared[Flag] = x - 0
    <2>1. Kept(cells, cells) /\ Flag \in {RAX, RDX, Flag}
      BY DEF Kept
    <2>2. Kept(compared, cells)
      BY <2>1, SetKeeps
    <2>3. compared[Flag] = x - 0
      BY SetHolds
    <2> QED
      BY <2>2, <2>3
  <1>6. compared[Flag] # 0 <=> x = 1
    BY <1>5
  <1>7. Simulates(compared, store)
    <2> SUFFICES ASSUME NEW v \in DOMAIN store
                 PROVE  Slot(v[2]) \in DOMAIN compared /\ compared[Slot(v[2])] = store[v]
      BY DEF Simulates
    <2>1. PICK n \in Nat : v = <<"variable", n>>
      BY DEF Variables, Variable
    <2>2. Slot(v[2]) \in MemorySlots
      BY <2>1 DEF MemorySlots
    <2>3. Slot(v[2]) \in DOMAIN cells /\ cells[Slot(v[2])] = store[v]
      BY DEF Simulates
    <2> HIDE DEF compared
    <2> QED
      BY <1>5, <2>2, <2>3 DEF Kept
  <1> QED
    BY <1>2, <1>4, <1>6, <1>7 DEF code, i

(***************************************************************************)
(* cabor_create_unique_ir_var (ir.c:101-113): the variable of a result is  *)
(* none of those made before it, and these keep their names and types.     *)
(***************************************************************************)
THEOREM UniqueIsNew ==
    ASSUME NEW Entry, NEW g, NEW type,
           DOMAIN g = {"code", "vars", "labels", "scope", "result", "end"},
           g.vars \in Seq(Entry)
    PROVE  LET h == UniqueVar(g, type)
           IN  /\ h.result \in Nat /\ h.result \notin 0 .. Len(g.vars) - 1
               /\ h.result + 1 \in DOMAIN h.vars /\ h.vars[h.result + 1].type = type
               /\ \A var \in 0 .. Len(g.vars) - 1 : h.vars[var + 1] = g.vars[var + 1]
  <1> DEFINE h == UniqueVar(g, type)
             entry == [name |-> "<ir_var>", type |-> type]
  <1>1. h.vars = Append(g.vars, entry) /\ h.result = Len(g.vars)
    BY DEF UniqueVar, NewVar
  <1> HIDE DEF h
  <1>2. Len(g.vars) \in Nat /\ DOMAIN g.vars = 1 .. Len(g.vars)
    OBVIOUS
  <1>3. /\ Len(Append(g.vars, entry)) = Len(g.vars) + 1
        /\ DOMAIN Append(g.vars, entry) = 1 .. Len(g.vars) + 1
        /\ Append(g.vars, entry)[Len(g.vars) + 1] = entry
        /\ \A k \in 1 .. Len(g.vars) : Append(g.vars, entry)[k] = g.vars[k]
    BY <1>2
  <1> QED
    BY <1>1, <1>2, <1>3 DEF h
=============================================================================
