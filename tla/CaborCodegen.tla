----------------------------- MODULE CaborCodegen -----------------------------
(***************************************************************************)
(* Code generation, language/codegen.c: every instruction of the           *)
(* intermediate code becomes instructions of the x64 processor, each an    *)
(* operation with its operands as they are written, the source first.      *)
(* Every variable has a slot of its own below %rbp.                        *)
(*                                                                         *)
(* Below that, what the assembler takes and what the instructions do.      *)
(***************************************************************************)
EXTENDS CaborIrData, SequencesExt

Asm(op, args) == [op |-> op, args |-> args]

Register(name) == <<"register", name>>
Immediate(n)   == <<"immediate", n>>

\* cabor_init_locals, cabor_get_stack_slot: UNIT shares the first variable's.
Slot(var) == <<"slot", IF var = UNIT THEN 0 ELSE var>>

RAX == Register("rax")
RDX == Register("rdx")
ArgumentRegisters == <<"rdi", "rsi", "rdx", "rcx", "r8", "r9">>

Move(from, to) == Asm("movq", <<from, to>>)

\* cabor_intr_plus, _minus, _multiply
Combine(op, args, to) ==
    IF to = args[1] THEN <<Asm(op, <<args[2], to>>)>>
    ELSE <<Move(args[1], to), Asm(op, <<args[2], to>>)>>

\* cabor_intr_divide, _remainder
Divide(args, from, to) ==
    <<Move(args[1], RAX), Asm("cqto", <<>>), Asm("idivq", <<args[2]>>), Move(from, to)>>

\* Mutant: the operands are compared the other way round.
CompareBack(op, args, to) ==
    <<Asm("xorq", <<RAX, RAX>>), Move(args[2], RDX), Asm("cmpq", <<args[1], RDX>>),
      Asm(op, <<Register("al")>>), Move(RAX, to)>>

\* cabor_intr_comparison
Compare(op, args, to) ==
    <<Asm("xorq", <<RAX, RAX>>), Move(args[1], RDX), Asm("cmpq", <<args[2], RDX>>),
      Asm(op, <<Register("al")>>), Move(RAX, to)>>

\* The comparisons by the names they are called by; < and <= have changed places.
Comparisons ==
    [name \in {"==", "!=", "<", "<=", ">", ">="} |->
        CASE name = "==" -> "sete" [] name = "!=" -> "setne" [] name = "<"  -> "setle"
          [] name = "<=" -> "setl" [] name = ">"  -> "setg"  [] name = ">=" -> "setge"]

\* What is emitted for a function the code generator knows, by its name.
Intrinsic(name, args, to) ==
    CASE name = "unary_-"   -> <<Move(args[1], to), Asm("negq", <<to>>)>>
      [] name = "unary_not" -> <<Move(args[1], to), Asm("xorq", <<Immediate(1), to>>)>>
      [] name = "+" -> Combine("addq", args, to)
      [] name = "-" -> Combine("subq", args, to)
      [] name = "*" -> Combine("imulq", args, to)
      [] name = "/" -> Divide(args, RAX, to)
      [] name = "%" -> Divide(args, RDX, to)
      [] name \in DOMAIN Comparisons -> Compare(Comparisons[name], args, to)
      [] OTHER -> <<>>

Slots(vars) == [k \in DOMAIN vars |-> Slot(vars[k])]

\* A call follows, whether the function was known or not.
SelectCall(name, args, to) ==
    LET pass == [k \in DOMAIN args |-> Move(args[k], Register(ArgumentRegisters[k]))]
    IN  Intrinsic(name, args, to)
          \o (IF Len(args) > Len(ArgumentRegisters) THEN <<>>
              ELSE pass \o <<Asm("call", <<name>>), Move(RAX, to)>>)

\* Mutant: the value is compared with true, not with false.
SelectBack(i, g) ==
    LET label(n) == g.labels[n + 1] IN
    CASE i.op = "LOAD"  -> <<Move(Immediate(i.value), Slot(i.dest))>>
      [] i.op = "COPY"  -> <<Move(Slot(i.source), RAX), Move(RAX, Slot(i.dest))>>
      [] i.op = "JUMP"  -> <<Asm("jmp", <<label(i.label)>>)>>
      [] i.op = "LABEL" -> <<Asm("label", <<label(i.label)>>)>>
      [] i.op = "CONDJUMP" ->
           <<Asm("cmpq", <<Immediate(1), Slot(i.cond)>>), Asm("jne", <<label(i.then)>>),
             Asm("jmp", <<label(i.else)>>)>>
      [] i.op = "CALL"  -> SelectCall(g.vars[i.fun + 1].name, Slots(i.args), Slot(i.dest))

\* The body of the loop of cabor_generate_assembly.
Select(i, g) ==
    LET label(n) == g.labels[n + 1] IN
    CASE i.op = "LOAD"  -> <<Move(Immediate(i.value), Slot(i.dest))>>
      [] i.op = "COPY"  -> <<Move(Slot(i.source), RAX), Move(RAX, Slot(i.dest))>>
      [] i.op = "JUMP"  -> <<Asm("jmp", <<label(i.label)>>)>>
      [] i.op = "LABEL" -> <<Asm("label", <<label(i.label)>>)>>
      [] i.op = "CONDJUMP" ->
           <<Asm("cmpq", <<Immediate(0), Slot(i.cond)>>), Asm("jne", <<label(i.then)>>),
             Asm("jmp", <<label(i.else)>>)>>
      [] i.op = "CALL"  -> SelectCall(g.vars[i.fun + 1].name, Slots(i.args), Slot(i.dest))

\* main, with the last two lines cabor_compile adds.
Assembly(g) ==
    FoldLeft(LAMBDA all, i : all \o Select(i, g), <<>>, g.code)
      \o <<Move(RAX, Slot(3)), Asm("ret", <<>>)>>

-----------------------------------------------------------------------------
(* The assembler and the linker, with the functions of language/preamble.h *)

Preamble == {"print_int", "print_bool"}

SetOps == {"sete", "setne", "setl", "setle", "setg", "setge"}

InMemory(a) == {k \in DOMAIN a.args : a.args[k][1] = "slot"}
Defined(asm, name) == {k \in DOMAIN asm : asm[k].op = "label" /\ asm[k].args = <<name>>}

\* No instruction has two operands in memory, no line runs on into the next
\* (those of the set instructions do), and every name has one meaning.
Accepted(asm) ==
    \A k \in DOMAIN asm :
        LET a == asm[k] IN
        CASE a.op = "call"           -> a.args[1] \in Preamble
          [] a.op \in {"jmp", "jne", "label"} -> Cardinality(Defined(asm, a.args[1])) = 1
          [] a.op \in SetOps -> FALSE
          [] OTHER                   -> Cardinality(InMemory(a)) < 2

-----------------------------------------------------------------------------
(* The processor.  cells holds registers, slots and the last comparison.   *)

Flag == <<"register", "flags">>

Held(cells, operand) == IF operand[1] = "immediate" THEN operand[2] ELSE cells[operand]

Satisfies(op, n) ==
    CASE op = "sete" -> n = 0 [] op = "setne" -> n # 0 [] op = "setl" -> n < 0
      [] op = "setle" -> n <= 0 [] op = "setg" -> n > 0 [] op = "setge" -> n >= 0

\* The lowest bit, the other way.
Toggled(n) == IF n % 2 = 0 THEN n + 1 ELSE n - 1

\* What cqto puts behind the sign of the dividend.
Extension(n) == IF n < 0 THEN -1 ELSE 0

Set(cells, cell, value) ==
    [c \in DOMAIN cells \union {cell} |-> IF c = cell THEN value ELSE cells[c]]

\* What an instruction with two operands makes of their values.
Combined(op, from, into) ==
    CASE op = "movq"  -> from
      [] op = "addq"  -> into + from
      [] op = "subq"  -> into - from
      [] op = "imulq" -> into * from

Zeroes(a)  == a.op = "xorq" /\ a.args[1] = a.args[2]
Toggles(a) == a.op = "xorq" /\ a.args[1] = Immediate(1)

\* rax and rdx are one number if one is the sign of the other.
AfterIdiv(cells, by) ==
    IF cells[RDX] # Extension(cells[RAX]) THEN cells
    ELSE Set(Set(cells, RAX, Quotient(cells[RAX], by)),
             RDX, cells[RAX] - by * Quotient(cells[RAX], by))

\* What an instruction that is not a jump or a call leaves in the cells.
Effect(cells, a) ==
    LET H(k) == Held(cells, a.args[k])
    IN  CASE a.op \in {"movq", "addq", "subq", "imulq"} ->
               Set(cells, a.args[2], Combined(a.op, H(1), H(2)))
          [] Zeroes(a)         -> Set(cells, a.args[2], 0)
          [] Toggles(a)        -> Set(cells, a.args[2], Toggled(H(2)))
          [] a.op = "negq"     -> Set(cells, a.args[1], -H(1))
          [] a.op = "cmpq"     -> Set(cells, Flag, H(2) - H(1))
          [] a.op = "cqto"     -> Set(cells, RDX, Extension(cells[RAX]))
          [] a.op = "idivq"    -> AfterIdiv(cells, H(1))
          [] a.op \in SetOps   -> Set(cells, RAX, Truth(Satisfies(a.op, cells[Flag])))
          [] OTHER             -> cells

\* What instructions that follow each other leave in the cells.
Executed(cells, code) ==
    LET run[k \in 0 .. Len(code)] == IF k = 0 THEN cells ELSE Effect(run[k - 1], code[k])
    IN  run[Len(code)]

\* The slots hold what the store holds, whatever there is in the registers.
Simulates(cells, store) ==
    \A v \in DOMAIN store : Slot(v[2]) \in DOMAIN cells /\ cells[Slot(v[2])] = store[v]

\* What is emitted for the operator of a call does to the cells what the call is
\* meant to do to the store, and nothing else to its variables.
OperatorRight(cells, store, i, name) ==
    Simulates(Executed(cells, Intrinsic(name, Slots(i.args), Slot(i.dest))),
              Stored(store, i.dest, Outcome(store, i, name)))
=============================================================================
