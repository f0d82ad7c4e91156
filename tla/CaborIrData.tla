----------------------------- MODULE CaborIrData -----------------------------
(***************************************************************************)
(* The intermediate code, language/ir.h, and how language/ir.c builds it.  *)
(* The state g of the generator holds the variables made so far (numbered  *)
(* from 0, vars[i + 1] is number i), the instructions, the names of the    *)
(* labels, the innermost scope (names to variables), the variable the last *)
(* visit returned and how it ended: "ok", or "aborted" when a vector is    *)
(* read behind its end.                                                    *)
(*                                                                         *)
(* CABOR_IR_VAR_INVALID and CABOR_IR_VAR_UNIT stand where a visit has no   *)
(* variable to return, and go into instructions unseen.                    *)
(*                                                                         *)
(* Below that, what the instructions are meant to do to a store, which     *)
(* holds the values of the variables written so far.                       *)
(***************************************************************************)
EXTENDS CaborAst, TLC

INVALID == -1
UNIT    == -2

Begin(code, vars, scope, result) ==
    [code |-> code, vars |-> vars, labels |-> <<>>, scope |-> scope,
     result |-> result, end |-> "ok"]

Returns(g, var) == [g EXCEPT !.result = var]
Emit(g, instruction) == [g EXCEPT !.code = Append(@, instruction)]

\* cabor_create_ir_var, _unique_ir_var: the number of the new one is returned.
NewVar(g, name, type) ==
    [g EXCEPT !.vars = Append(@, [name |-> name, type |-> type]), !.result = Len(g.vars)]
UniqueVar(g, type) == NewVar(g, "<ir_var>", type)

NewLabels(g, names) == [g EXCEPT !.labels = @ \o names]
Bind(g, name, var) == [g EXCEPT !.scope = Enter(@, name, var)]
Lookup(g, name) == IF Has(g.scope, name) THEN Find(g.scope, name) ELSE INVALID

\* cabor_require_ir_var: an operator's variable is made where it is first used.
Require(g, name, type) ==
    IF Has(g.scope, name) THEN Returns(g, Find(g.scope, name))
    ELSE Bind(NewVar(g, name, type), name, Len(g.vars))

Load(value, dest)   == [op |-> "LOAD", value |-> value, dest |-> dest]
Copy(source, dest)  == [op |-> "COPY", source |-> source, dest |-> dest]
Call(fun, args, to) == [op |-> "CALL", fun |-> fun, args |-> args, dest |-> to]
Jump(label)         == [op |-> "JUMP", label |-> label]
Place(label)        == [op |-> "LABEL", label |-> label]
CondJump(cond, then, else) ==
    [op |-> "CONDJUMP", cond |-> cond, then |-> then, else |-> else]

\* The labels an instruction jumps to.
Targets(i) ==
    CASE i.op = "JUMP"     -> {i.label}
      [] i.op = "CONDJUMP" -> {i.then, i.else}
      [] OTHER             -> {}

-----------------------------------------------------------------------------
(* The machine the instructions are meant for. *)

Variable(var) == <<"variable", var>>
Read(store, var) == store[Variable(var)]

Truth(b) == IF b THEN 1 ELSE 0

\* Division that rounds towards zero.
Magnitude(n) == IF n < 0 THEN -n ELSE n
Quotient(a, b) ==
    LET q == Magnitude(a) \div Magnitude(b) IN IF (a < 0) = (b < 0) THEN q ELSE -q

\* The functions that have a value here, by name.
Infixes  == {"+", "-", "*", "/", "%", "==", "!=", "<", "<=", ">", ">="}
Unaries == {"unary_-", "unary_not"}

\* How many arguments a function looks at.
Takes(name) == IF name \in Infixes THEN 2 ELSE 1

Applied(name, x) ==
    CASE name = "+"  -> x[1] + x[2]
      [] name = "-"  -> x[1] - x[2]
      [] name = "*"  -> x[1] * x[2]
      [] name = "/"  -> Quotient(x[1], x[2])
      [] name = "%"  -> x[1] - x[2] * Quotient(x[1], x[2])
      [] name = "==" -> Truth(x[1] = x[2])
      [] name = "!=" -> Truth(x[1] # x[2])
      [] name = "<"  -> Truth(x[1] < x[2])
      [] name = "<=" -> Truth(x[1] <= x[2])
      [] name = ">"  -> Truth(x[1] > x[2])
      [] name = ">=" -> Truth(x[1] >= x[2])
      [] name = "unary_-"   -> -x[1]
      [] name = "unary_not" -> 1 - x[1]

\* Where the value is the function's: not is defined on truth values alone.
HasValue(name, x) ==
    /\ name \in {"/", "%"} => x[2] # 0
    /\ name = "unary_not" => x[1] \in {0, 1}

ValuesOf(store, args) == [k \in DOMAIN args |-> Read(store, args[k])]

\* What an instruction that is not a jump puts into its destination; name is
\* that of the function it calls.
Outcome(store, i, name) ==
    CASE i.op = "LOAD" -> i.value
      [] i.op = "COPY" -> Read(store, i.source)
      [] i.op = "CALL" -> Applied(name, ValuesOf(store, i.args))

Stored(store, var, value) ==
    [v \in DOMAIN store \union {Variable(var)} |->
        IF v = Variable(var) THEN value ELSE store[v]]
=============================================================================
