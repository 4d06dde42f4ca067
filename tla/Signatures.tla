----------------------------- MODULE Signatures ------------------------------
(***************************************************************************)
(* What the analysis and the generation of code both read: the program,    *)
(* the functions it declares, the parameter an argument is for, and the    *)
(* types of results and operators.                                         *)
(***************************************************************************)
EXTENDS Syntax, SequencesExt

VARIABLES
    program,    \* what the parser built, fixed
    stage,      \* where the compiler is
    typing      \* the types of parameters and results found so far

Declared == {program.funs[i].name : i \in 1 .. Len(program.funs)}

(* find_function: the first of that name.                                  *)
First(funs, f) == SelectSeq(funs, LAMBDA fun : fun.name = f)[1]
Find(f) == First(program.funs, f)

ParamsOf(f) == IF IsBuiltin(f) THEN BUILTINS[f].params ELSE Find(f).params

(* The parameter argument i of a call is for, 0 if none.  The parser lets  *)
(* no positional argument follow a named one, so the i-th of those is for  *)
(* parameter i.                                                            *)
Target(call, i) ==
    CASE Variadic(call.f) -> i
      [] ~Variadic(call.f) /\ call.args[i].p = "" ->
             IF i <= Len(ParamsOf(call.f)) THEN i ELSE 0
      [] OTHER -> SelectInSeq(ParamsOf(call.f), LAMBDA p : p.x = call.args[i].p)

Names(f) == {Find(f).params[i].x : i \in 1 .. Len(Find(f).params)}

Result(c, f) == IF IsBuiltin(f) THEN BUILTINS[f].ret ELSE c.ret[f]

Operand(op) ==                  \* "unknown": decided by the operands
    CASE op \in Logic \cup {"!"} -> "bool"
      [] op \in Equality \cup {"+"} -> "unknown"
      [] OTHER -> "int"
Outcome(op) ==
    IF op \in Logic \cup Equality \cup Order \cup {"!"} THEN "bool" ELSE "int"

(* The bodies in the order of the passes: the functions, then the entry.   *)
Units == Append(program.funs, Function("begin", <<>>, "void", program.begin))
=============================================================================
