------------------------------- MODULE Syntax -------------------------------
(***************************************************************************)
(* The abstract syntax of BackAndForth, as src/include/baf.h declares it   *)
(* and the parser builds it, and the built-in functions of src/src/sema.c. *)
(* A value is a sequence of numbers: the characters of a string, one       *)
(* number for an integer, 0 or 1 for a boolean.                            *)
(***************************************************************************)
EXTENDS Integers, Sequences

Types == {"unknown", "void", "int", "str", "bool"}
Printable == {"int", "str", "bool"}

None == [k |-> "none"]              \* a NULL expression

Literal(type, v) == [k |-> "lit", t |-> type, v |-> v]
Number(n) == Literal("int", <<n>>)
Chars(chars) == Literal("str", chars)
Truth(n) == Literal("bool", <<n>>)
Name(x) == [k |-> "name", x |-> x]
Binary(op, l, r) == [k |-> "bin", op |-> op, l |-> l, r |-> r]
Unary(op, e) == [k |-> "un", op |-> op, e |-> e]
Argument(p, e) == [p |-> p, e |-> e]        \* p = "" when positional
Call(f, args) == [k |-> "call", f |-> f, args |-> args]
Invoke(f, es) == Call(f, [i \in 1 .. Len(es) |-> Argument("", es[i])])

Var(type, x, e) == [k |-> "var", t |-> type, x |-> x, e |-> e]
Assign(x, e) == [k |-> "assign", x |-> x, e |-> e]
Do(call) == [k |-> "do", e |-> call]
While(c, body) == [k |-> "while", c |-> c, body |-> body]
For(init, c, step, body) ==                 \* init, step: at most one statement
    [k |-> "for", init |-> init, c |-> c, step |-> step, body |-> body]
If(branches) == [k |-> "if", arms |-> branches]
Switch(e, cases) == [k |-> "switch", e |-> e, arms |-> cases]
Arm(c, body) == [c |-> c, body |-> body]    \* c = None: else, default
Return(e) == [k |-> "return", e |-> e]
Break == [k |-> "break"]
Continue == [k |-> "continue"]

Param(x, type) == [x |-> x, t |-> type]     \* "unknown" when not annotated
Function(f, params, ret, body) ==           \* ret = "unknown": no annotation
    [name |-> f, params |-> params, ret |-> ret, body |-> body]
Program(funs, begin) == [funs |-> funs, begin |-> begin]

Logic == {"&&", "||"}
Equality == {"==", "!="}
Order == {"<", "<=", ">", ">="}
Arithmetic == {"+", "-", "*", "/", "%"}

-----------------------------------------------------------------------------
(* One of the BUILTINS for each shape of call: the rows left out have the  *)
(* parameters and the result of one of these.                              *)
Builtins ==
    {"putsc", "putl", "inpt", "clearc", "DiskCount", "DiskHex", "DiskSelect", "DiskWrite",
     "DiskRead", "DiskGetDir", "StrLength", "StrEquals", "MathAbs", "MathMax"}

BUILTINS ==
    [f \in Builtins |->
        [params |->
             CASE f = "DiskHex" -> <<Param("disk", "int"), Param("lba", "int")>>
               [] f = "DiskSelect" -> <<Param("disk", "int")>>
               [] f = "DiskWrite" -> <<Param("name", "str"), Param("content", "str")>>
               [] f = "DiskRead" -> <<Param("name", "str")>>
               [] f = "StrLength" -> <<Param("text", "str")>>
               [] f = "StrEquals" -> <<Param("left", "str"), Param("right", "str")>>
               [] f = "MathAbs" -> <<Param("value", "int")>>
               [] f = "MathMax" -> <<Param("left", "int"), Param("right", "int")>>
               [] OTHER -> <<>>,
         ret |->
             CASE f \in {"inpt", "DiskRead", "DiskGetDir"} -> "str"
               [] f \in {"DiskSelect", "DiskWrite", "StrEquals"} -> "bool"
               [] f \in {"DiskCount", "StrLength", "MathAbs", "MathMax"} -> "int"
               [] OTHER -> "void"]]

IsBuiltin(f) == f \in Builtins
Variadic(f) == f \in {"putsc", "putl", "inpt"}
=============================================================================
