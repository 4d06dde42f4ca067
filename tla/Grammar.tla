------------------------------ MODULE Grammar -------------------------------
(***************************************************************************)
(* How a program is written down, after docs/GRAMMAR.md: the reference the *)
(* parser is compared with.  Of several spellings one is taken: the        *)
(* fewest parentheses, x op= e where it can be used, a line break after a  *)
(* brace and between statements.                                           *)
(***************************************************************************)
EXTENDS Syntax, SequencesExt

T(k) == <<[k |-> k, v |-> <<>>]>>
Word(k, v) == <<[k |-> k, v |-> v]>>
Newline == T("nl")
Joined(parts, between) ==           \* the parts, with tokens between them
    FoldLeftDomain(LAMBDA text, i : text \o (IF i = 1 THEN <<>> ELSE between) \o parts[i],
                   <<>>, parts)
Braced(text) == T("{") \o Newline \o text \o T("}")
Round(text) == T("(") \o text \o T(")")

(* The levels of the grammar, loosest first.                               *)
Levels == <<{"||"}, {"&&"}, Equality, Order, {"+", "-"}, {"*", "/", "%"}>>
Level(op) == SelectInSeq(Levels, LAMBDA ops : op \in ops)

RECURSIVE SpellExpr(_, _), SpellBlock(_)

SpellCall(call) ==
    LET Spell(arg) == (IF arg.p = "" THEN <<>> ELSE Word("name", <<arg.p>>) \o T(":"))
                          \o SpellExpr(arg.e, 1)
    IN  Word("name", <<call.f>>)
            \o Round(Joined([i \in 1 .. Len(call.args) |-> Spell(call.args[i])], T(",")))

SpellLiteral(e) ==
    CASE e.t = "int" /\ e.v[1] >= 0 -> Word("number", e.v)
      [] e.t = "int" /\ e.v[1] < 0 -> T("-") \o Word("number", <<-e.v[1]>>)
      [] e.t = "str" -> Word("chars", e.v)
      [] e.t = "bool" -> T(IF e.v = <<1>> THEN "true" ELSE "false")

(* An operand at a level: in parentheses when it binds more loosely.       *)
SpellExpr(e, level) ==
    CASE e.k = "lit" -> SpellLiteral(e)
      [] e.k = "name" -> Word("name", <<e.x>>)
      [] e.k = "call" -> SpellCall(e)
      [] e.k = "un" -> T(e.op) \o SpellExpr(e.e, Len(Levels) + 1)
      [] e.k = "bin" ->
             LET at == Level(e.op)
                 text == SpellExpr(e.l, at) \o T(e.op) \o SpellExpr(e.r, at + 1)
             IN  IF at < level THEN Round(text) ELSE text
Optional(e) == IF e.k = "none" THEN <<>> ELSE SpellExpr(e, 1)

SpellAssign(st) ==
    LET e == st.e
    IN  Word("name", <<st.x>>) \o
        IF e.k = "bin" /\ e.op \in Arithmetic /\ e.l = Name(st.x)
        THEN T(e.op \o "=") \o SpellExpr(e.r, 1)
        ELSE T("=") \o SpellExpr(e, 1)

SpellSimple(st) ==
    CASE st.k = "var" -> T(st.t) \o Word("name", <<st.x>>)
                             \o (IF st.e.k = "none" THEN <<>> ELSE T("=") \o Optional(st.e))
      [] st.k = "assign" -> SpellAssign(st)
      [] st.k = "do" -> SpellCall(st.e)
SpellClause(block) == IF block = <<>> THEN <<>> ELSE SpellSimple(block[1])

(* The second branch as "else if", those after it as "elsif".              *)
SpellBranch(arm, i) ==
    (CASE arm.c.k = "none" -> T("else")
       [] arm.c.k # "none" /\ i = 1 -> T("if") \o Round(Optional(arm.c))
       [] arm.c.k # "none" /\ i = 2 -> T("else") \o T("if") \o Round(Optional(arm.c))
       [] OTHER -> T("elsif") \o Round(Optional(arm.c)))
    \o SpellBlock(arm.body)
SpellCase(arm) ==
    (IF arm.c.k = "none" THEN T("default") ELSE T("case") \o Optional(arm.c))
        \o SpellBlock(arm.body)

SpellStatement(st) ==
    CASE st.k = "while" -> T("while") \o Round(Optional(st.c)) \o SpellBlock(st.body)
      [] st.k = "for" ->
             T("for") \o Round(SpellClause(st.init) \o T(";") \o Optional(st.c)
                                   \o T(";") \o SpellClause(st.step))
                      \o SpellBlock(st.body)
      [] st.k = "if" ->
             Joined([i \in 1 .. Len(st.arms) |-> SpellBranch(st.arms[i], i)], Newline)
      [] st.k = "switch" ->
             T("switch") \o Round(Optional(st.e)) \o Braced(
                 Joined([i \in 1 .. Len(st.arms) |-> SpellCase(st.arms[i])], Newline))
      [] st.k = "return" -> T("return") \o Optional(st.e)
      [] st.k \in {"break", "continue"} -> T(st.k)
      [] OTHER -> SpellSimple(st)

SpellBlock(block) ==
    Braced(Joined([i \in 1 .. Len(block) |-> SpellStatement(block[i])], Newline))

SpellFunction(fun) ==
    LET Spell(p) == Word("name", <<p.x>>)
                        \o (IF p.t = "unknown" THEN <<>> ELSE T(":") \o T(p.t))
    IN  T("func") \o T("->") \o Word("name", <<fun.name>>)
        \o Round(Joined([i \in 1 .. Len(fun.params) |-> Spell(fun.params[i])], T(",")))
        \o (CASE fun.ret = "unknown" -> <<>>
              [] fun.ret = "int" -> T(":") \o T("int")
              [] OTHER -> T("->") \o T(fun.ret))
        \o SpellBlock(fun.body) \o Newline

Spelled(prog) ==
    FoldLeft(LAMBDA text, fun : text \o SpellFunction(fun), <<>>, prog.funs)
        \o T("begin") \o SpellBlock(prog.begin)
=============================================================================
