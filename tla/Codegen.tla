------------------------------ MODULE Codegen -------------------------------
(***************************************************************************)
(* Code generation, src/src/codegen.c.  The text of a function is a        *)
(* sequence of lines: instructions, labels, terminators.  A generator g    *)
(* carries what ModuleGen and CgEnv carry, and the value of the last       *)
(* expression.  The functions of codegen.c call each other down the tree:  *)
(* the calls under way are a stack of work, the innermost first, and each  *)
(* piece of work is what such a call does up to its next call.  Stack      *)
(* slots are numbered, and so are temporaries, labels and input buffers;   *)
(* allocas are left out, they reach the entry block whatever comes before. *)
(***************************************************************************)
EXTENDS Signatures

CONSTANT MaxLoops       \* entries of the loop stack, 64 in the code
ASSUME CodegenAssumption == MaxLoops \in Nat \ {0}

VARIABLES
    code,       \* the functions emitted so far: the lines of each
    gen,        \* the generator of the function under way
    work,       \* what is left to do for it
    unit        \* which of the Units it is

codegenVars == <<code, gen, work, unit>>

With(f, x, v) == [y \in DOMAIN f \cup {x} |-> IF y = x THEN v ELSE f[y]]

Value(is, t, v) == [is |-> is, t |-> t, v |-> v]
Nothing == Value("const", "void", <<>>)
ZeroOf(t) == IF t = "str" THEN <<>> ELSE <<0>>
Zero(t) == Value("const", t, ZeroOf(t))

(* A fresh generator for one function; sites counts over the module.       *)
Fresh(sites) ==
    [lines |-> <<>>, env |-> <<>>, seen |-> <<>>, value |-> Nothing,
     temp |-> 0, label |-> 1, slot |-> 0, loops |-> <<>>, sites |-> sites]

Emit(g, line) == [g EXCEPT !.lines = Append(@, line)]
Label(g, l) == Emit(g, [op |-> "label", to |-> l])
Jump(g, l) == Emit(g, [op |-> "br", to |-> l])
Branch(g, yes, no) ==           \* on the value of g
    Emit(g, [op |-> "if", on |-> g.value, yes |-> yes, no |-> no])
Ret(g, last) == Emit(g, [op |-> "ret", from |-> g.value, last |-> last])
Holding(g, value) == [g EXCEPT !.value = value]
Take(g, n) == [g EXCEPT !.label = @ + n]        \* new_label, n times
Slot(g) == [g EXCEPT !.slot = @ + 1]            \* new_slot
Store(g, slot, t) ==                            \* the value of g
    Emit(g, [op |-> "store", slot |-> slot, t |-> t, from |-> g.value])

(* Faulty: what follows a terminator is left in its block.                 *)
NoDeadBlock(g) == g
StartDeadBlock(g) == Label(Take(g, 1), g.label)

(* An instruction with a result, left in a new temporary.                  *)
Compute(g, line, t) ==
    Holding([Emit(g, With(line, "d", g.temp)) EXCEPT !.temp = @ + 1],
         Value("temp", t, <<g.temp>>))
Calc(g, f, args, t) == Compute(g, [op |-> "calc", f |-> f, args |-> args], t)
Load(g, slot, t) == Compute(g, [op |-> "load", slot |-> slot], t)
CallTo(g, f, args, t) ==
    LET line == [op |-> "call", f |-> f, args |-> args, t |-> t]
    IN  IF t = "void" THEN Holding(Emit(g, line), Nothing) ELSE Compute(g, line, t)

(* The loop stack; a frame that does not fit is dropped.                   *)
LoopPush(g, out, next) ==
    IF Len(g.loops) >= MaxLoops THEN g
    ELSE [g EXCEPT !.loops = Append(@, [out |-> out, next |-> next])]
LoopPop(g) ==
    IF g.loops = <<>> THEN g
    ELSE [g EXCEPT !.loops = SubSeq(@, 1, Len(@) - 1)]

Declare(g, x, slot, t) == [g EXCEPT !.env = With(@, x, [slot |-> slot, t |-> t])]

-----------------------------------------------------------------------------
(* The pieces of work.  Those of expressions leave a value in g.           *)
ToEval(e) == [do |-> "eval", e |-> e]
ToUnary(op) == [do |-> "unary", op |-> op]
ToRight(e) == [do |-> "right", e |-> e]             \* the left side is in g
ToCombine(op, left) == [do |-> "combine", op |-> op, left |-> left]
ToFork(e, slot) == [do |-> "fork", e |-> e, slot |-> slot]
ToStore(slot, t) == [do |-> "store", slot |-> slot, t |-> t]
ToLoad(slot, t) == [do |-> "load", slot |-> slot, t |-> t]
ToPass(call, i, vals) ==        \* argument i is in g, if i # 0
    [do |-> "pass", call |-> call, i |-> i, vals |-> vals]
ToPrint(vals) == [do |-> "print", vals |-> vals]
ToApply(f, vals) == [do |-> "apply", f |-> f, vals |-> vals]

ToLabel(l) == [do |-> "label", to |-> l]
ToJump(l) == [do |-> "jump", to |-> l]
ToBranch(yes, no) == [do |-> "branch", yes |-> yes, no |-> no]
ToTest(c, yes, no) == [do |-> "test", c |-> c, yes |-> yes, no |-> no]
ToEnter(body, out, next) ==
    [do |-> "enter", to |-> body, out |-> out, next |-> next]
ToLeave == [do |-> "leave"]

ToBind(i) == [do |-> "bind", i |-> i]               \* parameter i and the rest
ToBlock(block) == [do |-> "block", block |-> block]
ToMake(st) == [do |-> "make", st |-> st]
ToScope(env) == [do |-> "scope", env |-> env]       \* env_pop_to
ToDeclare(st, slot) == [do |-> "declare", st |-> st, slot |-> slot]
ToAssign(x) == [do |-> "assign", x |-> x]
ToLoop(st, env) == [do |-> "loop", st |-> st, env |-> env]
ToArms(arms, end) == [do |-> "arms", arms |-> arms, end |-> end]
ToSwitch(arms) == [do |-> "switch", arms |-> arms]
ToTests(subject, arms, at, other) ==                \* the arms are labelled from at
    [do |-> "tests", subject |-> subject, arms |-> arms, at |-> at, other |-> other]
ToCompare(subject) == [do |-> "compare", subject |-> subject]
ToBodies(arms, at, end) == [do |-> "bodies", arms |-> arms, at |-> at, end |-> end]
ToReturn == [do |-> "return"]

Unit == Units[unit]
Task == Head(work)
Doing(what) == stage = "generating" /\ work # <<>> /\ Task.do = what
Evaluating(k) == Doing("eval") /\ Task.e.k = k
Making(k) == Doing("make") /\ Task.st.k = k

(* The first piece of work is done, but for these.                         *)
Step(g, tasks) ==
    /\ gen' = g /\ work' = tasks \o Tail(work)
    /\ UNCHANGED <<program, stage, typing, code, unit>>

-----------------------------------------------------------------------------
(* Expressions.                                                            *)
CgLiteral ==
    Evaluating("lit") /\ Step(Holding(gen, Value("const", Task.e.t, Task.e.v)), <<>>)

(* A name the environment does not have reads as zero, with the type the   *)
(* analyser saw.                                                           *)
CgName ==
    LET x == Task.e.x
    IN  /\ Evaluating("name")
        /\ Step(IF x \in DOMAIN gen.env THEN Load(gen, gen.env[x].slot, gen.env[x].t)
                ELSE Holding(gen, Zero(gen.seen[x])), <<>>)

CgUnary == Evaluating("un") /\ Step(gen, <<ToEval(Task.e.e), ToUnary(Task.e.op)>>)
CgUnaryOperation ==
    /\ Doing("unary")
    /\ Step(IF Task.op = "!" THEN Calc(gen, "!", <<gen.value>>, "bool")
            ELSE Calc(gen, "-", <<Zero("int"), gen.value>>, "int"), <<>>)

(* The right side of && and || runs in a block of its own, and the result  *)
(* goes through a slot.  Faulty: the result is the value of the right side.*)
CgLogic ==
    /\ Evaluating("bin") /\ Task.e.op \in Logic
    /\ Step(Slot(gen), <<ToEval(Task.e.l), ToFork(Task.e, gen.slot)>>)
CgForkUnslotted ==
    LET left == Take(Store(gen, Task.slot, "bool"), 2)
        rhs == gen.label
        end == gen.label + 1
    IN  /\ Doing("fork")
        /\ Step(IF Task.e.op = "&&" THEN Branch(left, rhs, end) ELSE Branch(left, end, rhs),
                <<ToLabel(rhs), ToEval(Task.e.r), ToJump(end), ToLabel(end)>>)
CgFork ==
    LET left == Take(Store(gen, Task.slot, "bool"), 2)
        rhs == gen.label
        end == gen.label + 1
    IN  /\ Doing("fork")
        /\ Step(IF Task.e.op = "&&" THEN Branch(left, rhs, end) ELSE Branch(left, end, rhs),
                <<ToLabel(rhs), ToEval(Task.e.r), ToStore(Task.slot, "bool"),
                  ToJump(end), ToLabel(end), ToLoad(Task.slot, "bool")>>)
CgStore == Doing("store") /\ Step(Store(gen, Task.slot, Task.t), <<>>)
CgLoad == Doing("load") /\ Step(Load(gen, Task.slot, Task.t), <<>>)

CgBinary ==
    /\ Evaluating("bin") /\ Task.e.op \notin Logic
    /\ Step(gen, <<ToEval(Task.e.l), ToRight(Task.e)>>)
CgRight ==
    Doing("right") /\ Step(gen, <<ToEval(Task.e.r), ToCombine(Task.e.op, gen.value)>>)

(* Faulty: every value is converted as an integer is.                      *)
AsNumber(g, value) ==
    IF value.t = "str" THEN Holding(g, value)
    ELSE CallTo(g, "from.int", <<value>>, "str")
AsText(g, value) ==             \* codegen_to_string
    IF value.t = "str" THEN Holding(g, value)
    ELSE CallTo(g, IF value.t = "bool" THEN "from.bool" ELSE "from.int", <<value>>, "str")

Concat(g, l, r) ==
    LET a == AsText(g, l)
        b == AsText(a, r)
    IN  CallTo(b, "concat", <<a.value, b.value>>, "str")

Equal(g, op, l, r) ==
    IF "str" \notin {l.t, r.t} THEN Calc(g, op, <<l, r>>, "bool")
    ELSE LET e == CallTo(g, "StrEquals", <<l, r>>, "bool")
         IN  IF op = "==" THEN e ELSE Calc(e, "!", <<e.value>>, "bool")

(* n / 0 is 0: the divisor is replaced by 1, the quotient by 0.            *)
CgDivide(g, op, l, r) ==
    LET is == Calc(g, "==", <<r, Zero("int")>>, "bool")
        safe == Calc(is, "select", <<is.value, Value("const", "int", <<1>>), r>>, "int")
        raw == Calc(safe, op, <<l, safe.value>>, "int")
    IN  Calc(raw, "select", <<is.value, Zero("int"), raw.value>>, "int")

CgOperation(g, op, l, r) ==
    CASE op = "+" /\ "str" \in {l.t, r.t} -> Concat(g, l, r)
      [] op \in Equality -> Equal(g, op, l, r)
      [] op \in {"/", "%"} -> CgDivide(g, op, l, r)
      [] OTHER -> Calc(g, op, <<l, r>>, Outcome(op))
CgCombine ==
    Doing("combine") /\ Step(CgOperation(gen, Task.op, Task.left, gen.value), <<>>)

-----------------------------------------------------------------------------
(* Calls: the arguments in the order they are written, their values in the *)
(* order of the parameters.  Faulty: in the order they are written.        *)
ArgumentAsWritten(vals, call, i, value) == [vals EXCEPT ![i] = value]
CgArgument(vals, call, i, value) == [vals EXCEPT ![Target(call, i)] = value]

CgCall ==
    /\ Evaluating("call")
    /\ Step(gen, <<ToPass(Task.e, 0, [i \in 1 .. Len(Task.e.args) |-> Nothing])>>)

CgPass ==
    LET call == Task.call
        i == Task.i
        vals == IF i = 0 THEN Task.vals ELSE CgArgument(Task.vals, call, i, gen.value)
    IN  /\ Doing("pass")
        /\ \/ i < Len(call.args)
              /\ Step(gen, <<ToEval(call.args[i + 1].e), ToPass(call, i + 1, vals)>>)
           \/ i = Len(call.args)
              /\ Step(gen, IF Variadic(call.f) THEN <<ToPrint(vals), ToApply(call.f, <<>>)>>
                           ELSE <<ToApply(call.f, vals)>>)

Put(g, value) ==                \* codegen_print_value
    IF value.t \in Printable THEN CallTo(g, "put." \o value.t, <<value>>, "void") ELSE g
CgPrint ==
    /\ Doing("print")
    /\ IF Task.vals = <<>> THEN Step(gen, <<>>)
       ELSE Step(Put(gen, Head(Task.vals)), <<ToPrint(Tail(Task.vals))>>)

(* inpt has a static buffer of its own at each place it is written.        *)
Input(g) ==
    CallTo([g EXCEPT !.sites = @ + 1], "input",
           <<Value("const", "buffer", <<g.sites>>)>>, "str")

CgAbs(g, x) ==
    LET n == Calc(g, "-", <<Zero("int"), x>>, "int")
        is == Calc(n, "<", <<x, Zero("int")>>, "bool")
    IN  Calc(is, "select", <<is.value, n.value, x>>, "int")
CgMax(g, x, y) ==
    LET is == Calc(g, ">", <<x, y>>, "bool")
    IN  Calc(is, "select", <<is.value, x, y>>, "int")

Applied(g, f, v) ==             \* the call itself, on the values of its arguments
    CASE f = "putsc" -> CallTo(g, "newline", <<>>, "void")
      [] f = "putl" -> Holding(g, Nothing)
      [] f = "inpt" -> Input(g)
      [] f = "StrLength" -> Calc(g, "len", v, "int")
      [] f = "MathAbs" -> CgAbs(g, v[1])
      [] f = "MathMax" -> CgMax(g, v[1], v[2])
      [] OTHER -> CallTo(g, f, v, Result(typing, f))
CgApply == Doing("apply") /\ Step(Applied(gen, Task.f, Task.vals), <<>>)

-----------------------------------------------------------------------------
(* Statements.                                                             *)
CgLabel == Doing("label") /\ Step(Label(gen, Task.to), <<>>)
CgJump == Doing("jump") /\ Step(Jump(gen, Task.to), <<>>)
CgBranch == Doing("branch") /\ Step(Branch(gen, Task.yes, Task.no), <<>>)
CgTest ==                       \* a for may have no condition
    /\ Doing("test")
    /\ IF Task.c.k = "none" THEN Step(Jump(gen, Task.yes), <<>>)
       ELSE Step(gen, <<ToEval(Task.c), ToBranch(Task.yes, Task.no)>>)
CgEnter ==
    Doing("enter") /\ Step(LoopPush(Label(gen, Task.to), Task.out, Task.next), <<>>)
CgLeave == Doing("leave") /\ Step(LoopPop(gen), <<>>)

CgBlock ==
    /\ Doing("block")
    /\ IF Task.block = <<>> THEN Step(gen, <<>>)
       ELSE Step(gen, <<ToMake(Head(Task.block)), ToBlock(Tail(Task.block))>>)
CgScope == Doing("scope") /\ Step([gen EXCEPT !.env = Task.env], <<>>)

CgVar ==
    LET st == Task.st
    IN  /\ Making("var")
        /\ IF st.e.k = "none"
           THEN Step(Holding(Slot(gen), Zero(st.t)), <<ToDeclare(st, gen.slot)>>)
           ELSE Step(Slot(gen), <<ToEval(st.e), ToDeclare(st, gen.slot)>>)
CgDeclare ==
    LET st == Task.st
        there == Declare(Store(gen, Task.slot, st.t), st.x, Task.slot, st.t)
    IN  Doing("declare") /\ Step([there EXCEPT !.seen = With(@, st.x, st.t)], <<>>)

(* The variable is dereferenced without a test.                            *)
CgAssign == Making("assign") /\ Step(gen, <<ToEval(Task.st.e), ToAssign(Task.st.x)>>)
CgAssigned ==
    LET var == gen.env[Task.x]
    IN  /\ Doing("assign") /\ Task.x \in DOMAIN gen.env
        /\ Step(Store(gen, var.slot, var.t), <<>>)
CgCrash ==
    /\ Doing("assign") /\ Task.x \notin DOMAIN gen.env
    /\ stage' = "crashed"
    /\ UNCHANGED <<program, typing, codegenVars>>

CgDo == Making("do") /\ Step(gen, <<ToEval(Task.st.e)>>)

CgWhile ==
    LET st == Task.st
        cond == gen.label
        body == cond + 1
        end == cond + 2
    IN  /\ Making("while")
        /\ Step(Label(Jump(Take(gen, 3), cond), cond),
                <<ToTest(st.c, body, end), ToEnter(body, end, cond), ToBlock(st.body),
                  ToLeave, ToScope(gen.env), ToJump(cond), ToLabel(end)>>)

CgFor == Making("for") /\ Step(gen, <<ToBlock(Task.st.init), ToLoop(Task.st, gen.env)>>)

(* Faulty: continue skips the step.                                        *)
CgLoopContinued ==
    LET st == Task.st
        cond == gen.label
        body == cond + 1
        end == cond + 2
    IN  /\ Doing("loop")
        /\ Step(Label(Jump(Take(gen, 3), cond), cond),
                <<ToTest(st.c, body, end), ToEnter(body, end, cond), ToBlock(st.body),
                  ToLeave, ToScope(gen.env), ToBlock(st.step), ToJump(cond), ToLabel(end),
                  ToScope(Task.env)>>)
CgLoop ==
    LET st == Task.st
        cond == gen.label
        body == cond + 1
        step == cond + 2
        end == cond + 3
    IN  /\ Doing("loop")
        /\ Step(Label(Jump(Take(gen, 4), cond), cond),
                <<ToTest(st.c, body, end), ToEnter(body, end, step), ToBlock(st.body),
                  ToLeave, ToScope(gen.env), ToJump(step), ToLabel(step), ToBlock(st.step),
                  ToJump(cond), ToLabel(end), ToScope(Task.env)>>)

CgIf ==
    LET end == gen.label
    IN  Making("if") /\ Step(Take(gen, 1), <<ToArms(Task.st.arms, end), ToJump(end), ToLabel(end)>>)
CgArms ==                       \* an else is the last that is looked at
    LET arm == Head(Task.arms)
        then == gen.label
        next == gen.label + 1
    IN  /\ Doing("arms")
        /\ \/ Task.arms = <<>> /\ Step(gen, <<>>)
           \/ Task.arms # <<>> /\ arm.c.k = "none"
              /\ Step(gen, <<ToBlock(arm.body), ToScope(gen.env)>>)
           \/ Task.arms # <<>> /\ arm.c.k # "none"
              /\ Step(Take(gen, 2),
                      <<ToEval(arm.c), ToBranch(then, next), ToLabel(then), ToBlock(arm.body),
                        ToScope(gen.env), ToJump(Task.end), ToLabel(next),
                        ToArms(Tail(Task.arms), Task.end)>>)

(* One test after the other; a miss of the last goes to the default case.  *)
CgSwitch == Making("switch") /\ Step(gen, <<ToEval(Task.st.e), ToSwitch(Task.st.arms)>>)
CgCases ==
    LET arms == Task.arms
        end == gen.label
        DefaultAt(i) == arms[i].c.k = "none"
        other == IF \E i \in 1 .. Len(arms) : DefaultAt(i)
                 THEN end + (CHOOSE i \in 1 .. Len(arms) : DefaultAt(i)) ELSE end
    IN  /\ Doing("switch")
        /\ Step(Take(gen, Len(arms) + 1),
                <<ToTests(gen.value, arms, end + 1, other), ToBodies(arms, end + 1, end)>>)
CgTests ==
    LET arms == Task.arms
        Hit(no) == <<ToEval(Head(arms).c), ToCompare(Task.subject), ToBranch(Task.at, no)>>
        Rest == ToTests(Task.subject, Tail(arms), Task.at + 1, Task.other)
        only == \A i \in 2 .. Len(arms) : arms[i].c.k = "none"
    IN  /\ Doing("tests")
        /\ \/ arms = <<>> /\ Step(Jump(gen, Task.other), <<>>)
           \/ arms # <<>> /\ Head(arms).c.k = "none" /\ Step(gen, <<Rest>>)
           \/ arms # <<>> /\ Head(arms).c.k # "none" /\ only /\ Step(gen, Hit(Task.other))
           \/ arms # <<>> /\ Head(arms).c.k # "none" /\ ~only
              /\ Step(Take(gen, 1), Hit(gen.label) \o <<ToLabel(gen.label), Rest>>)
CgCompare == Doing("compare") /\ Step(Equal(gen, "==", Task.subject, gen.value), <<>>)
CgBodies ==
    LET arms == Task.arms
    IN  /\ Doing("bodies")
        /\ IF arms = <<>> THEN Step(Label(gen, Task.end), <<>>)
           ELSE Step(Label(gen, Task.at),
                     <<ToBlock(Head(arms).body), ToScope(gen.env), ToJump(Task.end),
                       ToBodies(Tail(arms), Task.at + 1, Task.end)>>)

ResultOf(f) == IF f = "begin" THEN "void" ELSE typing.ret[f]
Missing(t) == IF t = "void" THEN Nothing ELSE Zero(t)

CgReturn ==
    LET e == Task.st.e
    IN  /\ Making("return")
        /\ IF e.k = "none" THEN Step(Holding(gen, Missing(ResultOf(Unit.name))), <<ToReturn>>)
           ELSE Step(gen, <<ToEval(e), ToReturn>>)
CgReturned == Doing("return") /\ Step(StartDeadBlock(Ret(gen, FALSE)), <<>>)

CgExit ==                       \* break and continue
    LET frame == gen.loops[Len(gen.loops)]
        to == IF Task.st.k = "break" THEN frame.out ELSE frame.next
    IN  /\ Making("break") \/ Making("continue")
        /\ IF gen.loops = <<>> THEN Step(gen, <<>>)
           ELSE Step(StartDeadBlock(Jump(gen, to)), <<>>)

-----------------------------------------------------------------------------
(* Parameters are stored to slots of their own.                            *)
CgParam(g, f, i) ==
    LET p == Find(f).params[i]
        t == typing.par[f][p.x]
    IN  Declare(Store(Holding(Slot(g), Value("param", t, <<i>>)), g.slot, t), p.x, g.slot, t)
CgBind ==
    LET i == Task.i
    IN  /\ Doing("bind")
        /\ IF i > Len(Unit.params) THEN Step(gen, <<>>)
           ELSE Step(CgParam(gen, Unit.name, i), <<ToBind(i + 1)>>)

(* emit_llvm_ir: the functions in order, then the entry; the file is       *)
(* written at the end, if it can be.                                       *)
OpenUnit(i, sites) ==
    /\ gen' = Fresh(sites)
    /\ work' = <<ToBind(1), ToBlock(Units[i].body)>>
    /\ unit' = i
Ended == Ret(Holding(gen, Missing(ResultOf(Unit.name))), TRUE)

CgBegin ==
    /\ stage = "accepted" /\ stage' = "generating"
    /\ code' = <<>> /\ OpenUnit(1, 1)
    /\ UNCHANGED <<program, typing>>
CgFunction ==
    /\ stage = "generating" /\ work = <<>> /\ unit < Len(Units)
    /\ code' = With(code, Unit.name, Ended.lines)
    /\ OpenUnit(unit + 1, gen.sites)
    /\ UNCHANGED <<program, stage, typing>>
CgEntry ==
    /\ stage = "generating" /\ work = <<>> /\ unit = Len(Units)
    /\ code' = With(code, Unit.name, Ended.lines)
    /\ stage' \in {"written", "unwritable"}
    /\ UNCHANGED <<program, typing, gen, work, unit>>

CgNext ==
    \/ CgBegin \/ CgFunction \/ CgEntry \/ CgBind
    \/ CgLiteral \/ CgName \/ CgUnary \/ CgUnaryOperation
    \/ CgLogic \/ CgFork \/ CgStore \/ CgLoad \/ CgBinary \/ CgRight \/ CgCombine
    \/ CgCall \/ CgPass \/ CgPrint \/ CgApply
    \/ CgLabel \/ CgJump \/ CgBranch \/ CgTest \/ CgEnter \/ CgLeave
    \/ CgBlock \/ CgScope \/ CgVar \/ CgDeclare \/ CgAssign \/ CgAssigned \/ CgCrash
    \/ CgDo \/ CgWhile \/ CgFor \/ CgLoop \/ CgIf \/ CgArms
    \/ CgSwitch \/ CgCases \/ CgTests \/ CgCompare \/ CgBodies
    \/ CgReturn \/ CgReturned \/ CgExit

(* What the parser builds and the analysis lets through, as far as the     *)
(* generator depends on it: E are the expressions and S the statements of  *)
(* the program, with the parts of each, and calls have their arguments.    *)
ExpressionBuilt(E, e) ==
    /\ e.k = "un" => e.e \in E
    /\ e.k = "bin" => e.l \in E /\ e.r \in E
    /\ e.k = "call" =>
           /\ e.args \in Seq([p: STRING, e: E])
           /\ ~Variadic(e.f) => Len(e.args) = Len(ParamsOf(e.f))
StatementBuilt(E, S, st) ==
    /\ st.k \in {"var", "assign", "do", "switch", "return"} => st.e \in E \cup {None}
    /\ st.k \in {"while", "for"} => st.c \in E \cup {None} /\ st.body \in Seq(S)
    /\ st.k = "for" => st.init \in Seq(S) /\ st.step \in Seq(S)
    /\ st.k \in {"if", "switch"} =>
           st.arms \in Seq([c: E \cup {None}, body: Seq(S)])
Built(E, S) ==
    /\ \A e \in E : ExpressionBuilt(E, e)
    /\ \A st \in S : StatementBuilt(E, S, st)
    /\ program.funs \in Seq(Range(program.funs))
    /\ \A i \in 1 .. Len(Units) : Units[i].body \in Seq(S)

CodegenInit == stage = "accepted" /\ \E E, S : Built(E, S)
CodegenSpec == CodegenInit /\ [][CgNext]_<<program, stage, typing, codegenVars>>

-----------------------------------------------------------------------------
(* What LLVM asks of the text of a function.  Every block ends in one      *)
(* terminator, a label is defined once, and every target is defined.       *)
Terminators == {"br", "if", "ret"}
Targets(line) ==
    CASE line.op = "br" -> {line.to}
      [] line.op = "if" -> {line.yes, line.no}
      [] OTHER -> {}

BlocksClosed(lines) ==
    /\ lines[1].op # "label" /\ lines[Len(lines)].op = "ret"
    /\ \A i \in 1 .. Len(lines) - 1 :
           lines[i].op \in Terminators <=> lines[i + 1].op = "label"
    /\ \A i, j \in 1 .. Len(lines) :
           lines[i].op = "label" /\ lines[j].op = "label" /\ lines[i].to = lines[j].to
               => i = j
    /\ \A i \in 1 .. Len(lines) : \A l \in Targets(lines[i]) :
           \E j \in 1 .. Len(lines) : lines[j].op = "label" /\ lines[j].to = l

(* A temporary is defined once, before it is read, and a label between the *)
(* two is reached from between the two only: no path comes to the reading  *)
(* around the definition.                                                  *)
Reads(line) ==
    CASE line.op \in {"store", "ret"} -> {line.from}
      [] line.op = "if" -> {line.on}
      [] line.op \in {"calc", "call"} -> {line.args[i] : i \in 1 .. Len(line.args)}
      [] OTHER -> {}
Defines(line, d) == "d" \in DOMAIN line /\ line.d = d

Enclosed(lines, from, to) ==
    \A i \in from + 1 .. to, k \in 1 .. Len(lines) :
        lines[i].op = "label" /\ lines[i].to \in Targets(lines[k]) => k \in from .. to - 1
ValuesDominate(lines) ==
    /\ \A i, j \in 1 .. Len(lines) :
           "d" \in DOMAIN lines[i] /\ Defines(lines[j], lines[i].d) => i = j
    /\ \A i \in 1 .. Len(lines) : \A x \in Reads(lines[i]) :
           x.is = "temp" =>
               \E j \in 1 .. i - 1 : Defines(lines[j], x.v[1]) /\ Enclosed(lines, j, i)

(* LLVM takes the blocks of every function written, and every value read   *)
(* in them has been computed on whatever path is taken.                    *)
BlocksAccepted ==
    stage = "written" =>
        /\ DOMAIN code = {Units[i].name : i \in 1 .. Len(Units)}
        /\ \A f \in DOMAIN code : BlocksClosed(code[f])
ValuesAccepted ==
    stage = "written" => \A f \in DOMAIN code : ValuesDominate(code[f])
=============================================================================
