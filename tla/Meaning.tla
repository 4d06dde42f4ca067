------------------------------ MODULE Meaning -------------------------------
(***************************************************************************)
(* What a BackAndForth program means, independently of the code generated  *)
(* for it: the tree is walked, and the walk stops at the first call of the *)
(* runtime that has not been answered yet.  It is the reference the        *)
(* generated code is compared with.  A walk r carries the variables, the   *)
(* answers left, the last value, and how it was cut short, if it was.      *)
(***************************************************************************)
EXTENDS Sema, Words

CONSTANT Fuel           \* loop iterations and calls a walk may make

Val(t, v) == [t |-> t, v |-> v]
Default(t) == Val(t, IF t = "str" THEN <<>> ELSE <<0>>)
Going(r) == r.out = "go"
Begun(answers) ==
    [env |-> <<>>, out |-> "go", val |-> Default("void"), left |-> answers,
     fuel |-> Fuel]

Burn(r) == IF r.fuel = 0 THEN [r EXCEPT !.out = "cut"]
           ELSE [r EXCEPT !.fuel = @ - 1]

(* A call of the runtime: its answer is the next one recorded.             *)
Ask(r, f, args, t) ==
    CASE ~Going(r) -> r
      [] Going(r) /\ r.left = <<>> ->
             [r EXCEPT !.out = "ask", !.val = [f |-> f, args |-> args]]
      [] Going(r) /\ r.left # <<>> ->
             [r EXCEPT !.left = Tail(@), !.val = Val(t, Head(r.left))]

Show(r, value) == Ask(r, "put." \o value.t, <<value.v>>, "void")

RECURSIVE Walk(_, _)            \* an expression or a statement
Run(r, block) == FoldLeft(Walk, r, block)

(* Then, unless the walk was cut short.                                    *)
Thence(r, Then(_)) == IF Going(r) THEN Then(r) ELSE r

(* Arguments are evaluated as written; each goes to its parameter.         *)
WalkArguments(r, call) ==
    LET Place(b, vals, i) ==
            [r |-> b, vals |-> [vals EXCEPT ![Target(call, i)] = b.val]]
    IN  FoldLeftDomain(
            LAMBDA a, i : Place(Walk(a.r, call.args[i].e), a.vals, i),
            [r |-> r, vals |-> [i \in 1 .. Len(call.args) |-> Default("void")]],
            call.args)

(* A declared function, with its parameters for variables.                 *)
Enter(r, f, vals) ==
    LET fun == Find(f)
        Leave(b) == CASE b.out = "return" -> [b EXCEPT !.out = "go", !.env = r.env]
                      [] b.out = "go" -> [b EXCEPT !.val = Default("void"), !.env = r.env]
                      [] OTHER -> b
    IN  Leave(Run([Burn(r) EXCEPT
                      !.env = [x \in Names(f) |->
                         vals[SelectInSeq(fun.params, LAMBDA p : p.x = x)]]], fun.body))

WalkApplied(r, f, v) ==         \* the call, its arguments evaluated
    CASE ~Going(r) -> r
      [] Going(r) /\ f = "putsc" ->
             Ask(FoldLeft(Show, r, v), "newline", <<>>, "void")
      [] Going(r) /\ f = "putl" -> FoldLeft(Show, r, v)
      [] Going(r) /\ f = "inpt" -> Ask(FoldLeft(Show, r, v), "input", <<>>, "str")
      [] Going(r) /\ f = "StrLength" ->
             [r EXCEPT !.val = Val("int", <<Len(v[1].v)>>)]
      [] Going(r) /\ f = "StrEquals" ->
             [r EXCEPT !.val = Val("bool", Flag(v[1].v = v[2].v))]
      [] Going(r) /\ f = "MathAbs" ->
             [r EXCEPT !.val = Val("int", <<Wrap(Absolute(v[1].v[1]))>>)]
      [] Going(r) /\ f = "MathMax" ->
             [r EXCEPT !.val = IF v[1].v[1] > v[2].v[1] THEN v[1] ELSE v[2]]
      [] Going(r) /\ f \in Declared -> Enter(r, f, v)
      [] OTHER -> Ask(r, f, [i \in 1 .. Len(v) |-> v[i].v], BUILTINS[f].ret)

WalkCall(r, call) ==
    LET Applied(a) == WalkApplied(a.r, call.f, a.vals)
    IN  Applied(WalkArguments(r, call))

(* n / 0 and n % 0 are 0; + joins texts when one side is one.              *)
Combine(op, x, y) ==
    CASE op \in {"/", "%"} /\ y.v = <<0>> -> Val("int", <<0>>)
      [] op = "+" /\ "str" \in {x.t, y.t} ->
             Val("str", TextOf(x.t, x.v) \o TextOf(y.t, y.v))
      [] op \in Equality -> Val("bool", Flag((x.v = y.v) = (op = "==")))
      [] OTHER -> Val(Outcome(op), Apply(op, x.v, y.v))

Decides(op, value) == value.v = (IF op = "&&" THEN <<0>> ELSE <<1>>)

WalkUnary(r, op) ==             \* the operand in r.val
    [r EXCEPT !.val = IF op = "!" THEN Val("bool", Flag(@.v = <<0>>))
                      ELSE Val("int", <<Wrap(-@.v[1])>>)]

WalkBinary(r, e) ==
    LET Right(b, left) ==
            IF e.op \in Logic \/ ~Going(b) THEN b
            ELSE [b EXCEPT !.val = Combine(e.op, left, @)]
        Left(a) == IF e.op \in Logic /\ Decides(e.op, a.val) THEN a
                   ELSE Right(Walk(a, e.r), a.val)
    IN  Thence(Walk(r, e.l), Left)

(* The variables of a block end with it.                                   *)
Without(b, r) ==
    IF b.out \in {"ask", "cut"} THEN b
    ELSE [b EXCEPT !.env = [x \in DOMAIN r.env |-> b.env[x]]]
Inner(r, block) == Without(Run(r, block), r)

(* One round of a loop, and what is left of it: break ends the innermost   *)
(* loop, continue ends one round of it.                                    *)
Turn(r, c, body, step) ==
    LET Again(s) == Walk(s, For(<<>>, c, step, body))
        Rest(b) ==
            CASE b.out = "break" -> [b EXCEPT !.out = "go"]
              [] b.out = "continue" ->
                     Thence(Run([b EXCEPT !.out = "go"], step), Again)
              [] OTHER -> Thence(Run(b, step), Again)
        Test(t) == IF c.k # "none" /\ t.val.v = <<0>> THEN t ELSE Rest(Inner(t, body))
    IN  Thence(Walk(Burn(r), c), Test)

(* The first arm whose test succeeds, or the one without a test.           *)
RunIf(r, arms) ==
    LET arm == Head(arms)
        Test(t) == IF arm.c.k = "none" \/ t.val.v = <<1>> THEN Inner(t, arm.body)
                   ELSE Walk(t, If(Tail(arms)))
    IN  IF arms = <<>> THEN r ELSE Thence(Walk(r, arm.c), Test)

RunCase(r, arms) ==             \* the subject in r.val
    LET hit == SelectInSeq(arms, LAMBDA a : a.c.k = "lit" /\ a.c.v = r.val.v)
        default == SelectInSeq(arms, LAMBDA a : a.c.k = "none")
        Taken(i) == IF i = 0 THEN r ELSE Inner(r, arms[i].body)
    IN  Taken(IF hit # 0 THEN hit ELSE default)

Evaluate(r, e) ==
    CASE e.k = "none" -> r
      [] e.k = "lit" -> [r EXCEPT !.val = Val(e.t, e.v)]
      [] e.k = "name" -> [r EXCEPT !.val = r.env[e.x]]
      [] e.k = "un" -> Thence(Walk(r, e.e), LAMBDA a : WalkUnary(a, e.op))
      [] e.k = "bin" -> WalkBinary(r, e)
      [] e.k = "call" -> WalkCall(r, e)

RunStatement(r, st) ==
    CASE st.k = "var" ->
             Thence(Walk([r EXCEPT !.val = Default(st.t)], st.e),
                    LAMBDA v : [v EXCEPT !.env = st.x :> v.val @@ @])
      [] st.k = "assign" ->
             Thence(Walk(r, st.e), LAMBDA v : [v EXCEPT !.env[st.x] = v.val])
      [] st.k = "do" -> Walk(r, st.e)
      [] st.k = "while" -> Turn(r, st.c, st.body, <<>>)
      [] st.k = "for" ->
             Without(Turn(Run(r, st.init), st.c, st.body, st.step), r)
      [] st.k = "if" -> RunIf(r, st.arms)
      [] st.k = "switch" -> Thence(Walk(r, st.e), LAMBDA s : RunCase(s, st.arms))
      [] st.k = "return" ->
             Thence(Walk(r, st.e), LAMBDA v : [v EXCEPT !.out = "return"])
      [] st.k \in {"break", "continue"} -> [r EXCEPT !.out = st.k]

Expressions == {"none", "lit", "name", "un", "bin", "call"}
Walk(r, node) ==
    CASE ~Going(r) -> r
      [] Going(r) /\ node.k \in Expressions -> Evaluate(r, node)
      [] Going(r) /\ node.k \notin Expressions -> RunStatement(r, node)

(* What the program does once it has had these answers: the call it makes, *)
(* "end", or "cut" when it ran out of fuel.                                *)
Expected(answers) ==
    LET Outward(r) == CASE r.out = "ask" -> r.val
                        [] r.out = "cut" -> [f |-> "cut", args |-> <<>>]
                        [] OTHER -> [f |-> "end", args |-> <<>>]
    IN  Outward(Run(Begun(answers), program.begin))
=============================================================================
