-------------------------------- MODULE Sema --------------------------------
(***************************************************************************)
(* Semantic analysis, src/src/sema.c: calls are resolved, the missing      *)
(* types are inferred by passes over the whole program, the result is      *)
(* validated.  Diagnostics are abstracted to whether there was one.        *)
(***************************************************************************)
EXTENDS Signatures

CONSTANT MaxPasses      \* the limit on passes, 64 in the code
ASSUME SemaAssumption == MaxPasses \in Nat \ {0}

VARIABLE passes         \* inference passes made

semaVars == <<program, stage, typing, passes>>

-----------------------------------------------------------------------------
(* Reading the program.                                                    *)
RECURSIVE Within(_), Nested(_)
Within(e) ==                    \* an expression and its parts
    {e} \cup CASE e.k = "bin" -> Within(e.l) \cup Within(e.r)
               [] e.k = "un" -> Within(e.e)
               [] e.k = "call" ->
                      UNION {Within(e.args[i].e) : i \in 1 .. Len(e.args)}
               [] OTHER -> {}

Nested(block) ==                \* the statements of a block, at any depth
    UNION {LET s == block[i]
           IN  {s} \cup
               CASE s.k = "while" -> Nested(s.body)
                 [] s.k = "for" ->
                        Nested(s.init) \cup Nested(s.step) \cup Nested(s.body)
                 [] s.k \in {"if", "switch"} ->
                        UNION {Nested(s.arms[j].body) : j \in 1 .. Len(s.arms)}
                 [] OTHER -> {}
           : i \in 1 .. Len(block)}

Direct(s) ==                    \* the expressions of one statement
    CASE s.k \in {"var", "assign", "do", "return"} -> {s.e}
      [] s.k \in {"while", "for"} -> {s.c}
      [] s.k = "if" -> {s.arms[i].c : i \in 1 .. Len(s.arms)}
      [] s.k = "switch" -> {s.e} \cup {s.arms[i].c : i \in 1 .. Len(s.arms)}
      [] OTHER -> {}

Bodies == {program.begin} \cup {program.funs[i].body : i \in 1 .. Len(program.funs)}

AllStatements == UNION {Nested(b) : b \in Bodies}
AllExpressions == UNION {Within(d) : d \in UNION {Direct(s) : s \in AllStatements}}
Calls == {e \in AllExpressions : e.k = "call"}

-----------------------------------------------------------------------------
(* Resolution.  Faulty: arguments may be missing.                          *)
CallResolvesShort(call) ==
    /\ IsBuiltin(call.f) \/ call.f \in Declared
    /\ IF Variadic(call.f)
       THEN \A i \in 1 .. Len(call.args) : call.args[i].p = ""
       ELSE /\ \A i \in 1 .. Len(call.args) : Target(call, i) # 0
            /\ \A i, j \in 1 .. Len(call.args) :
                   Target(call, i) = Target(call, j) => i = j

CallResolves(call) ==
    /\ IsBuiltin(call.f) \/ call.f \in Declared
    /\ IF Variadic(call.f)
       THEN \A i \in 1 .. Len(call.args) : call.args[i].p = ""
       ELSE /\ Len(call.args) = Len(ParamsOf(call.f))
            /\ \A i \in 1 .. Len(call.args) : Target(call, i) # 0
            /\ \A i, j \in 1 .. Len(call.args) :
                   Target(call, i) = Target(call, j) => i = j

DeclarationsOk ==
    \A i \in 1 .. Len(program.funs) :
        LET f == program.funs[i]
        IN  /\ ~IsBuiltin(f.name) /\ f.name # "main"
            /\ \A j \in 1 .. i - 1 : program.funs[j].name # f.name
            /\ \A p, q \in 1 .. Len(f.params) :
                   f.params[p].x = f.params[q].x => p = q

-----------------------------------------------------------------------------
(* A typing gives the type of each parameter and result; a scope, the      *)
(* function a statement is in and the local variables it sees.             *)
(* Faulty: a result without annotation has no type to begin with.          *)
WrittenOpen ==
    [par |-> [f \in Declared |->
                 [x \in Names(f) |->
                     SelectSeq(Find(f).params, LAMBDA p : p.x = x)[1].t]]
              @@ "begin" :> <<>>,
     ret |-> [f \in Declared |-> Find(f).ret]]

Written ==                      \* as the parser leaves them
    [par |-> [f \in Declared |->
                 [x \in Names(f) |->
                     SelectSeq(Find(f).params, LAMBDA p : p.x = x)[1].t]]
              @@ "begin" :> <<>>,
     ret |-> [f \in Declared |->
                 IF Find(f).ret = "unknown" THEN "void" ELSE Find(f).ret]]

Scope(f) == [f |-> f, env |-> <<>>]
Bound(c, s, x) == x \in DOMAIN s.env \cup DOMAIN c.par[s.f]
Lookup(c, s, x) ==
    CASE x \in DOMAIN s.env -> s.env[x]
      [] x \in DOMAIN c.par[s.f] \ DOMAIN s.env -> c.par[s.f][x]
      [] OTHER -> "unknown"

Wanted(c, call, i) ==           \* expected_call_parameter
    LET Of(p) == IF IsBuiltin(call.f) THEN p.t ELSE c.par[call.f][p.x]
    IN  IF Variadic(call.f) THEN "unknown" ELSE Of(ParamsOf(call.f)[Target(call, i)])

After(s, st) ==
    IF st.k = "var" THEN [s EXCEPT !.env = st.x :> st.t @@ @] ELSE s
AfterAll(s, block) == FoldLeft(After, s, block)

-----------------------------------------------------------------------------
(* Inference.  An expression is given the type its context wants; what     *)
(* comes back is the typing, and the type it has.                          *)
Typed(c, t) == [c |-> c, t |-> t]
Learn(c, s, x, want) ==
    IF x \notin DOMAIN s.env /\ Lookup(c, s, x) = "unknown" /\ Bound(c, s, x)
    THEN [c EXCEPT !.par[s.f][x] = want] ELSE c

RECURSIVE InferExpr(_, _, _, _), InferBlock(_, _, _)

InferEqual(c, s, e) ==
    LET Both(d, l, r) ==
            CASE l = "unknown" /\ r # "unknown" -> InferExpr(d, s, e.l, r).c
              [] r = "unknown" /\ l # "unknown" -> InferExpr(d, s, e.r, l).c
              [] OTHER -> d
        Right(r, l) == Both(r.c, l, r.t)
        Left(l) == Right(InferExpr(l.c, s, e.r, "unknown"), l.t)
    IN  Left(InferExpr(c, s, e.l, "unknown"))

InferPlus(c, s, e) ==
    LET AsInt(d, operand, t) ==
            IF t = "unknown" THEN InferExpr(d, s, operand, "int").c ELSE d
        Right(r, l) ==
            IF "str" \in {l, r.t} THEN Typed(r.c, "str")
            ELSE Typed(AsInt(AsInt(r.c, e.l, l), e.r, r.t), "int")
        Left(l) == Right(InferExpr(l.c, s, e.r, "unknown"), l.t)
    IN  Left(InferExpr(c, s, e.l, "unknown"))

(* An argument that turns out to have a type gives it to a parameter that  *)
(* has none yet.                                                           *)
InferArgument(c, s, call, i) ==
    LET Give(d, t, x) ==
            IF d.par[call.f][x] = "unknown"
            THEN InferExpr([d EXCEPT !.par[call.f][x] = t], s, call.args[i].e, t).c
            ELSE d
        Seen(a) ==
            IF IsBuiltin(call.f) \/ a.t = "unknown" THEN a.c
            ELSE Give(a.c, a.t, ParamsOf(call.f)[Target(call, i)].x)
    IN  Seen(InferExpr(c, s, call.args[i].e, Wanted(c, call, i)))

InferCall(c, s, call) ==
    FoldLeftDomain(LAMBDA d, i : InferArgument(d, s, call, i), c, call.args)

InferExpr(c, s, e, want) ==
    CASE e.k = "none" -> Typed(c, "unknown")
      [] e.k = "lit" -> Typed(c, e.t)
      [] e.k = "name" ->
             LET d == Learn(c, s, e.x, want) IN Typed(d, Lookup(d, s, e.x))
      [] e.k = "un" ->
             Typed(InferExpr(c, s, e.e, Operand(e.op)).c, Operand(e.op))
      [] e.k = "bin" /\ e.op \in Equality -> Typed(InferEqual(c, s, e), "bool")
      [] e.k = "bin" /\ e.op = "+" -> InferPlus(c, s, e)
      [] e.k = "bin" /\ e.op \notin Equality \cup {"+"} ->
             LET l == InferExpr(c, s, e.l, Operand(e.op)).c
             IN  Typed(InferExpr(l, s, e.r, Operand(e.op)).c, Outcome(e.op))
      [] e.k = "call" -> Typed(InferCall(c, s, e), Result(c, e.f))

(* An unannotated function takes the type of what it returns.              *)
InferReturn(c, s, e) ==
    LET open == s.f # "begin" /\ Find(s.f).ret = "unknown"
        void == s.f = "begin" \/ (open /\ c.ret[s.f] = "void")
        Seen(a) ==
            IF open /\ a.c.ret[s.f] = "void" /\ a.t \notin {"unknown", "void"}
            THEN [a.c EXCEPT !.ret[s.f] = a.t] ELSE a.c
    IN  Seen(InferExpr(c, s, e, IF void THEN "unknown" ELSE c.ret[s.f]))

InferArms(c, s, arms, want) ==
    FoldLeft(LAMBDA d, arm : InferBlock(InferExpr(d, s, arm.c, want).c, s, arm.body),
             c, arms)

(* The first case with a type gives it to a subject without one.           *)
InferCase(d, s, subject, arm) ==
    LET Seen(v) ==
            IF d.t = "unknown" /\ v.t # "unknown"
            THEN Typed(InferExpr(v.c, s, subject, v.t).c, v.t) ELSE Typed(v.c, d.t)
        Then(e) == Typed(InferBlock(e.c, s, arm.body), e.t)
    IN  Then(Seen(InferExpr(d.c, s, arm.c, d.t)))

InferSwitch(c, s, st) ==
    FoldLeft(LAMBDA d, arm : InferCase(d, s, st.e, arm),
             InferExpr(c, s, st.e, "unknown"), st.arms).c

(* The step of a for is looked at with the variables of the body in scope. *)
InferFor(c, s, st) ==
    LET in == AfterAll(s, st.init)
        d == InferExpr(InferBlock(c, s, st.init), in, st.c, "bool").c
    IN  InferBlock(InferBlock(d, in, st.body), AfterAll(in, st.body), st.step)

InferStatement(c, s, st) ==
    CASE st.k = "var" -> InferExpr(c, s, st.e, st.t).c
      [] st.k = "assign" -> InferExpr(c, s, st.e, Lookup(c, s, st.x)).c
      [] st.k = "do" -> InferCall(c, s, st.e)
      [] st.k = "while" -> InferBlock(InferExpr(c, s, st.c, "bool").c, s, st.body)
      [] st.k = "for" -> InferFor(c, s, st)
      [] st.k = "if" -> InferArms(c, s, st.arms, "bool")
      [] st.k = "switch" -> InferSwitch(c, s, st)
      [] st.k = "return" -> InferReturn(c, s, st.e)
      [] OTHER -> c

InferBlock(c, s, block) ==
    IF block = <<>> THEN c
    ELSE InferBlock(InferStatement(c, s, Head(block)), After(s, Head(block)),
                    Tail(block))

Pass(c) ==
    FoldLeft(LAMBDA d, unit : InferBlock(d, Scope(unit.name), unit.body), c, Units)

-----------------------------------------------------------------------------
(* Validation, with the types inference has settled on.                    *)
RECURSIVE ExprType(_, _, _), ExprOk(_, _, _, _), BlockOk(_, _, _, _)
RECURSIVE AlwaysReturns(_)

ExprType(c, s, e) ==
    CASE e.k = "none" -> "unknown"
      [] e.k = "lit" -> e.t
      [] e.k = "name" -> Lookup(c, s, e.x)
      [] e.k = "call" -> Result(c, e.f)
      [] e.k = "un" -> Outcome(e.op)
      [] e.k = "bin" ->
             IF e.op = "+" /\ "str" \in {ExprType(c, s, e.l), ExprType(c, s, e.r)}
             THEN "str" ELSE Outcome(e.op)

CallOk(c, s, call) ==
    \A i \in 1 .. Len(call.args) :
        LET e == call.args[i].e
        IN  /\ ExprOk(c, s, e, Wanted(c, call, i))
            /\ Variadic(call.f) =>
                   ExprType(c, s, e) \in Printable \cup {"unknown"}

(* What the two sides of an operator that takes several types may be.      *)
OperandsOk(op, l, r) ==
    CASE op \in Equality ->
             "void" \notin {l, r} /\ (l = r \/ "unknown" \in {l, r})
      [] op = "+" -> IF "str" \in {l, r}
                     THEN {l, r} \subseteq Printable \cup {"unknown"}
                     ELSE {l, r} \subseteq {"int", "unknown"}
      [] OTHER -> TRUE

ExprOk(c, s, e, want) ==
    LET t == ExprType(c, s, e)
    IN  /\ "unknown" \in {want, t} \/ t = want
        /\ CASE e.k = "name" -> Bound(c, s, e.x)
             [] e.k = "un" -> ExprOk(c, s, e.e, Operand(e.op))
             [] e.k = "bin" ->
                    /\ ExprOk(c, s, e.l, Operand(e.op))
                    /\ ExprOk(c, s, e.r, Operand(e.op))
                    /\ OperandsOk(e.op, ExprType(c, s, e.l), ExprType(c, s, e.r))
             [] e.k = "call" -> Result(c, e.f) # "void" /\ CallOk(c, s, e)
             [] OTHER -> TRUE

ReturnOk(c, s, e) ==
    IF s.f = "begin" \/ c.ret[s.f] = "void"
    THEN e.k = "none"
    ELSE e.k # "none" /\ ExprOk(c, s, e, c.ret[s.f])

(* The step of a for sees the variables its body declares.                 *)
ForOk(c, s, loops, st) ==
    LET in == AfterAll(s, st.init)
    IN  /\ BlockOk(c, s, loops, st.init)
        /\ ExprOk(c, in, st.c, "bool")
        /\ BlockOk(c, in, loops + 1, st.body)
        /\ BlockOk(c, AfterAll(in, st.body), loops, st.step)

SwitchOk(c, s, loops, st) ==
    /\ ExprOk(c, s, st.e, "unknown")
    /\ ExprType(c, s, st.e) \in Printable \cup {"unknown"}
    /\ \A i \in 1 .. Len(st.arms) :
           /\ st.arms[i].c.k \in {"none", "lit"}
           /\ ExprOk(c, s, st.arms[i].c, ExprType(c, s, st.e))
           /\ BlockOk(c, s, loops, st.arms[i].body)

StatementOk(c, s, loops, st) ==
    CASE st.k = "var" -> ~Bound(c, s, st.x) /\ ExprOk(c, s, st.e, st.t)
      [] st.k = "assign" ->
             Bound(c, s, st.x) /\ ExprOk(c, s, st.e, Lookup(c, s, st.x))
      [] st.k = "do" -> CallOk(c, s, st.e)
      [] st.k = "while" ->
             ExprOk(c, s, st.c, "bool") /\ BlockOk(c, s, loops + 1, st.body)
      [] st.k = "for" -> ForOk(c, s, loops, st)
      [] st.k = "if" ->
             \A i \in 1 .. Len(st.arms) :
                 /\ ExprOk(c, s, st.arms[i].c, "bool")
                 /\ BlockOk(c, s, loops, st.arms[i].body)
      [] st.k = "switch" -> SwitchOk(c, s, loops, st)
      [] st.k = "return" -> ReturnOk(c, s, st.e)
      [] st.k \in {"break", "continue"} -> loops > 0

BlockOk(c, s, loops, block) ==
    block # <<>> =>
        /\ StatementOk(c, s, loops, Head(block))
        /\ BlockOk(c, After(s, Head(block)), loops, Tail(block))

(* Faulty: a switch is taken to have a case for every value.               *)
SwitchCovers(block) ==
    \E i \in 1 .. Len(block) :
        \/ block[i].k = "return"
        \/ /\ block[i].k \in {"if", "switch"}
           /\ block[i].k = "switch" \/
                  \E j \in 1 .. Len(block[i].arms) : block[i].arms[j].c.k = "none"
           /\ \A j \in 1 .. Len(block[i].arms) :
                  AlwaysReturns(block[i].arms[j].body)

(* Does every path leave through a return?  A loop never counts.           *)
AlwaysReturns(block) ==
    \E i \in 1 .. Len(block) :
        \/ block[i].k = "return"
        \/ /\ block[i].k \in {"if", "switch"}
           /\ \E j \in 1 .. Len(block[i].arms) : block[i].arms[j].c.k = "none"
           /\ \A j \in 1 .. Len(block[i].arms) :
                  AlwaysReturns(block[i].arms[j].body)

Valid(c) ==
    /\ \A f \in Declared :
           /\ \A x \in Names(f) : c.par[f][x] # "unknown"
           /\ BlockOk(c, Scope(f), 0, Find(f).body)
           /\ c.ret[f] = "void" \/ AlwaysReturns(Find(f).body)
    /\ BlockOk(c, Scope("begin"), 0, program.begin)

-----------------------------------------------------------------------------
(* analyze_program.                                                        *)
Resolve ==
    /\ stage = "parsed"
    /\ stage' = IF DeclarationsOk /\ \A call \in Calls : CallResolves(call)
                THEN "inferring" ELSE "rejected"
    /\ typing' = IF DeclarationsOk THEN Written ELSE typing
    /\ UNCHANGED <<program, passes>>

(* One pass over the program.  The code also makes a pass when a call has  *)
(* yet to note the result type of its function, which leaves the typing as *)
(* it is.  Faulty: there is never a second pass.                           *)
InferOnce ==
    /\ stage = "inferring"
    /\ typing' = Pass(typing)
    /\ passes' = passes + 1
    /\ stage' = "inferred"
    /\ UNCHANGED program

Infer ==
    /\ stage = "inferring"
    /\ typing' = Pass(typing)
    /\ passes' = passes + 1
    /\ stage' = IF typing' = typing \/ passes' = MaxPasses
                THEN "inferred" ELSE "inferring"
    /\ UNCHANGED program

Validate ==
    /\ stage = "inferred"
    /\ stage' = IF Valid(typing) THEN "accepted" ELSE "rejected"
    /\ UNCHANGED <<program, typing, passes>>
=============================================================================
