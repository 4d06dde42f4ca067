-------------------------------- MODULE Bafc --------------------------------
(***************************************************************************)
(* The compiler bafc from the files it is given to the program it makes,   *)
(* the stages of src/src/main.c: includes are expanded, the tokens (which  *)
(* the lexer is taken to return) are parsed, the program is analysed, code *)
(* is generated, and the code runs.                                        *)
(***************************************************************************)
EXTENDS Includes, Parser, Grammar, Generated, Meaning

CONSTANT Inputs         \* a source tree, the program it spells, a typing slip

VARIABLE input          \* one of Inputs, fixed
vars == <<input, includeVars, semaVars, codegenVars, machineVars>>

(* The tokens of the program, without the one the author forgot.           *)
Tokens ==
    IF input.slip = 0 THEN Spelled(input.program)
    ELSE RemoveAt(Spelled(input.program), input.slip)

Blank == Program(<<>>, <<>>)

Init ==
    /\ input \in Inputs /\ tree = input.tree /\ program = Blank
    /\ stack = <<>> /\ expanded = {} /\ output = <<>> /\ outcome = "start"
    /\ stage = "expanding"
    /\ typing = <<>> /\ passes = 0
    /\ code = <<>> /\ gen = Fresh(1) /\ work = <<>> /\ unit = 0
    /\ frames = <<>> /\ answers = <<>> /\ fills = <<>> /\ spoiled = FALSE

(* baf_expand_includes; the text it returns goes to the lexer.             *)
Expand ==
    /\ stage = "expanding"
    /\ IncludeNext
    /\ stage' = CASE outcome' = "ok" -> "lexed"
                  [] outcome' = "error" -> "rejected"
                  [] OTHER -> "expanding"
    /\ UNCHANGED <<input, program, typing, passes, codegenVars, machineVars>>

Parse ==
    /\ stage = "lexed"
    /\ \E p \in {ParseProgram(Tokens)} :
           /\ stage' = IF p.ok THEN "parsed" ELSE "misspelt"
           /\ program' = IF p.ok THEN p.v ELSE program
    /\ UNCHANGED <<input, includeVars, typing, passes, codegenVars, machineVars>>

Analyse ==
    /\ Resolve \/ Infer \/ Validate
    /\ UNCHANGED <<input, includeVars, codegenVars, machineVars>>

(* With --check nothing is generated.                                      *)
StopAfterAnalysis ==
    /\ stage = "accepted" /\ stage' = "checked"
    /\ UNCHANGED <<input, includeVars, program, typing, passes, codegenVars, machineVars>>

Write == CgNext /\ UNCHANGED <<input, includeVars, passes, machineVars>>

Execute == MachineNext /\ UNCHANGED <<input, includeVars, passes>>

Next == Expand \/ Parse \/ Analyse \/ StopAfterAnalysis \/ Write \/ Execute

Spec == Init /\ [][Next]_vars /\ WF_vars(Expand) /\ WF_vars(Write) /\ WF_vars(Execute)

-----------------------------------------------------------------------------
TypeOK ==
    /\ IncludeTypeOK
    /\ stage \in {"expanding", "lexed", "misspelt", "parsed", "inferring", "inferred",
                  "accepted", "checked", "generating", "unwritable", "written",
                  "running", "done", "rejected", "crashed"}
    /\ passes \in 0 .. MaxPasses
    /\ stage \in {"inferring", "inferred", "accepted"} =>
           /\ \A f \in Declared : typing.ret[f] \in Types \ {"unknown"}
           /\ \A f \in Declared, x \in UNION {Names(g) : g \in Declared} :
                  x \in Names(f) => typing.par[f][x] \in Types
    /\ frames # <<>> => stage = "running"
    /\ spoiled \in BOOLEAN

(* What was written is what is analysed: the parser reads back the program *)
(* that was spelled, each operator and each else with the operands and the *)
(* if the grammar gives it; and of any text it accepts it loses no word.   *)
Bare(tokens) ==         \* without punctuation, both spellings of elsif as if
    LET kept == SelectSeq(tokens, LAMBDA token :
                                      token.k \notin {"nl", ";", "(", ")", "else"})
    IN  [i \in 1 .. Len(kept) |->
            IF kept[i].k = "elsif" THEN [kept[i] EXCEPT !.k = "if"] ELSE kept[i]]

ParsedBack ==
    /\ input.slip = 0 => stage # "misspelt" /\ program \in {Blank, input.program}
    /\ program # Blank => Bare(Spelled(program)) = Bare(Tokens)

(* Inference has settled when validation begins: another pass would add    *)
(* nothing, so the verdict does not depend on where the passes were cut,   *)
(* provided a program has fewer slots to fill than passes are allowed.     *)
Slots ==
    {f \in Declared : Find(f).ret = "unknown"} \cup
    {<<f, x>> \in Declared \X UNION {Names(f) : f \in Declared} :
        x \in Names(f) /\ Written.par[f][x] = "unknown"}

InferenceSettles ==
    stage = "inferred" /\ Cardinality(Slots) < MaxPasses => Pass(typing) = typing

(* The generator is handed a program built as it takes for granted: every *)
(* call it meets has the arguments of its function.                        *)
HandedOver ==
    stage = "accepted" => Built(AllExpressions \ {None}, AllStatements)

-----------------------------------------------------------------------------
(* What is stored, passed, tested, joined, printed or returned has the     *)
(* type that LLVM is told it has.                                          *)
LineTyped(f, line) ==
    LET Args(types) == [i \in 1 .. Len(line.args) |-> line.args[i].t] = types
    IN  CASE line.op = "store" -> line.from.t = line.t
          [] line.op = "if" -> line.on.t = "bool"
          [] line.op = "ret" -> line.from.t = ResultOf(f)
          [] line.op = "call" /\ line.f \in Declared ->
                 Args([i \in 1 .. Len(Find(line.f).params) |->
                           typing.par[line.f][Find(line.f).params[i].x]])
          [] line.op = "call" /\ line.f \in Builtins ->
                 Args([i \in 1 .. Len(BUILTINS[line.f].params) |->
                           BUILTINS[line.f].params[i].t])
          [] line.op = "call" /\ line.f = "concat" -> Args(<<"str", "str">>)
          [] line.op = "call" /\ line.f \in {"from.int", "from.bool", "put.int", "put.bool"} ->
                 Args(<<IF line.f \in {"from.int", "put.int"} THEN "int" ELSE "bool">>)
          [] line.op = "calc" /\ line.f \in Equality ->
                 line.args[1].t = line.args[2].t /\ line.args[1].t \in {"int", "bool"}
          [] line.op = "calc" /\ line.f = "select" ->
                 Args(<<"bool", "int", "int">>)
          [] line.op = "calc" /\ line.f \in {"len", "!"} ->
                 Args(<<IF line.f = "!" THEN "bool" ELSE "str">>)
          [] line.op = "calc" /\ line.f \in Arithmetic \cup Order -> Args(<<"int", "int">>)
          [] OTHER -> TRUE

TypesAccepted ==
    stage = "written" =>
        \A f \in DOMAIN code : \A i \in 1 .. Len(code[f]) : LineTyped(f, code[f][i])

-----------------------------------------------------------------------------
(* How deep loops nest, and whether each variable is used inside the block *)
(* that declares it (the step of a for is outside its body).               *)
RECURSIVE Depth(_), InScope(_, _)
Depth(block) ==
    Max({0} \cup
        {LET s == block[i]
         IN  CASE s.k \in {"while", "for"} -> 1 + Depth(s.body)
               [] s.k \in {"if", "switch"} ->
                      Max({0} \cup {Depth(s.arms[j].body) : j \in 1 .. Len(s.arms)})
               [] OTHER -> 0
         : i \in 1 .. Len(block)})

Shallow == \A body \in Bodies : Depth(body) <= MaxLoops

Uses(es) == {e.x : e \in {d \in UNION {Within(e) : e \in es} : d.k = "name"}}
Seen(names, st) == IF st.k = "var" THEN names \cup {st.x} ELSE names

InScope(names, block) ==
    block # <<>> =>
        LET s == Head(block)
        IN  /\ (s.k # "for" => Uses(Direct(s)) \subseteq names)
            /\ CASE s.k = "assign" -> s.x \in names
                 [] s.k = "while" -> InScope(names, s.body)
                 [] s.k = "for" ->
                        LET in == FoldLeft(Seen, names, s.init)
                        IN  /\ InScope(names, s.init) /\ Uses({s.c}) \subseteq in
                            /\ InScope(in, s.body) /\ InScope(in, s.step)
                 [] s.k \in {"if", "switch"} ->
                        \A j \in 1 .. Len(s.arms) : InScope(names, s.arms[j].body)
                 [] OTHER -> TRUE
            /\ InScope(Seen(names, s), Tail(block))

Visible ==
    /\ \A f \in Declared : InScope(Names(f), Find(f).body)
    /\ InScope({}, program.begin)

(* "A variable is visible from its declaration to the end of the enclosing *)
(* block": the analyser accepts no other use.                              *)
VisibleOnly == stage = "accepted" => Visible

(* The generated code does what the program means: it makes the calls of   *)
(* the runtime that the program makes after the same answers, in the same  *)
(* order with the same arguments, and ends when the program ends.  Not     *)
(* covered: loops nested deeper than the loop stack, a step that uses a    *)
(* variable of the body, and what follows a read of a refilled buffer or a *)
(* division without a value.                                               *)
Covered == Shallow /\ Visible /\ ~spoiled
Spins == Expected(answers).f = "cut"    \* too long a walk to compare with

RunsAsWritten ==
    stage \in {"crashed", "running", "done"} /\ Covered =>
        /\ stage # "crashed"
        /\ AtRuntime => Spins \/ Expected(answers) = Pending
        /\ stage = "done" => Spins \/ Expected(answers).f = "end"

(* "Unreachable in a well-typed program": a function with a result never   *)
(* runs into the return that closes it.                                    *)
EndUnreachable ==
    stage = "running" /\ Here.op = "ret" /\ Here.last /\ Now.f # "begin" =>
        typing.ret[Now.f] = "void"

(* Nothing hangs: the expansion of the includes and the generation of code *)
(* come to an end, and the program made comes to a call of the runtime or  *)
(* to its end, unless the source spins.                                    *)
Progress ==
    /\ stage = "expanding" ~> stage # "expanding"
    /\ stage = "generating" ~> stage # "generating"
    /\ Running ~> ~Running \/ AtRuntime \/ ~Covered \/ Spins
=============================================================================
