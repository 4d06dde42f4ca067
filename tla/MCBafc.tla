------------------------------- MODULE MCBafc -------------------------------
(***************************************************************************)
(* Source trees and programs for TLC's runs of the compiler: families that *)
(* combine the constructs in all ways on a small scale, and a few programs *)
(* written for one construct each.                                         *)
(***************************************************************************)
EXTENDS Bafc

CONSTANTS root, lib, util, dir, nowhere      \* model values: paths

MCFiles == {root, lib, util}
MCDirs == {dir}

AnyLine == {Text, Broken} \cup {Include(p) : p \in {root, lib, util, dir, nowhere}}
OneText == root :> <<Text>> @@ lib :> <<>> @@ util :> <<>>
Flat == [lines |-> OneText, listing |-> dir :> <<>>, shut |-> {}]

MCTrees ==
    [lines: {root :> <<l, m, Text>> @@ lib :> <<k, Text>> @@ util :> c :
                 l \in AnyLine, m \in {Text, Include(util), Include(dir)},
                 k \in AnyLine, c \in {<<>>} \cup {<<n, Text>> : n \in AnyLine}},
     listing: {dir :> s : s \in {<<>>, <<lib, util>>, <<lib, root>>}},
     shut: {{}, {lib, dir}}] \cup {Flat}

MCAnswers ==
    [void |-> {<<>>}, bool |-> {<<0>>, <<1>>}, int |-> {<<0>>, <<-1>>, <<-8>>},
     str |-> {<<>>, <<121>>}]

-----------------------------------------------------------------------------
X == Name("x")
Y == Name("y")
One == Number(1)
Two == Number(2)
Put1(e) == Do(Invoke("putl", <<e>>))
Ask1(n) == Invoke("DiskSelect", <<Number(n)>>)  \* any boolean
Counted == Invoke("DiskCount", <<>>)                \* any integer
Read(s) == Invoke("DiskRead", <<Chars(s)>>)
Main(block) == Program(<<>>, block)
When(c, then) == If(<<Arm(c, then)>>)
Either(c, then, else) == If(<<Arm(c, then), Arm(None, else)>>)
Inc(x) == Assign(x, Binary("+", Name(x), One))
Under(x, n) == Binary("<", Name(x), Number(n))

(* Loops of each kind in each other, left from the inner one in each way.  *)
LoopOf(kind, x, body) ==
    CASE kind = "while" ->
             <<Var("int", x, None), While(Under(x, 2), <<Inc(x)>> \o body)>>
      [] kind = "for" ->
             <<For(<<Var("int", x, None)>>, Under(x, 2), <<Inc(x)>>, body)>>
      [] kind = "ever" ->
             <<For(<<>>, None, <<>>, body \o <<When(Ask1(2), <<Break>>)>>)>>

Exits == {<<Break>>, <<Continue>>, <<Return(None)>>, <<Break, Put1(Two)>>,
          <<Switch(Ask1(1), <<Arm(Truth(1), <<Break>>), Arm(None, <<Continue>>)>>)>>}

LoopPrograms ==
    {Main(LoopOf(k, "x", LoopOf(l, "y", <<When(Ask1(0), exit), Put1(One)>>)
                         \o <<Put1(Two)>>) \o <<Put1(Number(3))>>) :
        k \in {"while", "for", "ever"}, l \in {"while", "for", "ever"}, exit \in Exits}
    \cup
    {Main(LoopOf(k, "x", LoopOf("for", "y", LoopOf("while", "z", exit) \o exit)
                         \o exit)) :
        k \in {"while", "for"}, exit \in {<<Break>>, <<Continue>>}}

(* Logic in all shapes, as a value and as a condition.                     *)
LogicPrograms ==
    {Main(<<Put1(Binary(p, Ask1(0), Binary(q, Unary("!", Ask1(1)), Ask1(2)))),
            Either(Binary(q, Binary(p, Ask1(3), Ask1(0)), Ask1(1)),
                   <<Put1(One)>>, <<Put1(Two)>>)>>) : p, q \in Logic}

(* Every operator on every pair of the runtime's integers.                 *)
NumberPrograms ==
    {Main(<<Var("int", "x", Counted), Put1(Binary(op, X, Binary("-", Counted, One)))>>) :
        op \in Order \cup Equality \cup Arithmetic}
    \cup
    {Main(<<Put1(Unary("-", Counted)), Put1(Invoke("MathAbs", <<Counted>>)),
            Put1(Invoke("MathMax", <<Counted, One>>))>>)}

(* Bodies that return, may return, or cannot be told to.                   *)
R(n) == Return(Number(n))
ReturnParts ==
    {R(1), Put1(X), When(Ask1(1), <<R(2)>>), Either(Ask1(1), <<R(2)>>, <<R(3)>>),
     Either(Ask1(1), <<R(2)>>, <<Put1(X)>>), While(Truth(1), <<R(2)>>),
     Switch(X, <<Arm(One, <<R(2)>>), Arm(Two, <<>>)>>), Switch(X, <<Arm(One, <<R(2)>>)>>),
     Switch(X, <<Arm(None, <<R(2)>>), Arm(One, <<R(3)>>)>>),
     Switch(X, <<Arm(One, <<R(2)>>), Arm(None, <<When(Ask1(1), <<R(3)>>)>>)>>)}
ReturnPrograms ==
    {Program(<<Function("f", <<Param("x", "int")>>, "int", <<p, q>>)>>,
             <<Put1(Invoke("f", <<Counted>>))>>) : p, q \in ReturnParts}

(* Functions without annotations that call each other, in every order.     *)
Chain(t) ==
    {Function("f", <<Param("p", t)>>, "unknown", <<Return(Invoke("g", <<Name("p")>>))>>),
     Function("g", <<Param("p", t)>>, "unknown", <<Return(Invoke("h", <<Name("p")>>))>>),
     Function("h", <<Param("p", t)>>, "unknown",
              <<Put1(Binary("+", Chars(<<120>>), Name("p"))), Return(Name("p"))>>)}
ChainPrograms ==
    UNION {{Program(<<f, g, h>>, <<Put1(Invoke("f", <<e>>)), Put1(Invoke("h", <<One>>))>>) :
               f, g, h \in Chain(t), e \in {One, Truth(1)}} : t \in {"unknown", "int"}}

(* Texts: joined, compared, switched on, and read into the runtime's       *)
(* buffers, each buffer once or twice.                                     *)
Line1 == Invoke("inpt", <<Chars(<<62>>)>>)
Helper == Function("f", <<>>, "str", <<Return(Line1)>>)
Same(l, r) == Put1(Binary("==", l, r))
S == Name("s")
TextPrograms ==
    {Main(<<Put1(Binary("+", Binary("+", Chars(<<120>>), Counted), Ask1(0))),
            Put1(Binary("+", Counted, Binary("+", One, Chars(<<>>))))>>),
     Main(<<Var("str", "s", Line1), Var("str", "t", Line1),
            Do(Invoke("putsc", <<S, Invoke("StrLength", <<Name("t")>>)>>)), Same(S, Name("t"))>>),
     Program(<<Helper>>, <<Var("str", "s", Invoke("f", <<>>)),
                           Var("str", "t", Invoke("f", <<>>)), Same(S, Name("t"))>>),
     Main(<<Var("str", "s", Read(<<1>>)), Var("str", "t", Invoke("DiskGetDir", <<>>)),
            Same(S, Name("t")), Put1(Binary("!=", Read(<<2>>), Chars(<<121>>)))>>),
     Main(<<Var("str", "s", Read(<<1>>)), Same(Read(<<2>>), S)>>),
     Main(<<Switch(Line1, <<Arm(Chars(<<121>>), <<Put1(One)>>), Arm(None, <<Put1(Two)>>),
                            Arm(Chars(<<>>), <<>>), Arm(Chars(<<121>>), <<Put1(Line1)>>)>>),
            Do(Call("DiskWrite", <<Argument("content", Line1),
                                   Argument("name", Read(<<1>>))>>))>>)}

(* Functions: named arguments, recursion, results that are not used.       *)
Sum == Function("f", <<Param("x", "unknown"), Param("y", "unknown")>>, "unknown",
    <<When(Under("x", 1), <<Return(Y)>>),
      Return(Call("f", <<Argument("y", Binary("+", Y, X)),
                         Argument("x", Binary("-", X, One))>>))>>)
Even(f, g, n) == Function(f, <<Param("x", "unknown")>>, "unknown",
    <<When(Binary("==", X, Number(0)), <<Return(Truth(n))>>),
      Return(Invoke(g, <<Binary("-", X, One)>>))>>)
Quiet1 == Function("q", <<Param("x", "int")>>, "unknown",
    <<When(Under("x", 0), <<Return(None)>>), Inc("x"), Put1(X)>>)
CallPrograms ==
    {Program(<<Sum>>, <<Put1(Call("f", <<Argument("y", Counted), Argument("x", Two)>>)),
                        Do(Invoke("f", <<One, Counted>>))>>),
     Program(<<Even("f", "g", 1), Even("g", "f", 0)>>,
             <<Put1(Invoke("f", <<Two>>)), Put1(Invoke("g", <<Two>>))>>),
     Program(<<Quiet1>>, <<Do(Invoke("q", <<Counted>>)), Do(Invoke("q", <<One>>))>>),
     Main(<<While(Truth(1), <<>>)>>)}

(* Two statements of any kind in a loop of a function.                     *)
Pool ==
    {Inc("x"), Put1(X), Break, When(Under("x", 1), <<Continue>>), Return(Truth(1)),
     Var("int", "z", X), Assign("x", Binary("/", X, Y)), Assign("b", Unary("!", Name("b"))),
     Assign("b", Binary("||", Name("b"), Binary("==", X, Y))),
     Either(Name("b"), <<Put1(X)>>, <<Break>>),
     Switch(X, <<Arm(None, <<Inc("x"), Continue>>), Arm(One, <<Break>>)>>),
     Switch(Name("b"), <<Arm(Truth(0), <<Var("int", "z", Two), Put1(Name("z"))>>)>>),
     Do(Invoke("putl", <<X, Chars(<<120>>), Name("b")>>)),
     For(<<Var("int", "z", None)>>, Under("z", 2), <<Inc("z")>>,
         <<When(Name("b"), <<Break>>), Inc("x")>>)}
MixedPrograms ==
    {Program(<<Function("f", <<Param("y", "unknown"), Param("b", "unknown")>>, "unknown",
                        <<Var("int", "x", None)>> \o
                        LoopOf("for", "w", <<p, q>>) \o <<Return(Binary(">", X, Y))>>)>>,
             <<Put1(Invoke("f", <<One, Ask1(0)>>))>>) : p, q \in Pool}

(* What the analyser refuses, and the steps it ought to.                   *)
F(params, body) == Program(<<Function("f", params, "unknown", body)>>, <<Do(Invoke("f", <<One>>))>>)
P == Param("x", "unknown")
P1 == Param("y", "unknown")
OtherPrograms ==
    {Main(<<Do(Invoke("f", <<>>))>>), F(<<>>, <<>>), F(<<P, P>>, <<>>),
     F(<<P, Param("y", "int")>>, <<>>),
     F(<<P>>, <<Var("int", "x", None)>>), F(<<P>>, <<Return(X)>>), F(<<P>>, <<>>),
     F(<<P>>, <<Put1(Binary("&&", X, Truth(0))), Put1(Binary("+", X, One))>>),
     F(<<P>>, <<When(Truth(1), <<R(1)>>), Return(Truth(1))>>),
     Main(<<Put1(X)>>), Main(<<Break>>), Main(<<R(1)>>), Main(<<Var("int", "x", Truth(1))>>),
     Main(<<Do(Call("putl", <<Argument("text", One)>>))>>),
     Main(<<When(Truth(1), <<Var("int", "x", One)>>), Put1(X)>>),
     Program(<<Function("putl", <<>>, "void", <<>>)>>, <<>>),
     Program(<<Function("f", <<>>, "int", <<R(1)>>), Function("f", <<>>, "int", <<R(1)>>)>>, <<>>)}
StepPrograms ==
    {Main(<<For(<<Var("int", "x", None)>>, Under("x", 2), <<step>>,
                <<Var("int", "y", X), Inc("x")>>)>>) : step \in {Put1(Y), Inc("y")}}

(* A program with every construct, and what is left of it when any one of  *)
(* its tokens is forgotten; and operators of every two levels, grouped in  *)
(* both ways.                                                              *)
Sampler == Program(
    <<Function("f", <<Param("x", "int"), P1>>, "bool",
               <<Assign("x", Binary("*", X, Binary("+", Y, One))),
                 If(<<Arm(Under("x", 1), <<Return(Truth(0))>>), Arm(Under("x", -1), <<>>),
                      Arm(Truth(1), <<>>), Arm(None, <<Put1(Y)>>)>>),
                 Return(Binary("==", X, Unary("-", Y)))>>)>>,
    <<Var("int", "n", None), Var("str", "s", Chars(<<120>>)),
      For(<<Assign("n", Two)>>, None, <<Do(Call("f", <<Argument("x", One), Argument("y", X)>>))>>,
          <<While(Unary("!", Ask1(0)), <<Continue>>), Break>>),
      Switch(Name("s"), <<Arm(Chars(<<>>), <<Return(None)>>), Arm(None, <<>>)>>)>>)

AllOps == Arithmetic \cup Order \cup Equality \cup Logic
GroupPrograms ==
    {Main(<<Put1(Binary(p, Binary(q, One, X), Two)), Put1(Binary(p, One, Binary(q, X, Two)))>>) :
        p, q \in AllOps}

Unslipped(programs) == {[tree |-> Flat, program |-> p, slip |-> 0] : p \in programs}

MCInputs ==
    {[tree |-> t, program |-> Blank, slip |-> 0] : t \in MCTrees} \cup
    {[tree |-> Flat, program |-> Sampler, slip |-> n] : n \in 1 .. Len(Spelled(Sampler))} \cup
    Unslipped(LoopPrograms \cup LogicPrograms \cup NumberPrograms \cup ReturnPrograms
              \cup ChainPrograms \cup TextPrograms \cup CallPrograms \cup OtherPrograms
              \cup StepPrograms \cup MixedPrograms \cup GroupPrograms \cup {Sampler})
=============================================================================
