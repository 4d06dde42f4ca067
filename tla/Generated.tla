----------------------------- MODULE Generated ------------------------------
(***************************************************************************)
(* The generated code at work: one line at a time, in frames that hold the *)
(* temporaries and the stack slots of a call.  A call of the runtime may   *)
(* be answered by any value of its type; the text of inpt, Disk.Read and   *)
(* Disk.GetDir lies in a buffer that the next such call fills again.       *)
(***************************************************************************)
EXTENDS Codegen, Words

CONSTANTS
    Answers,        \* for each type, what the runtime may answer
    MaxAnswers      \* calls of the runtime to follow

VARIABLES
    frames,     \* the stack of calls
    answers,    \* what the runtime answered, in order
    fills,      \* for each static buffer, the answer it holds
    spoiled     \* a refilled buffer was read, or a quotient has no value

machineVars == <<frames, answers, fills, spoiled>>

(* A machine value: for a text in a static buffer, the answer it came with.*)
Cell(v, fill) == [v |-> v, fill |-> fill]
NewFrame(f, args, d) ==
    [f |-> f, pc |-> 1, temps |-> <<>>, slots |-> <<>>, args |-> args, d |-> d]

Now == Last(frames)
Here == code[Now.f][Now.pc]
Eval(x) == CASE x.is = "const" -> Cell(x.v, 0)
             [] x.is = "temp" -> Now.temps[x.v[1]]
             [] x.is = "param" -> Now.args[x.v[1]]
Evaluated(xs) == [i \in 1 .. Len(xs) |-> Eval(xs[i])]
Contents(cells) == [i \in 1 .. Len(cells) |-> cells[i].v]

Change(frame) == frames' = Front(frames) \o <<frame>>
Advanced == [Now EXCEPT !.pc = @ + 1]
WithResult(frame, d, cell) == [frame EXCEPT !.temps = d :> cell @@ @]

Labelled(f, l) ==
    SelectInSeq(code[f], LAMBDA line : line.op = "label" /\ line.to = l)
Goto(l) == Change([Now EXCEPT !.pc = Labelled(Now.f, l)])

Stale(cells) ==
    \E i \in 1 .. Len(cells) :
        /\ cells[i].fill # 0
        /\ \A b \in DOMAIN fills : fills[b] # cells[i].fill

(* The functions of the runtime that only compute.                         *)
Pure == {"concat", "from.int", "from.bool", "StrEquals"}
Computed(f, vs) ==
    CASE f = "concat" -> vs[1] \o vs[2]
      [] f = "from.int" -> TextOf("int", vs[1])
      [] f = "from.bool" -> TextOf("bool", vs[1])
      [] f = "StrEquals" -> Flag(vs[1] = vs[2])

Calculated(f, cells) ==
    LET vs == Contents(cells)
    IN  CASE f = "select" -> IF vs[1] = <<1>> THEN cells[2] ELSE cells[3]
          [] f = "len" -> Cell(<<Len(vs[1])>>, 0)
          [] f = "!" -> Cell(Flag(vs[1] = <<0>>), 0)
          [] OTHER -> Cell(Apply(f, vs[1], vs[2]), 0)

(* sdiv and srem of the least integer by -1: not defined by LLVM.          *)
Undefined(f, cells) ==
    /\ f \in {"/", "%"}
    /\ cells[2].v = <<-1>> /\ cells[1].v = <<Least>>

Quiet == UNCHANGED <<program, stage, typing, codegenVars, answers, fills>>

-----------------------------------------------------------------------------
Start ==
    /\ stage = "written"
    /\ stage' = "running"
    /\ frames' = <<NewFrame("begin", <<>>, -1)>>
    /\ UNCHANGED <<program, typing, codegenVars, answers, fills, spoiled>>

Running == stage = "running"

DoLabel ==
    /\ Running /\ Here.op = "label"
    /\ Change(Advanced) /\ UNCHANGED spoiled /\ Quiet

DoJump ==
    /\ Running /\ Here.op \in {"br", "if"}
    /\ Goto(IF Here.op = "br" THEN Here.to
            ELSE IF Eval(Here.on).v = <<1>> THEN Here.yes ELSE Here.no)
    /\ UNCHANGED spoiled /\ Quiet

DoStore ==
    /\ Running /\ Here.op = "store"
    /\ Change([Advanced EXCEPT !.slots = Here.slot :> Eval(Here.from) @@ @])
    /\ UNCHANGED spoiled /\ Quiet

DoLoad ==
    /\ Running /\ Here.op = "load"
    /\ Change(WithResult(Advanced, Here.d, Now.slots[Here.slot]))
    /\ UNCHANGED spoiled /\ Quiet

DoCalc ==
    /\ Running /\ Here.op = "calc"
    /\ LET cells == Evaluated(Here.args)
       IN  /\ Change(WithResult(Advanced, Here.d, Calculated(Here.f, cells)))
           /\ spoiled' = (spoiled \/ Undefined(Here.f, cells))
    /\ Quiet

DoPure ==
    /\ Running /\ Here.op = "call" /\ Here.f \in Pure
    /\ LET cells == Evaluated(Here.args)
       IN  /\ Change(WithResult(Advanced, Here.d,
                                Cell(Computed(Here.f, Contents(cells)), 0)))
           /\ spoiled' = (spoiled \/ Stale(cells))
    /\ Quiet

DoCall ==
    /\ Running /\ Here.op = "call" /\ Here.f \in Declared
    /\ frames' = Append(Front(frames) \o <<Advanced>>,
                        NewFrame(Here.f, Evaluated(Here.args),
                               IF Here.t = "void" THEN -1 ELSE Here.d))
    /\ UNCHANGED spoiled /\ Quiet

DoReturn ==
    /\ Running /\ Here.op = "ret"
    /\ IF Len(frames) = 1
       THEN stage' = "done" /\ frames' = <<>>
       ELSE LET caller == frames[Len(frames) - 1]
                back == IF Now.d = -1 THEN caller
                        ELSE WithResult(caller, Now.d, Eval(Here.from))
            IN  /\ frames' = SubSeq(frames, 1, Len(frames) - 2) \o <<back>>
                /\ UNCHANGED stage
    /\ UNCHANGED <<program, typing, codegenVars, answers, fills, spoiled>>

AtRuntime ==
    Running /\ Here.op = "call" /\ Here.f \notin Declared \cup Pure

(* The buffer an answer is left in, if any.                                *)
Buffer(line) ==
    CASE line.f = "input" -> {line.args[1].v[1]}
      [] line.f = "DiskRead" -> {-1}
      [] line.f = "DiskGetDir" -> {-2}
      [] OTHER -> {}

AskRuntime ==
    /\ AtRuntime /\ Len(answers) < MaxAnswers
    /\ \E answer \in Answers[Here.t] :
           LET fill == IF Buffer(Here) = {} THEN 0 ELSE Len(answers) + 1
           IN  /\ answers' = Append(answers, answer)
               /\ Change(IF Here.t = "void" THEN Advanced
                         ELSE WithResult(Advanced, Here.d, Cell(answer, fill)))
               /\ fills' = [b \in Buffer(Here) |-> fill] @@ fills
    /\ spoiled' = (spoiled \/ Stale(Evaluated(Here.args)))
    /\ UNCHANGED <<program, stage, typing, codegenVars>>

MachineNext ==
    \/ Start \/ DoLabel \/ DoJump \/ DoStore \/ DoLoad \/ DoCalc \/ DoPure
    \/ DoCall \/ DoReturn \/ AskRuntime

(* The call about to be made.                                              *)
Pending ==
    [f |-> Here.f,
     args |-> IF Here.f = "input" THEN <<>> ELSE Contents(Evaluated(Here.args))]
=============================================================================
