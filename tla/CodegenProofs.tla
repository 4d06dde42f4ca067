---------------------------- MODULE CodegenProofs ----------------------------
(***************************************************************************)
(* The code generated is what LLVM accepts, for every program the analysis *)
(* may hand over and every depth of the loop stack.                        *)
(***************************************************************************)
EXTENDS Codegen, SequenceTheorems, TLAPS

Sequence(s) == \E S : s \in Seq(S)
Generator(g) ==
    g = [lines |-> g.lines, env |-> g.env, seen |-> g.seen,
         value |-> g.value, temp |-> g.temp, label |-> g.label, slot |-> g.slot,
         loops |-> g.loops, sites |-> g.sites]
Frames == [out: Nat, next: Nat]

-----------------------------------------------------------------------------
(* Labels.  A piece of work may begin with a label, and it may end with a  *)
(* terminator; it owes the labels it will define, and refers to others.    *)
Opens(task) == task.do \in {"label", "enter", "bodies"}
Ends(task) == task.do \in {"jump", "branch", "test", "tests"}
Owed(task) ==
    CASE task.do \in {"label", "enter"} -> {task.to}
      [] task.do = "bodies" ->
             {task.end} \cup task.at .. task.at + Len(task.arms) - 1
      [] OTHER -> {}
Refs(task) ==
    CASE task.do = "jump" -> {task.to}
      [] task.do \in {"branch", "test"} -> {task.yes, task.no}
      [] task.do = "enter" -> {task.out, task.next}
      [] task.do \in {"arms", "bodies"} -> {task.end}
      [] task.do = "tests" ->
             {task.other} \cup task.at .. task.at + Len(task.arms) - 1
      [] OTHER -> {}

IsLabel(line) == line.op = "label"
IsTerminator(line) == line.op \in Terminators
Defined(lines) == {lines[i].to : i \in {j \in 1 .. Len(lines) : IsLabel(lines[j])}}
Targeted(lines) == UNION {Targets(lines[i]) : i \in 1 .. Len(lines)}
Terminated(lines) == lines # <<>> /\ IsTerminator(lines[Len(lines)])
Owes(tasks) == UNION {Owed(tasks[i]) : i \in 1 .. Len(tasks)}
Referred(tasks) == UNION {Refs(tasks[i]) : i \in 1 .. Len(tasks)}
LoopRefs(loops) == UNION {{loops[i].out, loops[i].next} : i \in 1 .. Len(loops)}

Laid(lines) ==
    /\ lines # <<>> => ~IsLabel(lines[1])
    /\ \A i \in 1 .. Len(lines) - 1 : IsTerminator(lines[i]) <=> IsLabel(lines[i + 1])
    /\ \A i, j \in 1 .. Len(lines) :
           IsLabel(lines[i]) /\ IsLabel(lines[j]) /\ lines[i].to = lines[j].to => i = j
Apart(tasks) ==
    \A i, j \in 1 .. Len(tasks) : Owed(tasks[i]) \cap Owed(tasks[j]) # {} => i = j

GeneratorOk(g) ==
    /\ Generator(g) /\ Sequence(g.lines)
    /\ g.label \in Nat /\ g.temp \in Nat /\ g.loops \in Seq(Frames)

(* What is written and what is left to do fit together.                    *)
Shape(g, tasks) ==
    /\ GeneratorOk(g) /\ Sequence(tasks)
    /\ Laid(g.lines)
    /\ Terminated(g.lines) <=> tasks # <<>> /\ Opens(tasks[1])
    /\ \A i \in 1 .. Len(tasks) :
           Ends(tasks[i]) <=> i < Len(tasks) /\ Opens(tasks[i + 1])
    /\ Apart(tasks)
    /\ Owes(tasks) \cap Defined(g.lines) = {}
    /\ Owes(tasks) \cup Defined(g.lines) \subseteq 0 .. g.label - 1
    /\ Targeted(g.lines) \cup LoopRefs(g.loops) \cup Referred(tasks)
           \subseteq Owes(tasks) \cup Defined(g.lines)

(* One piece of work replaced by others, while g becomes h.                *)
Swap(g, task, h, new) ==
    /\ GeneratorOk(h) /\ g.label <= h.label /\ Sequence(new)
    /\ Laid(h.lines)
    /\ Terminated(h.lines) <=> IF new = <<>> THEN Ends(task) ELSE Opens(new[1])
    /\ \A i \in 1 .. Len(new) :
           Ends(new[i]) <=> IF i < Len(new) THEN Opens(new[i + 1]) ELSE Ends(task)
    /\ Apart(new)
    /\ Owes(new) \cap Defined(h.lines) = {}
    /\ Owes(new) \cup Defined(h.lines)
           \subseteq Owed(task) \cup Defined(g.lines) \cup g.label .. h.label - 1
    /\ Owes(new) \cap Defined(g.lines) = {}
    /\ Owed(task) \cup Defined(g.lines) \subseteq Owes(new) \cup Defined(h.lines)
    /\ Targeted(h.lines) \cup LoopRefs(h.loops) \cup Referred(new)
           \subseteq Targeted(g.lines) \cup LoopRefs(g.loops) \cup Refs(task)
                     \cup Owes(new) \cup Defined(h.lines)

-----------------------------------------------------------------------------
(* Sequences.                                                              *)
LEMMA AppendIsSequence ==
    ASSUME NEW s, Sequence(s), NEW x
    PROVE  /\ Sequence(Append(s, x)) /\ Len(s) \in Nat
           /\ Len(Append(s, x)) = Len(s) + 1
           /\ Append(s, x)[Len(s) + 1] = x
           /\ \A i \in 1 .. Len(s) : Append(s, x)[i] = s[i]
           /\ Append(s, x) # <<>>
PROOF
  <1>1. PICK S : s \in Seq(S)
    BY DEF Sequence
  <1>2. s \in Seq(S \cup {x}) /\ x \in S \cup {x}
    BY <1>1
  <1>3. Append(s, x) \in Seq(S \cup {x})
    BY <1>2
  <1> QED BY <1>1, <1>2, <1>3, AppendProperties DEF Sequence

LEMMA SequenceFacts ==
    ASSUME NEW s, Sequence(s)
    PROVE  Len(s) \in Nat /\ (s = <<>> <=> Len(s) = 0)
PROOF
  <1>1. PICK S : s \in Seq(S)
    BY DEF Sequence
  <1> QED BY <1>1, EmptySeq

LEMMA Spliced ==
    ASSUME NEW s, Sequence(s), s # <<>>, NEW t, Sequence(t)
    PROVE  LET u == t \o Tail(s)
           IN  /\ Sequence(u) /\ Len(u) = Len(t) + Len(s) - 1
               /\ \A i \in 1 .. Len(t) : u[i] = t[i]
               /\ \A i \in Len(t) + 1 .. Len(u) : u[i] = s[i - Len(t) + 1]
               /\ \A i \in 2 .. Len(s) : i + Len(t) - 1 \in Len(t) + 1 .. Len(u)
                                         /\ u[i + Len(t) - 1] = s[i]
               /\ Head(s) = s[1] /\ Len(s) >= 1
PROOF
  <1>1. PICK S : s \in Seq(S)
    BY DEF Sequence
  <1>2. PICK T : t \in Seq(T)
    BY DEF Sequence
  <1> DEFINE U == S \cup T
  <1>3. s \in Seq(U) /\ t \in Seq(U)
    BY <1>1, <1>2
  <1>4. Tail(s) \in Seq(U) /\ Len(Tail(s)) = Len(s) - 1
        /\ \A i \in 1 .. Len(Tail(s)) : Tail(s)[i] = s[i + 1]
    BY <1>3, HeadTailProperties
  <1>5. Len(s) \in Nat /\ Len(t) \in Nat /\ Len(s) >= 1 /\ Head(s) = s[1]
    BY <1>3, SequenceFacts, HeadTailProperties
  <1> DEFINE u == t \o Tail(s)
  <1>6. /\ u \in Seq(U) /\ Len(u) = Len(t) + Len(Tail(s))
        /\ \A i \in 1 .. Len(t) + Len(Tail(s)) :
               u[i] = IF i <= Len(t) THEN t[i] ELSE Tail(s)[i - Len(t)]
    BY <1>3, <1>4, ConcatProperties, Zenon
  <1> HIDE DEF u
  <1>7. \A i \in 1 .. Len(t) : u[i] = t[i]
    BY <1>4, <1>5, <1>6
  <1>8. \A i \in Len(t) + 1 .. Len(u) : u[i] = s[i - Len(t) + 1]
    <2> TAKE i \in Len(t) + 1 .. Len(u)
    <2>1. u[i] = Tail(s)[i - Len(t)] /\ i - Len(t) \in 1 .. Len(Tail(s))
      BY <1>4, <1>5, <1>6
    <2> QED BY <2>1, <1>4
  <1>9. \A i \in 2 .. Len(s) : i + Len(t) - 1 \in Len(t) + 1 .. Len(u)
                               /\ u[i + Len(t) - 1] = s[i]
    <2> TAKE i \in 2 .. Len(s)
    <2>1. i + Len(t) - 1 \in Len(t) + 1 .. Len(u)
      BY <1>4, <1>5, <1>6
    <2>2. (i + Len(t) - 1) - Len(t) + 1 = i
      BY <1>5
    <2> QED BY <2>1, <2>2, <1>8
  <1> QED BY <1>4, <1>5, <1>6, <1>7, <1>8, <1>9 DEF Sequence, u

(* Where a piece of work after the exchange comes from.                    *)
LEMMA SplicedFrom ==
    ASSUME NEW s, Sequence(s), s # <<>>, NEW t, Sequence(t),
           NEW i \in 1 .. Len(t \o Tail(s))
    PROVE  LET u == t \o Tail(s)
           IN  \/ i \in 1 .. Len(t) /\ u[i] = t[i]
               \/ /\ i \notin 1 .. Len(t)
                  /\ \E j \in 2 .. Len(s) : i = j + Len(t) - 1 /\ u[i] = s[j]
PROOF
  <1> DEFINE u == t \o Tail(s)
  <1>1. CASE i <= Len(t)
    BY <1>1, Spliced, SequenceFacts
  <1>2. CASE ~(i <= Len(t))
    <2> DEFINE j == i - Len(t) + 1
    <2>1. /\ Len(s) \in Nat /\ Len(t) \in Nat /\ Len(u) = Len(t) + Len(s) - 1
          /\ \A k \in Len(t) + 1 .. Len(u) : u[k] = s[k - Len(t) + 1]
      BY Spliced, SequenceFacts
    <2>2. i \in Len(t) + 1 .. Len(u)
      BY <1>2, <2>1
    <2>3. u[i] = s[j] /\ j \in 2 .. Len(s) /\ i = j + Len(t) - 1
      BY <2>1, <2>2
    <2> HIDE DEF j, u
    <2>4. i \notin 1 .. Len(t)
      BY <2>1, <2>2
    <2> QED BY <2>3, <2>4 DEF u
  <1> QED BY <1>1, <1>2

LEMMA OwesIn == ASSUME NEW s, NEW l
                PROVE  l \in Owes(s) <=> \E i \in 1 .. Len(s) : l \in Owed(s[i])
  BY DEF Owes
LEMMA ReferredIn == ASSUME NEW s, NEW l
                    PROVE  l \in Referred(s) <=> \E i \in 1 .. Len(s) : l \in Refs(s[i])
  BY DEF Referred

LEMMA OwesSpliced ==
    ASSUME NEW s, Sequence(s), s # <<>>, NEW t, Sequence(t), NEW l
    PROVE  l \in Owes(t \o Tail(s)) <=>
               l \in Owes(t) \/ \E j \in 2 .. Len(s) : l \in Owed(s[j])
PROOF
  <1> DEFINE u == t \o Tail(s)
  <1>1. ASSUME l \in Owes(u)
        PROVE  l \in Owes(t) \/ \E j \in 2 .. Len(s) : l \in Owed(s[j])
    <2>1. PICK i \in 1 .. Len(u) : l \in Owed(u[i])
      BY <1>1, OwesIn
    <2> QED BY <2>1, SplicedFrom, OwesIn
  <1>2. ASSUME l \in Owes(t)
        PROVE  l \in Owes(u)
    <2>1. PICK i \in 1 .. Len(t) : l \in Owed(t[i])
      BY <1>2, OwesIn
    <2>2. i \in 1 .. Len(u) /\ u[i] = t[i]
      BY Spliced, SequenceFacts
    <2> QED BY <2>1, <2>2, OwesIn
  <1>3. ASSUME NEW j \in 2 .. Len(s), l \in Owed(s[j])
        PROVE  l \in Owes(u)
    <2>1. j + Len(t) - 1 \in 1 .. Len(u) /\ u[j + Len(t) - 1] = s[j]
      BY Spliced, SequenceFacts
    <2> QED BY <1>3, <2>1, OwesIn
  <1> QED BY <1>1, <1>2, <1>3

LEMMA ReferredSpliced ==
    ASSUME NEW s, Sequence(s), s # <<>>, NEW t, Sequence(t), NEW l
    PROVE  l \in Referred(t \o Tail(s)) <=>
               l \in Referred(t) \/ \E j \in 2 .. Len(s) : l \in Refs(s[j])
PROOF
  <1> DEFINE u == t \o Tail(s)
  <1>1. ASSUME l \in Referred(u)
        PROVE  l \in Referred(t) \/ \E j \in 2 .. Len(s) : l \in Refs(s[j])
    <2>1. PICK i \in 1 .. Len(u) : l \in Refs(u[i])
      BY <1>1, ReferredIn
    <2> QED BY <2>1, SplicedFrom, ReferredIn
  <1>2. ASSUME l \in Referred(t)
        PROVE  l \in Referred(u)
    <2>1. PICK i \in 1 .. Len(t) : l \in Refs(t[i])
      BY <1>2, ReferredIn
    <2>2. i \in 1 .. Len(u) /\ u[i] = t[i]
      BY Spliced, SequenceFacts
    <2> QED BY <2>1, <2>2, ReferredIn
  <1>3. ASSUME NEW j \in 2 .. Len(s), l \in Refs(s[j])
        PROVE  l \in Referred(u)
    <2>1. j + Len(t) - 1 \in 1 .. Len(u) /\ u[j + Len(t) - 1] = s[j]
      BY Spliced, SequenceFacts
    <2> QED BY <1>3, <2>1, ReferredIn
  <1> QED BY <1>1, <1>2, <1>3

-----------------------------------------------------------------------------
(* What fits together still does when the first piece of work is replaced. *)
LEMMA Splice ==
    ASSUME NEW g, NEW s, Shape(g, s), s # <<>>, NEW h, NEW t, Swap(g, s[1], h, t)
    PROVE  Shape(h, t \o Tail(s))
PROOF
  <1> DEFINE u == t \o Tail(s)
  <1>1. Sequence(s) /\ Sequence(t) /\ Len(s) \in Nat /\ Len(t) \in Nat /\ Len(s) >= 1
    BY SequenceFacts DEF Shape, Swap
  <1>2. /\ Sequence(u) /\ Len(u) = Len(t) + Len(s) - 1
        /\ \A i \in 1 .. Len(t) : u[i] = t[i]
        /\ \A i \in Len(t) + 1 .. Len(u) : u[i] = s[i - Len(t) + 1]
        /\ \A i \in 2 .. Len(s) : i + Len(t) - 1 \in Len(t) + 1 .. Len(u)
                                  /\ u[i + Len(t) - 1] = s[i]
    BY <1>1, Spliced
  <1>3. u # <<>> <=> Len(u) > 0
    BY <1>2, SequenceFacts
  <1> HIDE DEF u
  <1>4. GeneratorOk(h) /\ Laid(h.lines)
    BY DEF Swap
  <1>5. Terminated(h.lines) <=> u # <<>> /\ Opens(u[1])
    <2>1. CASE t # <<>>
      <3>1. Len(t) >= 1
        BY <2>1, <1>1, SequenceFacts
      <3>2. u # <<>> /\ u[1] = t[1]
        BY <3>1, <1>1, <1>2, <1>3
      <3> QED BY <2>1, <3>2 DEF Swap
    <2>2. CASE t = <<>>
      <3>1. Len(t) = 0
        BY <2>2
      <3>2. Ends(s[1]) <=> 1 < Len(s) /\ Opens(s[2])
        BY <1>1 DEF Shape
      <3>3. u # <<>> <=> 1 < Len(s)
        BY <3>1, <1>1, <1>2, <1>3
      <3>4. 1 < Len(s) => u[1] = s[2]
        BY <3>1, <1>1, <1>2
      <3> QED BY <2>2, <3>2, <3>3, <3>4 DEF Swap
    <2> QED BY <2>1, <2>2
  <1>6. ASSUME NEW i \in 1 .. Len(u)
        PROVE  Ends(u[i]) <=> i < Len(u) /\ Opens(u[i + 1])
    <2>1. CASE i < Len(t)
      <3>1. i \in 1 .. Len(t) /\ i + 1 \in 1 .. Len(t) /\ i < Len(u)
        BY <2>1, <1>1, <1>2
      <3>2. u[i] = t[i] /\ u[i + 1] = t[i + 1]
        BY <3>1, <1>2
      <3> QED BY <2>1, <3>1, <3>2 DEF Swap
    <2>2. CASE i = Len(t)
      <3>1. i \in 1 .. Len(t) /\ u[i] = t[i]
        BY <2>2, <1>1, <1>2
      <3>2. Ends(t[i]) <=> Ends(s[1])
        BY <2>2, <3>1, <1>1 DEF Swap
      <3>3. Ends(s[1]) <=> 1 < Len(s) /\ Opens(s[2])
        BY <1>1 DEF Shape
      <3>4. i < Len(u) <=> 1 < Len(s)
        BY <2>2, <1>1, <1>2
      <3>5. 1 < Len(s) => u[i + 1] = s[2]
        BY <2>2, <1>1, <1>2
      <3> QED BY <3>1, <3>2, <3>3, <3>4, <3>5
    <2>3. CASE i > Len(t)
      <3> DEFINE j == i - Len(t) + 1
      <3>1. j \in 1 .. Len(s) /\ u[i] = s[j]
        BY <2>3, <1>1, <1>2
      <3>2. i < Len(u) <=> j < Len(s)
        BY <1>1, <1>2
      <3>3. i < Len(u) => u[i + 1] = s[j + 1]
        <4>1. ASSUME i < Len(u)
              PROVE  u[i + 1] = s[(i + 1) - Len(t) + 1]
          BY <4>1, <2>3, <1>1, <1>2
        <4>2. (i + 1) - Len(t) + 1 = j + 1
          BY <1>1
        <4> QED BY <4>1, <4>2
      <3>4. Ends(s[j]) <=> j < Len(s) /\ Opens(s[j + 1])
        BY <3>1 DEF Shape
      <3> QED BY <3>1, <3>2, <3>3, <3>4
    <2> QED BY <2>1, <2>2, <2>3, <1>1
  <1>7. ASSUME NEW l, NEW j \in 2 .. Len(s), l \in Owed(s[j])
        PROVE  /\ l \notin Owed(s[1]) /\ l \notin Defined(g.lines)
               /\ l \in 0 .. g.label - 1
               /\ l \notin Owes(t) /\ l \notin Defined(h.lines)
    <2>1. 1 \in 1 .. Len(s) /\ j \in 1 .. Len(s) /\ j # 1
      BY <1>1
    <2>2. Owed(s[1]) \cap Owed(s[j]) = {}
      BY <2>1 DEF Shape, Apart
    <2>3. l \in Owes(s)
      BY <1>7, <2>1, OwesIn
    <2>4. l \notin Defined(g.lines) /\ l \in 0 .. g.label - 1
      BY <2>3 DEF Shape
    <2>5. l \notin g.label .. h.label - 1
      BY <2>4 DEF Shape, GeneratorOk
    <2> QED BY <1>7, <2>2, <2>4, <2>5 DEF Swap
  <1>8. Apart(u)
    <2> SUFFICES ASSUME NEW i \in 1 .. Len(u), NEW j \in 1 .. Len(u),
                        NEW l, l \in Owed(u[i]), l \in Owed(u[j])
                 PROVE  i = j
      BY DEF Apart
    <2>1. \/ i \in 1 .. Len(t) /\ u[i] = t[i]
          \/ \E k \in 2 .. Len(s) : i = k + Len(t) - 1 /\ u[i] = s[k]
      BY <1>1, SplicedFrom DEF u
    <2>2. \/ j \in 1 .. Len(t) /\ u[j] = t[j]
          \/ \E k \in 2 .. Len(s) : j = k + Len(t) - 1 /\ u[j] = s[k]
      BY <1>1, SplicedFrom DEF u
    <2>3. CASE i \in 1 .. Len(t) /\ u[i] = t[i] /\ j \in 1 .. Len(t) /\ u[j] = t[j]
      BY <2>3 DEF Swap, Apart
    <2>4. ASSUME NEW a \in 1 .. Len(t), l \in Owed(t[a])
          PROVE  ~ \E k \in 2 .. Len(s) : l \in Owed(s[k])
      BY <2>4, <1>7, OwesIn
    <2>5. ASSUME NEW a \in 2 .. Len(s), i = a + Len(t) - 1, u[i] = s[a],
                 NEW b \in 2 .. Len(s), j = b + Len(t) - 1, u[j] = s[b]
          PROVE  i = j
      <3>1. a \in 1 .. Len(s) /\ b \in 1 .. Len(s)
        BY <1>1
      <3>2. l \in Owed(s[a]) \cap Owed(s[b])
        BY <2>5
      <3>3. a = b
        BY <3>1, <3>2 DEF Shape, Apart
      <3> QED BY <3>3, <2>5
    <2> QED BY <2>1, <2>2, <2>3, <2>4, <2>5
  <1>9. ASSUME NEW l \in Owes(u)
        PROVE  l \notin Defined(h.lines) /\ l \in 0 .. h.label - 1
    <2>1. l \in Owes(t) \/ \E j \in 2 .. Len(s) : l \in Owed(s[j])
      BY <1>1, <1>9, OwesSpliced DEF u
    <2>2. g.label \in Nat /\ h.label \in Nat /\ g.label <= h.label
      BY DEF Swap, Shape, GeneratorOk
    <2>3. CASE l \in Owes(t)
      <3>1. l \in Owed(s[1]) \cup Defined(g.lines) \cup g.label .. h.label - 1
        BY <2>3 DEF Swap
      <3>2. l \in Owed(s[1]) => l \in Owes(s)
        BY <1>1, OwesIn
      <3>3. l \in 0 .. g.label - 1 \/ l \in g.label .. h.label - 1
        BY <3>1, <3>2 DEF Shape
      <3> QED BY <2>2, <2>3, <3>3 DEF Swap
    <2>4. ASSUME NEW j \in 2 .. Len(s), l \in Owed(s[j])
          PROVE  l \notin Defined(h.lines) /\ l \in 0 .. h.label - 1
      BY <2>4, <1>7, <2>2
    <2> QED BY <2>1, <2>3, <2>4
  <1>10. Defined(h.lines) \subseteq 0 .. h.label - 1
    <2> SUFFICES ASSUME NEW l \in Defined(h.lines)
                 PROVE  l \in 0 .. h.label - 1
      OBVIOUS
    <2>1. g.label \in Nat /\ h.label \in Nat /\ g.label <= h.label
      BY DEF Swap, Shape, GeneratorOk
    <2>2. l \in Owed(s[1]) \cup Defined(g.lines) \cup g.label .. h.label - 1
      BY DEF Swap
    <2>3. l \in Owed(s[1]) => l \in Owes(s)
      BY <1>1, OwesIn
    <2>4. l \in 0 .. g.label - 1 \/ l \in g.label .. h.label - 1
      BY <2>2, <2>3 DEF Shape
    <2> QED BY <2>1, <2>4
  <1>11. ASSUME NEW l \in Owes(s) \cup Defined(g.lines)
         PROVE  l \in Owes(u) \cup Defined(h.lines)
    <2>1. ASSUME l \in Owes(s)
          PROVE  l \in Owed(s[1]) \/ \E j \in 2 .. Len(s) : l \in Owed(s[j])
      <3>1. PICK i \in 1 .. Len(s) : l \in Owed(s[i])
        BY <2>1, OwesIn
      <3> QED BY <3>1, <1>1
    <2>2. ASSUME l \in Owed(s[1]) \cup Defined(g.lines)
          PROVE  l \in Owes(t) \cup Defined(h.lines)
      BY <2>2 DEF Swap
    <2>3. Owes(t) \subseteq Owes(u)
      BY <1>1, OwesSpliced DEF u
    <2> QED BY <2>1, <2>2, <2>3, <1>1, <1>11, OwesSpliced DEF u
  <1>12. ASSUME NEW l \in Targeted(h.lines) \cup LoopRefs(h.loops) \cup Referred(u)
         PROVE  l \in Owes(u) \cup Defined(h.lines)
    <2>1. l \in Referred(u) => l \in Referred(t) \/ \E j \in 2 .. Len(s) : l \in Refs(s[j])
      BY <1>1, ReferredSpliced DEF u
    <2>2. ASSUME NEW j \in 2 .. Len(s), l \in Refs(s[j])
          PROVE  l \in Owes(u) \cup Defined(h.lines)
      <3>1. l \in Referred(s)
        BY <2>2, <1>1, ReferredIn
      <3> QED BY <3>1, <1>11 DEF Shape
    <2>3. ASSUME l \in Targeted(h.lines) \cup LoopRefs(h.loops) \cup Referred(t)
          PROVE  l \in Owes(u) \cup Defined(h.lines)
      <3>1. l \in Targeted(g.lines) \cup LoopRefs(g.loops) \cup Refs(s[1])
                  \cup Owes(t) \cup Defined(h.lines)
        BY <2>3 DEF Swap
      <3>2. l \in Refs(s[1]) => l \in Referred(s)
        BY <1>1, ReferredIn
      <3>3. Owes(t) \subseteq Owes(u)
        BY <1>1, OwesSpliced DEF u
      <3>4. l \in Targeted(g.lines) \cup LoopRefs(g.loops) \cup Referred(s)
                => l \in Owes(s) \cup Defined(g.lines)
        BY DEF Shape
      <3> QED BY <3>1, <3>2, <3>3, <3>4, <1>11
    <2> QED BY <1>12, <2>1, <2>2, <2>3
  <1> QED BY <1>2, <1>4, <1>5, <1>6, <1>8, <1>9, <1>10, <1>12 DEF Shape, u
-----------------------------------------------------------------------------
(* Lines.                                                                  *)
LEMMA AppendLine ==
    ASSUME NEW lines, Sequence(lines), Laid(lines), NEW line,
           Terminated(lines) <=> IsLabel(line),
           IsLabel(line) => line.to \notin Defined(lines)
    PROVE  LET more == Append(lines, line)
           IN  /\ Sequence(more) /\ Laid(more)
               /\ Terminated(more) <=> IsTerminator(line)
               /\ Defined(more) = Defined(lines) \cup {l \in {line.to} : IsLabel(line)}
               /\ Targeted(more) = Targeted(lines) \cup Targets(line)
PROOF
  <1> DEFINE more == Append(lines, line)
             n == Len(lines)
  <1>1. /\ Sequence(more) /\ n \in Nat /\ Len(more) = n + 1
        /\ more[n + 1] = line /\ \A i \in 1 .. n : more[i] = lines[i]
        /\ more # <<>>
    BY AppendIsSequence
  <1>2. lines = <<>> <=> n = 0
    BY SequenceFacts
  <1> HIDE DEF more
  <1>3. Terminated(more) <=> IsTerminator(line)
    BY <1>1 DEF Terminated
  <1>4. Laid(more)
    <2>1. ~IsLabel(more[1])
      <3>1. CASE n = 0
        BY <3>1, <1>1, <1>2 DEF Terminated
      <3>2. CASE n # 0
        BY <3>2, <1>1, <1>2 DEF Laid
      <3> QED BY <3>1, <3>2
    <2>2. ASSUME NEW i \in 1 .. Len(more) - 1
          PROVE  IsTerminator(more[i]) <=> IsLabel(more[i + 1])
      <3>1. i \in 1 .. n /\ more[i] = lines[i]
        BY <1>1
      <3>2. CASE i = n
        BY <3>1, <3>2, <1>1, <1>2 DEF Terminated
      <3>3. CASE i # n
        <4>1. i \in 1 .. n - 1 /\ more[i + 1] = lines[i + 1]
          BY <3>1, <3>3, <1>1
        <4> QED BY <3>1, <4>1 DEF Laid
      <3> QED BY <3>2, <3>3
    <2>3. ASSUME NEW i \in 1 .. Len(more), NEW j \in 1 .. Len(more),
                 IsLabel(more[i]), IsLabel(more[j]), more[i].to = more[j].to
          PROVE  i = j
      <3>1. ASSUME NEW k \in 1 .. n, IsLabel(lines[k])
            PROVE  lines[k].to \in Defined(lines)
        BY <3>1 DEF Defined
      <3>2. i = n + 1 \/ i \in 1 .. n
        BY <1>1
      <3>3. j = n + 1 \/ j \in 1 .. n
        BY <1>1
      <3>4. CASE i \in 1 .. n /\ j \in 1 .. n
        BY <3>4, <2>3, <1>1 DEF Laid
      <3>5. CASE i = n + 1 /\ j \in 1 .. n
        <4>1. more[i] = line /\ more[j] = lines[j]
          BY <3>5, <1>1
        <4> QED BY <4>1, <3>5, <3>1, <2>3
      <3>6. CASE j = n + 1 /\ i \in 1 .. n
        <4>1. more[j] = line /\ more[i] = lines[i]
          BY <3>6, <1>1
        <4> QED BY <4>1, <3>6, <3>1, <2>3
      <3> QED BY <3>2, <3>3, <3>4, <3>5, <3>6
    <2> QED BY <2>1, <2>2, <2>3 DEF Laid
  <1>5. ASSUME NEW l
        PROVE  l \in Defined(more) <=> l \in Defined(lines) \/ (IsLabel(line) /\ l = line.to)
    <2>1. l \in Defined(more) <=> \E i \in 1 .. n + 1 : IsLabel(more[i]) /\ l = more[i].to
      BY <1>1 DEF Defined
    <2>2. l \in Defined(lines) <=> \E i \in 1 .. n : IsLabel(lines[i]) /\ l = lines[i].to
      BY DEF Defined
    <2>3. \A i : i \in 1 .. n + 1 <=> i \in 1 .. n \/ i = n + 1
      BY <1>1
    <2> HIDE DEF n
    <2> QED BY <2>1, <2>2, <2>3, <1>1, Zenon
  <1>6. ASSUME NEW l
        PROVE  l \in Targeted(more) <=> l \in Targeted(lines) \/ l \in Targets(line)
    <2>1. l \in Targeted(more) <=> \E i \in 1 .. n + 1 : l \in Targets(more[i])
      BY <1>1 DEF Targeted
    <2>2. l \in Targeted(lines) <=> \E i \in 1 .. n : l \in Targets(lines[i])
      BY DEF Targeted
    <2>3. \A i : i \in 1 .. n + 1 <=> i \in 1 .. n \/ i = n + 1
      BY <1>1
    <2> HIDE DEF n
    <2> QED BY <2>1, <2>2, <2>3, <1>1, Zenon
  <1> QED BY <1>1, <1>3, <1>4, <1>5, <1>6 DEF more

LEMMA LinesFields ==
    ASSUME NEW g, Generator(g), NEW more
    PROVE  LET h == [g EXCEPT !.lines = more]
           IN  /\ Generator(h) /\ h.lines = more
               /\ h.env = g.env /\ h.seen = g.seen /\ h.value = g.value
               /\ h.temp = g.temp /\ h.label = g.label /\ h.slot = g.slot
               /\ h.loops = g.loops /\ h.sites = g.sites
PROOF
  <1> DEFINE h == [g EXCEPT !.lines = more]
  <1>1. h = [lines |-> more, env |-> g.env, seen |-> g.seen,
             value |-> g.value, temp |-> g.temp, label |-> g.label, slot |-> g.slot,
             loops |-> g.loops, sites |-> g.sites]
    BY DEF Generator
  <1> HIDE DEF h
  <1>2. /\ h.lines = more
        /\ h.env = g.env /\ h.seen = g.seen /\ h.value = g.value
        /\ h.temp = g.temp /\ h.label = g.label /\ h.slot = g.slot
        /\ h.loops = g.loops /\ h.sites = g.sites
    BY <1>1
  <1>3. Generator(h)
    BY <1>1, <1>2, Zenon DEF Generator
  <1> QED BY <1>2, <1>3 DEF h

LEMMA EmitFields ==
    ASSUME NEW g, Generator(g), NEW line
    PROVE  LET h == Emit(g, line)
           IN  /\ Generator(h) /\ h.lines = Append(g.lines, line)
               /\ h.env = g.env /\ h.seen = g.seen /\ h.value = g.value
               /\ h.temp = g.temp /\ h.label = g.label /\ h.slot = g.slot
               /\ h.loops = g.loops /\ h.sites = g.sites
PROOF
  <1> DEFINE more == Append(g.lines, line)
  <1>1. Emit(g, line) = [g EXCEPT !.lines = more]
    BY DEF Emit
  <1> HIDE DEF more
  <1>2. LET h == [g EXCEPT !.lines = more]
        IN  /\ Generator(h) /\ h.lines = more
            /\ h.env = g.env /\ h.seen = g.seen /\ h.value = g.value
            /\ h.temp = g.temp /\ h.label = g.label /\ h.slot = g.slot
            /\ h.loops = g.loops /\ h.sites = g.sites
    BY LinesFields
  <1> QED BY <1>1, <1>2, Zenon DEF more

(* Ready to go on: nothing is emitted after the end of a block.            *)
Ready(g) == GeneratorOk(g) /\ Laid(g.lines) /\ ~Terminated(g.lines)
(* The generator has moved on inside a block.                              *)
Onward(g, h) ==
    /\ Ready(h) /\ h.label = g.label /\ h.loops = g.loops
    /\ Defined(h.lines) = Defined(g.lines) /\ Targeted(h.lines) = Targeted(g.lines)

LEMMA OnwardTwice ==
    ASSUME NEW g, NEW h, NEW k, Onward(g, h), Onward(h, k)
    PROVE  Onward(g, k)
  BY DEF Onward

LEMMA EmitPlain ==
    ASSUME NEW g, Ready(g), NEW line, ~IsLabel(line), ~IsTerminator(line)
    PROVE  Onward(g, Emit(g, line))
PROOF
  <1> DEFINE h == Emit(g, line)
  <1>1. /\ Generator(h) /\ h.lines = Append(g.lines, line)
        /\ h.temp = g.temp /\ h.label = g.label /\ h.loops = g.loops
    BY EmitFields DEF Ready, GeneratorOk
  <1>2. /\ Sequence(h.lines) /\ Laid(h.lines) /\ ~Terminated(h.lines)
        /\ Defined(h.lines) = Defined(g.lines) \cup {l \in {line.to} : IsLabel(line)}
        /\ Targeted(h.lines) = Targeted(g.lines) \cup Targets(line)
    BY <1>1, AppendLine DEF Ready, GeneratorOk
  <1>3. Targets(line) = {}
    BY DEF Targets, IsTerminator, Terminators
  <1> HIDE DEF h
  <1> QED BY <1>1, <1>2, <1>3 DEF Ready, GeneratorOk, Onward, h

LEMMA EmitLabel ==
    ASSUME NEW g, GeneratorOk(g), Laid(g.lines), Terminated(g.lines),
           NEW l, l \notin Defined(g.lines)
    PROVE  LET h == Label(g, l)
           IN  /\ Ready(h) /\ h.label = g.label /\ h.loops = g.loops
               /\ Defined(h.lines) = Defined(g.lines) \cup {l}
               /\ Targeted(h.lines) = Targeted(g.lines)
PROOF
  <1> DEFINE line == [op |-> "label", to |-> l]
             h == Emit(g, line)
  <1>1. /\ Generator(h) /\ h.lines = Append(g.lines, line)
        /\ h.temp = g.temp /\ h.label = g.label /\ h.loops = g.loops
    BY EmitFields DEF GeneratorOk
  <1>2. IsLabel(line) /\ line.to = l /\ Targets(line) = {} /\ ~IsTerminator(line)
    BY DEF Targets, IsLabel, IsTerminator, Terminators
  <1> HIDE DEF line
  <1>3. /\ Sequence(h.lines) /\ Laid(h.lines) /\ ~Terminated(h.lines)
        /\ Defined(h.lines) = Defined(g.lines) \cup {m \in {line.to} : IsLabel(line)}
        /\ Targeted(h.lines) = Targeted(g.lines) \cup Targets(line)
    BY <1>1, <1>2, AppendLine DEF GeneratorOk
  <1> HIDE DEF h
  <1>4. /\ Ready(h) /\ h.label = g.label /\ h.loops = g.loops
        /\ Defined(h.lines) = Defined(g.lines) \cup {l}
        /\ Targeted(h.lines) = Targeted(g.lines)
    BY <1>1, <1>2, <1>3 DEF Ready, GeneratorOk
  <1> QED BY <1>4 DEF h, line, Label

LEMMA EmitTerminator ==
    ASSUME NEW g, Ready(g), NEW line, IsTerminator(line)
    PROVE  LET h == Emit(g, line)
           IN  /\ GeneratorOk(h) /\ Laid(h.lines) /\ Terminated(h.lines)
               /\ h.label = g.label /\ h.loops = g.loops
               /\ Defined(h.lines) = Defined(g.lines)
               /\ Targeted(h.lines) = Targeted(g.lines) \cup Targets(line)
PROOF
  <1> DEFINE h == Emit(g, line)
  <1>1. /\ Generator(h) /\ h.lines = Append(g.lines, line)
        /\ h.temp = g.temp /\ h.label = g.label /\ h.loops = g.loops
    BY EmitFields DEF GeneratorOk, Ready
  <1>2. ~IsLabel(line)
    BY DEF IsLabel, IsTerminator, Terminators
  <1>3. /\ Sequence(h.lines) /\ Laid(h.lines) /\ Terminated(h.lines)
        /\ Defined(h.lines) = Defined(g.lines) \cup {m \in {line.to} : IsLabel(line)}
        /\ Targeted(h.lines) = Targeted(g.lines) \cup Targets(line)
    BY <1>1, <1>2, AppendLine DEF GeneratorOk, Ready
  <1> HIDE DEF h
  <1> QED BY <1>1, <1>2, <1>3 DEF Ready, GeneratorOk, h

LEMMA EmitJump ==
    ASSUME NEW g, Ready(g), NEW l
    PROVE  LET h == Jump(g, l)
           IN  /\ GeneratorOk(h) /\ Laid(h.lines) /\ Terminated(h.lines)
               /\ h.label = g.label /\ h.loops = g.loops
               /\ Defined(h.lines) = Defined(g.lines)
               /\ Targeted(h.lines) = Targeted(g.lines) \cup {l}
PROOF
  <1> DEFINE line == [op |-> "br", to |-> l]
  <1>1. IsTerminator(line) /\ Targets(line) = {l}
    BY DEF Targets, IsTerminator, Terminators
  <1> HIDE DEF line
  <1> QED BY <1>1, EmitTerminator DEF Jump, line

LEMMA EmitBranch ==
    ASSUME NEW g, Ready(g), NEW yes, NEW no
    PROVE  LET h == Branch(g, yes, no)
           IN  /\ GeneratorOk(h) /\ Laid(h.lines) /\ Terminated(h.lines)
               /\ h.label = g.label /\ h.loops = g.loops
               /\ Defined(h.lines) = Defined(g.lines)
               /\ Targeted(h.lines) = Targeted(g.lines) \cup {yes, no}
PROOF
  <1> DEFINE line == [op |-> "if", on |-> g.value, yes |-> yes, no |-> no]
  <1>1. IsTerminator(line) /\ Targets(line) = {yes, no}
    BY DEF Targets, IsTerminator, Terminators
  <1> HIDE DEF line
  <1> QED BY <1>1, EmitTerminator DEF Branch, line
-----------------------------------------------------------------------------
(* What the helpers of the generator leave alone.                          *)
LEMMA OnwardSelf == ASSUME NEW g, Ready(g) PROVE Onward(g, g)
  BY DEF Onward

LEMMA HoldingFields ==
    ASSUME NEW g, Generator(g), NEW v
    PROVE  LET h == Holding(g, v)
           IN  /\ Generator(h) /\ h.lines = g.lines /\ h.value = v
               /\ h.env = g.env /\ h.seen = g.seen
               /\ h.temp = g.temp /\ h.label = g.label /\ h.slot = g.slot
               /\ h.loops = g.loops /\ h.sites = g.sites
  BY DEF Holding, Generator

LEMMA OnwardHolding ==
    ASSUME NEW g, Ready(g), NEW v
    PROVE  Onward(g, Holding(g, v))
PROOF
  <1> DEFINE h == Holding(g, v)
  <1>1. /\ Generator(h) /\ h.lines = g.lines
        /\ h.temp = g.temp /\ h.label = g.label /\ h.loops = g.loops
    BY HoldingFields DEF Ready, GeneratorOk
  <1> HIDE DEF h
  <1> QED BY <1>1 DEF Ready, GeneratorOk, Onward, h

LEMMA TempFields ==
    ASSUME NEW g, Generator(g), g.temp \in Nat
    PROVE  LET h == [g EXCEPT !.temp = @ + 1]
           IN  /\ Generator(h) /\ h.lines = g.lines /\ h.value = g.value
               /\ h.env = g.env /\ h.seen = g.seen
               /\ h.temp = g.temp + 1 /\ h.label = g.label /\ h.slot = g.slot
               /\ h.loops = g.loops /\ h.sites = g.sites
  BY DEF Generator

(* A line with the temporary its result goes to is of the same kind.       *)
LEMMA WithResult ==
    ASSUME NEW line, "op" \in DOMAIN line, NEW d
    PROVE  LET more == With(line, "d", d) IN more.op = line.op
  BY DEF With

LEMMA OnwardCompute ==
    ASSUME NEW g, Ready(g), NEW line, "op" \in DOMAIN line,
           ~IsLabel(line), ~IsTerminator(line), NEW t
    PROVE  Onward(g, Compute(g, line, t))
PROOF
  <1> DEFINE more == With(line, "d", g.temp)
             e == Emit(g, more)
             n == [e EXCEPT !.temp = @ + 1]
  <1>1. more.op = line.op
    BY WithResult
  <1> HIDE DEF more
  <1>2. ~IsLabel(more) /\ ~IsTerminator(more)
    BY <1>1 DEF IsLabel, IsTerminator
  <1>3. Onward(g, e)
    BY <1>2, EmitPlain
  <1> HIDE DEF e
  <1>4. Generator(e) /\ e.temp \in Nat
    BY <1>3 DEF Onward, Ready, GeneratorOk
  <1>5. /\ Generator(n) /\ n.lines = e.lines /\ n.temp = e.temp + 1
        /\ n.label = e.label /\ n.loops = e.loops
    BY <1>4, TempFields
  <1> HIDE DEF n
  <1>6. Onward(e, n)
    BY <1>3, <1>5 DEF Onward, Ready, GeneratorOk
  <1>7. Onward(g, n)
    BY <1>3, <1>6, OnwardTwice
  <1>8. Onward(g, Holding(n, Value("temp", t, <<g.temp>>)))
    BY <1>7, OnwardHolding, OnwardTwice DEF Onward
  <1> QED BY <1>8 DEF Compute, n, e, more

LEMMA OnwardCalc ==
    ASSUME NEW g, Ready(g), NEW f, NEW args, NEW t
    PROVE  Onward(g, Calc(g, f, args, t))
PROOF
  <1> DEFINE line == [op |-> "calc", f |-> f, args |-> args]
  <1>1. "op" \in DOMAIN line /\ ~IsLabel(line) /\ ~IsTerminator(line)
    BY DEF IsLabel, IsTerminator, Terminators
  <1> HIDE DEF line
  <1> QED BY <1>1, OnwardCompute DEF Calc, line

LEMMA OnwardLoad ==
    ASSUME NEW g, Ready(g), NEW slot, NEW t
    PROVE  Onward(g, Load(g, slot, t))
PROOF
  <1> DEFINE line == [op |-> "load", slot |-> slot]
  <1>1. "op" \in DOMAIN line /\ ~IsLabel(line) /\ ~IsTerminator(line)
    BY DEF IsLabel, IsTerminator, Terminators
  <1> HIDE DEF line
  <1> QED BY <1>1, OnwardCompute DEF Load, line

LEMMA OnwardCallTo ==
    ASSUME NEW g, Ready(g), NEW f, NEW args, NEW t
    PROVE  Onward(g, CallTo(g, f, args, t))
PROOF
  <1> DEFINE line == [op |-> "call", f |-> f, args |-> args, t |-> t]
  <1>1. "op" \in DOMAIN line /\ ~IsLabel(line) /\ ~IsTerminator(line)
    BY DEF IsLabel, IsTerminator, Terminators
  <1> HIDE DEF line
  <1>2. CASE t = "void"
    <2>1. Onward(g, Emit(g, line))
      BY <1>1, EmitPlain
    <2>2. Onward(g, Holding(Emit(g, line), Nothing))
      BY <2>1, OnwardHolding, OnwardTwice DEF Onward
    <2> QED BY <2>2, <1>2 DEF CallTo, line
  <1>3. CASE t # "void"
    <2>1. Onward(g, Compute(g, line, t))
      BY <1>1, OnwardCompute
    <2> QED BY <2>1, <1>3 DEF CallTo, line
  <1> QED BY <1>2, <1>3

LEMMA OnwardStore ==
    ASSUME NEW g, Ready(g), NEW slot, NEW t
    PROVE  Onward(g, Store(g, slot, t))
PROOF
  <1> DEFINE line == [op |-> "store", slot |-> slot, t |-> t, from |-> g.value]
  <1>1. ~IsLabel(line) /\ ~IsTerminator(line)
    BY DEF IsLabel, IsTerminator, Terminators
  <1> HIDE DEF line
  <1> QED BY <1>1, EmitPlain DEF Store, line

(* Fields that no line depends on.                                         *)
LEMMA OnwardSlot ==
    ASSUME NEW g, Ready(g) PROVE Onward(g, Slot(g))
PROOF
  <1> DEFINE h == Slot(g)
  <1>1. /\ Generator(h) /\ h.lines = g.lines /\ h.temp = g.temp
        /\ h.label = g.label /\ h.loops = g.loops
    BY DEF Slot, Ready, GeneratorOk, Generator
  <1> HIDE DEF h
  <1> QED BY <1>1 DEF Ready, GeneratorOk, Onward, h
LEMMA OnwardScope ==
    ASSUME NEW g, Ready(g), NEW env PROVE Onward(g, [g EXCEPT !.env = env])
PROOF
  <1> DEFINE h == [g EXCEPT !.env = env]
  <1>1. /\ Generator(h) /\ h.lines = g.lines /\ h.temp = g.temp
        /\ h.label = g.label /\ h.loops = g.loops
    BY DEF Ready, GeneratorOk, Generator
  <1> HIDE DEF h
  <1> QED BY <1>1 DEF Ready, GeneratorOk, Onward, h
LEMMA OnwardSeen ==
    ASSUME NEW g, Ready(g), NEW seen PROVE Onward(g, [g EXCEPT !.seen = seen])
PROOF
  <1> DEFINE h == [g EXCEPT !.seen = seen]
  <1>1. /\ Generator(h) /\ h.lines = g.lines /\ h.temp = g.temp
        /\ h.label = g.label /\ h.loops = g.loops
    BY DEF Ready, GeneratorOk, Generator
  <1> HIDE DEF h
  <1> QED BY <1>1 DEF Ready, GeneratorOk, Onward, h
LEMMA OnwardSites ==
    ASSUME NEW g, Ready(g), NEW n PROVE Onward(g, [g EXCEPT !.sites = n])
PROOF
  <1> DEFINE h == [g EXCEPT !.sites = n]
  <1>1. /\ Generator(h) /\ h.lines = g.lines /\ h.temp = g.temp
        /\ h.label = g.label /\ h.loops = g.loops
    BY DEF Ready, GeneratorOk, Generator
  <1> HIDE DEF h
  <1> QED BY <1>1 DEF Ready, GeneratorOk, Onward, h
LEMMA OnwardDeclare ==
    ASSUME NEW g, Ready(g), NEW x, NEW slot, NEW t
    PROVE  Onward(g, Declare(g, x, slot, t))
  BY OnwardScope DEF Declare

LEMMA OnwardDivide ==
    ASSUME NEW g, Ready(g), NEW op, NEW l, NEW r
    PROVE  Onward(g, CgDivide(g, op, l, r))
PROOF
  <1> DEFINE is == Calc(g, "==", <<r, Zero("int")>>, "bool")
             safe == Calc(is, "select", <<is.value, Value("const", "int", <<1>>), r>>, "int")
             raw == Calc(safe, op, <<l, safe.value>>, "int")
             done == Calc(raw, "select", <<is.value, Zero("int"), raw.value>>, "int")
  <1>1. CgDivide(g, op, l, r) = done
    BY DEF CgDivide
  <1>2. Onward(g, is)
    BY OnwardCalc
  <1> HIDE DEF is
  <1>3. Onward(is, safe)
    BY <1>2, OnwardCalc DEF Onward
  <1> HIDE DEF safe
  <1>4. Onward(safe, raw)
    BY <1>3, OnwardCalc DEF Onward
  <1> HIDE DEF raw
  <1>5. Onward(raw, done)
    BY <1>4, OnwardCalc DEF Onward
  <1> HIDE DEF is, safe, raw, done
  <1> QED BY <1>2, <1>3, <1>4, <1>5, <1>1, OnwardTwice

LEMMA OnwardText ==
    ASSUME NEW g, Ready(g), NEW value
    PROVE  Onward(g, AsText(g, value))
  BY OnwardHolding, OnwardCallTo DEF AsText

LEMMA OnwardConcat ==
    ASSUME NEW g, Ready(g), NEW l, NEW r
    PROVE  Onward(g, Concat(g, l, r))
PROOF
  <1> DEFINE a == AsText(g, l)
             b == AsText(a, r)
             done == CallTo(b, "concat", <<a.value, b.value>>, "str")
  <1>1. Onward(g, a)
    BY OnwardText
  <1>2. Onward(a, b)
    BY <1>1, OnwardText DEF Onward
  <1>3. Onward(b, done)
    BY <1>2, OnwardCallTo DEF Onward
  <1>4. Concat(g, l, r) = done
    BY DEF Concat
  <1> HIDE DEF a, b, done
  <1> QED BY <1>1, <1>2, <1>3, <1>4, OnwardTwice

LEMMA OnwardEqual ==
    ASSUME NEW g, Ready(g), NEW op, NEW l, NEW r
    PROVE  Onward(g, Equal(g, op, l, r))
PROOF
  <1> DEFINE e == CallTo(g, "StrEquals", <<l, r>>, "bool")
  <1>1. Onward(g, e)
    BY OnwardCallTo
  <1>2. Onward(g, Calc(e, "!", <<e.value>>, "bool"))
    BY <1>1, OnwardCalc, OnwardTwice DEF Onward
  <1>3. Onward(g, Calc(g, op, <<l, r>>, "bool"))
    BY OnwardCalc
  <1>4. Equal(g, op, l, r) \in {e, Calc(e, "!", <<e.value>>, "bool"),
                                 Calc(g, op, <<l, r>>, "bool")}
    BY DEF Equal
  <1> HIDE DEF e
  <1> QED BY <1>1, <1>2, <1>3, <1>4

LEMMA OnwardOperation ==
    ASSUME NEW g, Ready(g), NEW op, NEW l, NEW r
    PROVE  Onward(g, CgOperation(g, op, l, r))
PROOF
  <1>1. CgOperation(g, op, l, r) \in {Concat(g, l, r), Equal(g, op, l, r),
            CgDivide(g, op, l, r), Calc(g, op, <<l, r>>, Outcome(op))}
    BY DEF CgOperation
  <1> QED BY <1>1, OnwardConcat, OnwardEqual, OnwardDivide, OnwardCalc

LEMMA OnwardPut ==
    ASSUME NEW g, Ready(g), NEW value
    PROVE  Onward(g, Put(g, value))
  BY OnwardSelf, OnwardCallTo DEF Put

LEMMA OnwardInput ==
    ASSUME NEW g, Ready(g)
    PROVE  Onward(g, Input(g))
PROOF
  <1> DEFINE s == [g EXCEPT !.sites = @ + 1]
  <1>1. Onward(g, s)
    BY OnwardSites
  <1> HIDE DEF s
  <1>2. Onward(s, CallTo(s, "input", <<Value("const", "buffer", <<g.sites>>)>>, "str"))
    BY <1>1, OnwardCallTo DEF Onward
  <1> QED BY <1>1, <1>2, OnwardTwice DEF Input, s

LEMMA OnwardAbs ==
    ASSUME NEW g, Ready(g), NEW x
    PROVE  Onward(g, CgAbs(g, x))
PROOF
  <1> DEFINE n == Calc(g, "-", <<Zero("int"), x>>, "int")
             is == Calc(n, "<", <<x, Zero("int")>>, "bool")
             done == Calc(is, "select", <<is.value, n.value, x>>, "int")
  <1>1. Onward(g, n)
    BY OnwardCalc
  <1>2. Onward(n, is)
    BY <1>1, OnwardCalc DEF Onward
  <1>3. Onward(is, done)
    BY <1>2, OnwardCalc DEF Onward
  <1>4. CgAbs(g, x) = done
    BY DEF CgAbs
  <1> HIDE DEF n, is, done
  <1> QED BY <1>1, <1>2, <1>3, <1>4, OnwardTwice

LEMMA OnwardMax ==
    ASSUME NEW g, Ready(g), NEW x, NEW y
    PROVE  Onward(g, CgMax(g, x, y))
PROOF
  <1> DEFINE is == Calc(g, ">", <<x, y>>, "bool")
             done == Calc(is, "select", <<is.value, x, y>>, "int")
  <1>1. Onward(g, is)
    BY OnwardCalc
  <1>2. Onward(is, done)
    BY <1>1, OnwardCalc DEF Onward
  <1>3. CgMax(g, x, y) = done
    BY DEF CgMax
  <1> HIDE DEF is, done
  <1> QED BY <1>1, <1>2, <1>3, OnwardTwice

LEMMA OnwardApplied ==
    ASSUME NEW g, Ready(g), NEW f, NEW v
    PROVE  Onward(g, Applied(g, f, v))
PROOF
  <1>1. Applied(g, f, v) \in {CallTo(g, "newline", <<>>, "void"), Holding(g, Nothing),
            Input(g), Calc(g, "len", v, "int"), CgAbs(g, v[1]), CgMax(g, v[1], v[2]),
            CallTo(g, f, v, Result(typing, f))}
    BY DEF Applied
  <1> QED BY <1>1, OnwardCallTo, OnwardHolding, OnwardInput, OnwardCalc, OnwardAbs, OnwardMax

LEMMA OnwardParam ==
    ASSUME NEW g, Ready(g), NEW f, NEW i
    PROVE  Onward(g, CgParam(g, f, i))
PROOF
  <1> DEFINE p == Find(f).params[i]
             t == typing.par[f][p.x]
             s == Slot(g)
             h == Holding(s, Value("param", t, <<i>>))
             k == Store(h, g.slot, t)
             done == Declare(k, p.x, g.slot, t)
  <1> HIDE DEF p, t
  <1>1. Onward(g, s)
    BY OnwardSlot
  <1>2. Onward(s, h)
    BY <1>1, OnwardHolding DEF Onward
  <1>3. Onward(h, k)
    BY <1>2, OnwardStore DEF Onward
  <1>4. Onward(k, done)
    BY <1>3, OnwardDeclare DEF Onward
  <1>5. CgParam(g, f, i) = done
    BY DEF CgParam, p, t
  <1> HIDE DEF s, h, k, done
  <1> QED BY <1>1, <1>2, <1>3, <1>4, <1>5, OnwardTwice
-----------------------------------------------------------------------------
(* Most pieces of work have nothing to do with labels.                     *)
Neutral(task) ==
    task.do \notin {"label", "enter", "bodies", "jump", "branch", "test", "tests", "arms"}
NeutralTasks(tasks) == Sequence(tasks) /\ \A i \in 1 .. Len(tasks) : Neutral(tasks[i])

LEMMA NeutralTask ==
    ASSUME NEW task, Neutral(task)
    PROVE  ~Opens(task) /\ ~Ends(task) /\ Owed(task) = {} /\ Refs(task) = {}
  BY DEF Neutral, Opens, Ends, Owed, Refs

LEMMA NeutralFew ==
    /\ NeutralTasks(<<>>)
    /\ \A a : Neutral(a) => NeutralTasks(<<a>>)
    /\ \A a, b : Neutral(a) /\ Neutral(b) => NeutralTasks(<<a, b>>)
PROOF
  <1>1. NeutralTasks(<<>>)
    BY DEF NeutralTasks, Sequence
  <1>2. ASSUME NEW a, Neutral(a) PROVE NeutralTasks(<<a>>)
    <2>1. <<a>> \in Seq({a})
      OBVIOUS
    <2>2. Len(<<a>>) = 1 /\ \A i \in 1 .. 1 : <<a>>[i] = a
      OBVIOUS
    <2> QED BY <2>1, <2>2, <1>2 DEF NeutralTasks, Sequence
  <1>3. ASSUME NEW a, NEW b, Neutral(a), Neutral(b) PROVE NeutralTasks(<<a, b>>)
    <2>1. <<a, b>> \in Seq({a, b})
      OBVIOUS
    <2>2. Len(<<a, b>>) = 2 /\ \A i \in 1 .. 2 : <<a, b>>[i] \in {a, b}
      OBVIOUS
    <2> QED BY <2>1, <2>2, <1>3 DEF NeutralTasks, Sequence
  <1> QED BY <1>1, <1>2, <1>3

LEMMA NeutralSwap ==
    ASSUME NEW g, Ready(g), NEW task, Neutral(task), NEW h, Onward(g, h),
           NEW new, NeutralTasks(new)
    PROVE  Swap(g, task, h, new)
PROOF
  <1>1. /\ Sequence(new) /\ Len(new) \in Nat /\ (new = <<>> <=> Len(new) = 0)
        /\ ~Ends(task) /\ Owed(task) = {} /\ Refs(task) = {}
    BY NeutralTask, SequenceFacts DEF NeutralTasks
  <1>2. \A i \in 1 .. Len(new) : /\ ~Opens(new[i]) /\ ~Ends(new[i])
                                 /\ Owed(new[i]) = {} /\ Refs(new[i]) = {}
    BY NeutralTask DEF NeutralTasks
  <1>3. Owes(new) = {} /\ Referred(new) = {} /\ Apart(new)
    BY <1>2 DEF Owes, Referred, Apart
  <1>4. \A i \in 1 .. Len(new) :
            Ends(new[i]) <=> IF i < Len(new) THEN Opens(new[i + 1]) ELSE Ends(task)
    BY <1>1, <1>2
  <1>5. ~Terminated(h.lines) /\ (new # <<>> => ~Opens(new[1]))
    BY <1>1, <1>2 DEF Onward, Ready
  <1>6. GeneratorOk(h) /\ Laid(h.lines) /\ h.label = g.label /\ h.label \in Nat
    BY DEF Onward, Ready, GeneratorOk
  <1>7. Defined(h.lines) = Defined(g.lines) /\ Targeted(h.lines) = Targeted(g.lines)
        /\ h.loops = g.loops
    BY DEF Onward
  <1> QED BY <1>1, <1>3, <1>4, <1>5, <1>6, <1>7 DEF Swap

(* The labels of the pieces of work, by what makes them.                   *)
LEMMA TasksNeutral ==
    /\ \A e : Neutral(ToEval(e)) /\ Neutral(ToRight(e))
    /\ \A op : Neutral(ToUnary(op))
    /\ \A op, left : Neutral(ToCombine(op, left))
    /\ \A e, slot : Neutral(ToFork(e, slot)) /\ Neutral(ToDeclare(e, slot))
    /\ \A slot, t : Neutral(ToStore(slot, t)) /\ Neutral(ToLoad(slot, t))
    /\ \A call, i, vals : Neutral(ToPass(call, i, vals))
    /\ \A vals : Neutral(ToPrint(vals)) /\ Neutral(ToCompare(vals))
    /\ \A f, vals : Neutral(ToApply(f, vals))
    /\ Neutral(ToLeave) /\ Neutral(ToReturn)
    /\ \A i : Neutral(ToBind(i))
    /\ \A b : Neutral(ToBlock(b)) /\ Neutral(ToMake(b)) /\ Neutral(ToScope(b))
    /\ \A x : Neutral(ToAssign(x)) /\ Neutral(ToSwitch(x))
    /\ \A st, env : Neutral(ToLoop(st, env))
  BY DEF Neutral, ToEval, ToRight, ToUnary, ToCombine, ToFork, ToDeclare, ToStore, ToLoad,
         ToPass, ToPrint, ToCompare, ToApply, ToLeave, ToReturn, ToBind, ToBlock, ToMake,
         ToScope, ToAssign, ToSwitch, ToLoop

Plain(task) == ~Opens(task) /\ ~Ends(task) /\ Owed(task) = {} /\ Refs(task) = {}

LEMMA TaskLabel ==
    ASSUME NEW l
    PROVE  LET t == ToLabel(l)
           IN  Opens(t) /\ ~Ends(t) /\ Owed(t) = {l} /\ Refs(t) = {}
  BY DEF ToLabel, Opens, Ends, Owed, Refs
LEMMA TaskJump ==
    ASSUME NEW l
    PROVE  LET t == ToJump(l)
           IN  ~Opens(t) /\ Ends(t) /\ Owed(t) = {} /\ Refs(t) = {l}
  BY DEF ToJump, Opens, Ends, Owed, Refs
LEMMA TaskBranch ==
    ASSUME NEW yes, NEW no
    PROVE  LET t == ToBranch(yes, no)
           IN  ~Opens(t) /\ Ends(t) /\ Owed(t) = {} /\ Refs(t) = {yes, no}
  BY DEF ToBranch, Opens, Ends, Owed, Refs
LEMMA TaskTest ==
    ASSUME NEW c, NEW yes, NEW no
    PROVE  LET t == ToTest(c, yes, no)
           IN  ~Opens(t) /\ Ends(t) /\ Owed(t) = {} /\ Refs(t) = {yes, no}
  BY DEF ToTest, Opens, Ends, Owed, Refs
LEMMA TaskEnter ==
    ASSUME NEW l, NEW out, NEW next
    PROVE  LET t == ToEnter(l, out, next)
           IN  Opens(t) /\ ~Ends(t) /\ Owed(t) = {l} /\ Refs(t) = {out, next}
  BY DEF ToEnter, Opens, Ends, Owed, Refs
LEMMA TaskArms ==
    ASSUME NEW arms, NEW end
    PROVE  LET t == ToArms(arms, end)
           IN  ~Opens(t) /\ ~Ends(t) /\ Owed(t) = {} /\ Refs(t) = {end}
  BY DEF ToArms, Opens, Ends, Owed, Refs
LEMMA TaskTests ==
    ASSUME NEW subject, NEW arms, NEW at, NEW other
    PROVE  LET t == ToTests(subject, arms, at, other)
           IN  /\ ~Opens(t) /\ Ends(t) /\ Owed(t) = {}
               /\ Refs(t) = {other} \cup at .. at + Len(arms) - 1
  BY DEF ToTests, Opens, Ends, Owed, Refs
LEMMA TaskBodies ==
    ASSUME NEW arms, NEW at, NEW end
    PROVE  LET t == ToBodies(arms, at, end)
           IN  /\ Opens(t) /\ ~Ends(t) /\ Refs(t) = {end}
               /\ Owed(t) = {end} \cup at .. at + Len(arms) - 1
  BY DEF ToBodies, Opens, Ends, Owed, Refs
LEMMA TaskPlain ==
    ASSUME NEW t, Neutral(t) PROVE Plain(t)
  BY NeutralTask DEF Plain

-----------------------------------------------------------------------------
(* The exchanges of the statements that make blocks.                       *)
Bounded(g) == Defined(g.lines) \subseteq 0 .. g.label - 1

LEMMA TakeFields ==
    ASSUME NEW g, GeneratorOk(g), NEW n \in Nat
    PROVE  LET h == Take(g, n)
           IN  /\ GeneratorOk(h) /\ h.lines = g.lines /\ h.value = g.value
               /\ h.env = g.env /\ h.seen = g.seen
               /\ h.temp = g.temp /\ h.label = g.label + n /\ h.slot = g.slot
               /\ h.loops = g.loops /\ h.sites = g.sites
  BY DEF Take, GeneratorOk, Generator

(* A loop: a jump to its condition.                                        *)
LEMMA OpenLoop ==
    ASSUME NEW g, Ready(g), Bounded(g), NEW n \in Nat, n > 0
    PROVE  LET h == Label(Jump(Take(g, n), g.label), g.label)
           IN  /\ Ready(h) /\ h.label = g.label + n /\ h.loops = g.loops
               /\ Defined(h.lines) = Defined(g.lines) \cup {g.label}
               /\ Targeted(h.lines) = Targeted(g.lines) \cup {g.label}
PROOF
  <1> DEFINE a == Take(g, n)
             b == Jump(a, g.label)
  <1>1. Ready(a) /\ a.lines = g.lines /\ a.label = g.label + n /\ a.loops = g.loops
    BY TakeFields DEF Ready
  <1> HIDE DEF a
  <1>2. /\ GeneratorOk(b) /\ Laid(b.lines) /\ Terminated(b.lines)
        /\ b.label = a.label /\ b.loops = a.loops
        /\ Defined(b.lines) = Defined(a.lines)
        /\ Targeted(b.lines) = Targeted(a.lines) \cup {g.label}
    BY <1>1, EmitJump
  <1> HIDE DEF b
  <1>3. g.label \notin Defined(b.lines)
    BY <1>1, <1>2 DEF Bounded, Ready, GeneratorOk
  <1>4. LET h == Label(b, g.label)
        IN  /\ Ready(h) /\ h.label = b.label /\ h.loops = b.loops
            /\ Defined(h.lines) = Defined(b.lines) \cup {g.label}
            /\ Targeted(h.lines) = Targeted(b.lines)
    BY <1>2, <1>3, EmitLabel
  <1> QED BY <1>1, <1>2, <1>4 DEF b, a

LEMMA SwapWhile ==
    ASSUME NEW g, Ready(g), Bounded(g), NEW task, Neutral(task),
           NEW c, NEW block, NEW env
    PROVE  LET cond == g.label
               body == cond + 1
               end == cond + 2
           IN  Swap(g, task, Label(Jump(Take(g, 3), cond), cond),
                    <<ToTest(c, body, end), ToEnter(body, end, cond), ToBlock(block),
                      ToLeave, ToScope(env), ToJump(cond), ToLabel(end)>>)
PROOF
  <1> DEFINE cond == g.label
             body == cond + 1
             end == cond + 2
             h == Label(Jump(Take(g, 3), cond), cond)
             t1 == ToTest(c, body, end)
             t2 == ToEnter(body, end, cond)
             t3 == ToBlock(block)
             t4 == ToLeave
             t5 == ToScope(env)
             t6 == ToJump(cond)
             t7 == ToLabel(end)
             new == <<t1, t2, t3, t4, t5, t6, t7>>
  <1>1. /\ Ready(h) /\ h.label = g.label + 3 /\ h.loops = g.loops
        /\ Defined(h.lines) = Defined(g.lines) \cup {cond}
        /\ Targeted(h.lines) = Targeted(g.lines) \cup {cond}
    BY OpenLoop
  <1>2. g.label \in Nat /\ Plain(task) /\ Plain(t3) /\ Plain(t4) /\ Plain(t5)
    BY TasksNeutral, TaskPlain DEF Ready, GeneratorOk
  <1>3. /\ ~Opens(t1) /\ Ends(t1) /\ Owed(t1) = {} /\ Refs(t1) = {body, end}
        /\ Opens(t2) /\ ~Ends(t2) /\ Owed(t2) = {body} /\ Refs(t2) = {end, cond}
        /\ ~Opens(t6) /\ Ends(t6) /\ Owed(t6) = {} /\ Refs(t6) = {cond}
        /\ Opens(t7) /\ ~Ends(t7) /\ Owed(t7) = {end} /\ Refs(t7) = {}
    BY TaskTest, TaskEnter, TaskJump, TaskLabel
  <1> HIDE DEF t1, t2, t3, t4, t5, t6, t7, h
  <1>4. /\ Sequence(new) /\ Len(new) = 7 /\ new # <<>>
        /\ new[1] = t1 /\ new[2] = t2 /\ new[3] = t3 /\ new[4] = t4
        /\ new[5] = t5 /\ new[6] = t6 /\ new[7] = t7
    <2>1. new \in Seq({t1, t2, t3, t4, t5, t6, t7})
      OBVIOUS
    <2> QED BY <2>1 DEF Sequence
  <1> HIDE DEF new
  <1>5. \A i \in 1 .. 7 : i = 1 \/ i = 2 \/ i = 3 \/ i = 4 \/ i = 5 \/ i = 6 \/ i = 7
    OBVIOUS
  <1>6. \A i \in 1 .. Len(new) :
            Ends(new[i]) <=> IF i < Len(new) THEN Opens(new[i + 1]) ELSE Ends(task)
    BY <1>2, <1>3, <1>4, <1>5 DEF Plain
  <1>7. \A i \in 1 .. Len(new) : \A l :
            /\ l \in Owed(new[i]) <=> (i = 2 /\ l = body) \/ (i = 7 /\ l = end)
            /\ l \in Refs(new[i]) => l \in {cond, body, end}
    BY <1>2, <1>3, <1>4, <1>5 DEF Plain
  <1>8. Apart(new) /\ Owes(new) = {body, end} /\ Referred(new) \subseteq {cond, body, end}
    BY <1>2, <1>4, <1>7 DEF Apart, Owes, Referred
  <1>9. /\ h.label \in Nat /\ cond \in g.label .. h.label - 1
        /\ body \in g.label .. h.label - 1 /\ end \in g.label .. h.label - 1
        /\ \A l \in g.label .. h.label - 1 : l \notin Defined(g.lines)
        /\ cond # body /\ cond # end
    BY <1>1, <1>2 DEF Bounded
  <1>10. Swap(g, task, h, new)
    <2>1. /\ GeneratorOk(h) /\ g.label <= h.label /\ Sequence(new) /\ Laid(h.lines)
          /\ Terminated(h.lines) <=> IF new = <<>> THEN Ends(task) ELSE Opens(new[1])
      BY <1>1, <1>2, <1>3, <1>4 DEF Ready
    <2> HIDE DEF cond, body, end
    <2> QED BY <2>1, <1>1, <1>2, <1>6, <1>8, <1>9 DEF Swap, Plain
  <1> QED BY <1>10 DEF h, new, t1, t2, t3, t4, t5, t6, t7
LEMMA SwapFor ==
    ASSUME NEW g, Ready(g), Bounded(g), NEW task, Neutral(task),
           NEW c, NEW block, NEW env, NEW after, NEW outer
    PROVE  LET cond == g.label
               body == cond + 1
               step == cond + 2
               end == cond + 3
           IN  Swap(g, task, Label(Jump(Take(g, 4), cond), cond),
                    <<ToTest(c, body, end), ToEnter(body, end, step), ToBlock(block),
                      ToLeave, ToScope(env), ToJump(step), ToLabel(step), ToBlock(after),
                      ToJump(cond), ToLabel(end), ToScope(outer)>>)
PROOF
  <1> DEFINE cond == g.label
             body == cond + 1
             step == cond + 2
             end == cond + 3
             h == Label(Jump(Take(g, 4), cond), cond)
             t1 == ToTest(c, body, end)
             t2 == ToEnter(body, end, step)
             t3 == ToBlock(block)
             t4 == ToLeave
             t5 == ToScope(env)
             t6 == ToJump(step)
             t7 == ToLabel(step)
             t8 == ToBlock(after)
             t9 == ToJump(cond)
             t10 == ToLabel(end)
             t11 == ToScope(outer)
             new == <<t1, t2, t3, t4, t5, t6, t7, t8, t9, t10, t11>>
  <1>1. /\ Ready(h) /\ h.label = g.label + 4 /\ h.loops = g.loops
        /\ Defined(h.lines) = Defined(g.lines) \cup {cond}
        /\ Targeted(h.lines) = Targeted(g.lines) \cup {cond}
    BY OpenLoop
  <1>2. /\ g.label \in Nat /\ Plain(task) /\ Plain(t3) /\ Plain(t4) /\ Plain(t5)
        /\ Plain(t8) /\ Plain(t11)
    BY TasksNeutral, TaskPlain DEF Ready, GeneratorOk
  <1>3. /\ ~Opens(t1) /\ Ends(t1) /\ Owed(t1) = {} /\ Refs(t1) = {body, end}
        /\ Opens(t2) /\ ~Ends(t2) /\ Owed(t2) = {body} /\ Refs(t2) = {end, step}
        /\ ~Opens(t6) /\ Ends(t6) /\ Owed(t6) = {} /\ Refs(t6) = {step}
        /\ Opens(t7) /\ ~Ends(t7) /\ Owed(t7) = {step} /\ Refs(t7) = {}
        /\ ~Opens(t9) /\ Ends(t9) /\ Owed(t9) = {} /\ Refs(t9) = {cond}
        /\ Opens(t10) /\ ~Ends(t10) /\ Owed(t10) = {end} /\ Refs(t10) = {}
    BY TaskTest, TaskEnter, TaskJump, TaskLabel
  <1> HIDE DEF t1, t2, t3, t4, t5, t6, t7, t8, t9, t10, t11, h
  <1>4. /\ Sequence(new) /\ Len(new) = 11 /\ new # <<>>
        /\ new[1] = t1 /\ new[2] = t2 /\ new[3] = t3 /\ new[4] = t4
        /\ new[5] = t5 /\ new[6] = t6 /\ new[7] = t7 /\ new[8] = t8
        /\ new[9] = t9 /\ new[10] = t10 /\ new[11] = t11
    <2>1. new \in Seq({t1, t2, t3, t4, t5, t6, t7, t8, t9, t10, t11})
      OBVIOUS
    <2> QED BY <2>1 DEF Sequence
  <1> HIDE DEF new
  <1>5. \A i \in 1 .. 11 : \/ i = 1 \/ i = 2 \/ i = 3 \/ i = 4 \/ i = 5 \/ i = 6 \/ i = 7
                           \/ i = 8 \/ i = 9 \/ i = 10 \/ i = 11
    OBVIOUS
  <1>6. \A i \in 1 .. Len(new) :
            Ends(new[i]) <=> IF i < Len(new) THEN Opens(new[i + 1]) ELSE Ends(task)
    BY <1>2, <1>3, <1>4, <1>5 DEF Plain
  <1>7. \A i \in 1 .. Len(new) : \A l :
            /\ l \in Owed(new[i]) <=> \/ i = 2 /\ l = body
                                      \/ i = 7 /\ l = step
                                      \/ i = 10 /\ l = end
            /\ l \in Refs(new[i]) => l \in {cond, body, step, end}
    <2> HIDE DEF cond, body, step, end
    <2> SUFFICES ASSUME NEW i \in 1 .. 11, NEW l
                 PROVE  /\ l \in Owed(new[i]) <=> \/ i = 2 /\ l = body
                                                  \/ i = 7 /\ l = step
                                                  \/ i = 10 /\ l = end
                        /\ l \in Refs(new[i]) => l \in {cond, body, step, end}
      BY <1>4
    <2>1. CASE i \in {1, 6, 9}
      <3>1. new[i] \in {t1, t6, t9}
        BY <2>1, <1>4
      <3> QED BY <2>1, <3>1, <1>3
    <2>2. CASE i \in {3, 4, 5, 8, 11}
      <3>1. new[i] \in {t3, t4, t5, t8, t11}
        BY <2>2, <1>4
      <3> QED BY <2>2, <3>1, <1>2 DEF Plain
    <2>3. CASE i = 2
      BY <2>3, <1>3, <1>4
    <2>4. CASE i = 7
      BY <2>4, <1>3, <1>4
    <2>5. CASE i = 10
      BY <2>5, <1>3, <1>4
    <2> QED BY <1>5, <2>1, <2>2, <2>3, <2>4, <2>5
  <1>8. /\ Apart(new) /\ Owes(new) = {body, step, end}
        /\ Referred(new) \subseteq {cond, body, step, end}
    <2>1. body # step /\ body # end /\ step # end
      BY <1>2
    <2> HIDE DEF cond, body, step, end
    <2>2. Apart(new)
      BY <2>1, <1>7 DEF Apart
    <2>3. \A l : l \in Owes(new) <=> l \in {body, step, end}
      <3>1. 2 \in 1 .. Len(new) /\ 7 \in 1 .. Len(new) /\ 10 \in 1 .. Len(new)
        BY <1>4
      <3>2. ASSUME NEW l \in Owes(new) PROVE l \in {body, step, end}
        <4>1. PICK i \in 1 .. Len(new) : l \in Owed(new[i])
          BY OwesIn
        <4> QED BY <4>1, <1>7
      <3>3. body \in Owed(new[2]) /\ step \in Owed(new[7]) /\ end \in Owed(new[10])
        BY <3>1, <1>7
      <3>4. body \in Owes(new) /\ step \in Owes(new) /\ end \in Owes(new)
        BY <3>1, <3>3, OwesIn
      <3> QED BY <3>2, <3>4
    <2>4. \A l : l \in Referred(new) => l \in {cond, body, step, end}
      BY <1>4, <1>7, ReferredIn
    <2> QED BY <2>2, <2>3, <2>4
  <1>9. /\ h.label \in Nat /\ cond \in g.label .. h.label - 1
        /\ body \in g.label .. h.label - 1 /\ end \in g.label .. h.label - 1
        /\ step \in g.label .. h.label - 1
        /\ \A l \in g.label .. h.label - 1 : l \notin Defined(g.lines)
        /\ cond # body /\ cond # end /\ cond # step
    BY <1>1, <1>2 DEF Bounded
  <1>10. Swap(g, task, h, new)
    <2>1. /\ GeneratorOk(h) /\ g.label <= h.label /\ Sequence(new) /\ Laid(h.lines)
          /\ Terminated(h.lines) <=> IF new = <<>> THEN Ends(task) ELSE Opens(new[1])
      BY <1>1, <1>2, <1>3, <1>4 DEF Ready
    <2> HIDE DEF cond, body, step, end
    <2> QED BY <2>1, <1>1, <1>2, <1>6, <1>8, <1>9 DEF Swap, Plain
  <1> QED BY <1>10 DEF h, new, t1, t2, t3, t4, t5, t6, t7, t8, t9, t10, t11

(* && and ||: h ends the block of the left side.                           *)
LEMMA SwapFork ==
    ASSUME NEW g, Ready(g), Bounded(g), NEW task, Neutral(task), NEW e, NEW slot,
           NEW h, GeneratorOk(h), Laid(h.lines), Terminated(h.lines),
           h.label = g.label + 2, h.loops = g.loops,
           Defined(h.lines) = Defined(g.lines),
           Targeted(h.lines) = Targeted(g.lines) \cup {g.label, g.label + 1}
    PROVE  Swap(g, task, h,
                <<ToLabel(g.label), ToEval(e), ToStore(slot, "bool"),
                  ToJump(g.label + 1), ToLabel(g.label + 1), ToLoad(slot, "bool")>>)
PROOF
  <1> DEFINE rhs == g.label
             end == g.label + 1
             t1 == ToLabel(rhs)
             t2 == ToEval(e)
             t3 == ToStore(slot, "bool")
             t4 == ToJump(end)
             t5 == ToLabel(end)
             t6 == ToLoad(slot, "bool")
             new == <<t1, t2, t3, t4, t5, t6>>
  <1>2. g.label \in Nat /\ Plain(task) /\ Plain(t2) /\ Plain(t3) /\ Plain(t6)
    BY TasksNeutral, TaskPlain DEF Ready, GeneratorOk
  <1>3. /\ Opens(t1) /\ ~Ends(t1) /\ Owed(t1) = {rhs} /\ Refs(t1) = {}
        /\ ~Opens(t4) /\ Ends(t4) /\ Owed(t4) = {} /\ Refs(t4) = {end}
        /\ Opens(t5) /\ ~Ends(t5) /\ Owed(t5) = {end} /\ Refs(t5) = {}
    BY TaskJump, TaskLabel
  <1> HIDE DEF t1, t2, t3, t4, t5, t6
  <1>4. /\ Sequence(new) /\ Len(new) = 6 /\ new # <<>>
        /\ new[1] = t1 /\ new[2] = t2 /\ new[3] = t3 /\ new[4] = t4
        /\ new[5] = t5 /\ new[6] = t6
    <2>1. new \in Seq({t1, t2, t3, t4, t5, t6})
      OBVIOUS
    <2> QED BY <2>1 DEF Sequence
  <1> HIDE DEF new
  <1>5. \A i \in 1 .. 6 : i = 1 \/ i = 2 \/ i = 3 \/ i = 4 \/ i = 5 \/ i = 6
    OBVIOUS
  <1>6. \A i \in 1 .. Len(new) :
            Ends(new[i]) <=> IF i < Len(new) THEN Opens(new[i + 1]) ELSE Ends(task)
    BY <1>2, <1>3, <1>4, <1>5 DEF Plain
  <1>7. \A i \in 1 .. Len(new) : \A l :
            /\ l \in Owed(new[i]) <=> (i = 1 /\ l = rhs) \/ (i = 5 /\ l = end)
            /\ l \in Refs(new[i]) => l = end
    BY <1>2, <1>3, <1>4, <1>5 DEF Plain
  <1>8. Apart(new) /\ Owes(new) = {rhs, end} /\ Referred(new) \subseteq {end}
    BY <1>2, <1>4, <1>7 DEF Apart, Owes, Referred
  <1>9. /\ rhs \in g.label .. h.label - 1 /\ end \in g.label .. h.label - 1
        /\ \A l \in g.label .. h.label - 1 : l \notin Defined(g.lines)
    BY <1>2 DEF Bounded
  <1>10. Swap(g, task, h, new)
    <2>1. /\ GeneratorOk(h) /\ g.label <= h.label /\ Sequence(new) /\ Laid(h.lines)
          /\ Terminated(h.lines) <=> IF new = <<>> THEN Ends(task) ELSE Opens(new[1])
      BY <1>2, <1>3, <1>4
    <2>2. Targeted(h.lines) = Targeted(g.lines) \cup {rhs, end}
      OBVIOUS
    <2> HIDE DEF rhs, end
    <2> QED BY <2>1, <2>2, <1>2, <1>6, <1>8, <1>9 DEF Swap, Plain
  <1> QED BY <1>10 DEF new, t1, t2, t3, t4, t5, t6

LEMMA SwapIf ==
    ASSUME NEW g, Ready(g), Bounded(g), NEW task, Neutral(task), NEW arms
    PROVE  Swap(g, task, Take(g, 1),
                <<ToArms(arms, g.label), ToJump(g.label), ToLabel(g.label)>>)
PROOF
  <1> DEFINE end == g.label
             h == Take(g, 1)
             t1 == ToArms(arms, end)
             t2 == ToJump(end)
             t3 == ToLabel(end)
             new == <<t1, t2, t3>>
  <1>1. Ready(h) /\ h.lines = g.lines /\ h.label = g.label + 1 /\ h.loops = g.loops
    BY TakeFields DEF Ready
  <1>2. g.label \in Nat /\ Plain(task)
    BY TaskPlain DEF Ready, GeneratorOk
  <1>3. /\ ~Opens(t1) /\ ~Ends(t1) /\ Owed(t1) = {} /\ Refs(t1) = {end}
        /\ ~Opens(t2) /\ Ends(t2) /\ Owed(t2) = {} /\ Refs(t2) = {end}
        /\ Opens(t3) /\ ~Ends(t3) /\ Owed(t3) = {end} /\ Refs(t3) = {}
    BY TaskArms, TaskJump, TaskLabel
  <1> HIDE DEF t1, t2, t3, h
  <1>4. /\ Sequence(new) /\ Len(new) = 3 /\ new # <<>>
        /\ new[1] = t1 /\ new[2] = t2 /\ new[3] = t3
    <2>1. new \in Seq({t1, t2, t3})
      OBVIOUS
    <2> QED BY <2>1 DEF Sequence
  <1> HIDE DEF new
  <1>5. \A i \in 1 .. 3 : i = 1 \/ i = 2 \/ i = 3
    OBVIOUS
  <1>6. \A i \in 1 .. Len(new) :
            Ends(new[i]) <=> IF i < Len(new) THEN Opens(new[i + 1]) ELSE Ends(task)
    BY <1>2, <1>3, <1>4, <1>5 DEF Plain
  <1>7. \A i \in 1 .. Len(new) : \A l : /\ l \in Owed(new[i]) <=> i = 3 /\ l = end
                                        /\ l \in Refs(new[i]) => l = end
    BY <1>2, <1>3, <1>4, <1>5 DEF Plain
  <1>8. Apart(new) /\ Owes(new) = {end} /\ Referred(new) \subseteq {end}
    BY <1>2, <1>4, <1>7 DEF Apart, Owes, Referred
  <1>9. /\ end \in g.label .. h.label - 1
        /\ \A l \in g.label .. h.label - 1 : l \notin Defined(g.lines)
    BY <1>1, <1>2 DEF Bounded
  <1>10. Swap(g, task, h, new)
    <2>1. /\ GeneratorOk(h) /\ g.label <= h.label /\ Sequence(new) /\ Laid(h.lines)
          /\ Terminated(h.lines) <=> IF new = <<>> THEN Ends(task) ELSE Opens(new[1])
      BY <1>1, <1>2, <1>3, <1>4 DEF Ready
    <2> HIDE DEF end
    <2> QED BY <2>1, <1>1, <1>2, <1>6, <1>8, <1>9 DEF Swap, Plain
  <1> QED BY <1>10 DEF h, new, t1, t2, t3

(* An arm of an if, but for the else.                                      *)
LEMMA SwapArm ==
    ASSUME NEW g, Ready(g), Bounded(g), NEW c, NEW block, NEW env, NEW arms, NEW rest,
           NEW end
    PROVE  Swap(g, ToArms(arms, end), Take(g, 2),
                <<ToEval(c), ToBranch(g.label, g.label + 1), ToLabel(g.label),
                  ToBlock(block), ToScope(env), ToJump(end), ToLabel(g.label + 1),
                  ToArms(rest, end)>>)
PROOF
  <1> DEFINE then == g.label
             next == g.label + 1
             h == Take(g, 2)
             task == ToArms(arms, end)
             t1 == ToEval(c)
             t2 == ToBranch(then, next)
             t3 == ToLabel(then)
             t4 == ToBlock(block)
             t5 == ToScope(env)
             t6 == ToJump(end)
             t7 == ToLabel(next)
             t8 == ToArms(rest, end)
             new == <<t1, t2, t3, t4, t5, t6, t7, t8>>
  <1>1. Ready(h) /\ h.lines = g.lines /\ h.label = g.label + 2 /\ h.loops = g.loops
    BY TakeFields DEF Ready
  <1>2. g.label \in Nat /\ Plain(t1) /\ Plain(t4) /\ Plain(t5)
    BY TasksNeutral, TaskPlain DEF Ready, GeneratorOk
  <1>3. /\ ~Opens(t2) /\ Ends(t2) /\ Owed(t2) = {} /\ Refs(t2) = {then, next}
        /\ Opens(t3) /\ ~Ends(t3) /\ Owed(t3) = {then} /\ Refs(t3) = {}
        /\ ~Opens(t6) /\ Ends(t6) /\ Owed(t6) = {} /\ Refs(t6) = {end}
        /\ Opens(t7) /\ ~Ends(t7) /\ Owed(t7) = {next} /\ Refs(t7) = {}
        /\ ~Opens(t8) /\ ~Ends(t8) /\ Owed(t8) = {} /\ Refs(t8) = {end}
        /\ ~Ends(task) /\ Owed(task) = {} /\ Refs(task) = {end}
    BY TaskArms, TaskBranch, TaskJump, TaskLabel
  <1> HIDE DEF t1, t2, t3, t4, t5, t6, t7, t8, h, task
  <1>4. /\ Sequence(new) /\ Len(new) = 8 /\ new # <<>>
        /\ new[1] = t1 /\ new[2] = t2 /\ new[3] = t3 /\ new[4] = t4
        /\ new[5] = t5 /\ new[6] = t6 /\ new[7] = t7 /\ new[8] = t8
    <2>1. new \in Seq({t1, t2, t3, t4, t5, t6, t7, t8})
      OBVIOUS
    <2> QED BY <2>1 DEF Sequence
  <1> HIDE DEF new
  <1>5. \A i \in 1 .. 8 : i = 1 \/ i = 2 \/ i = 3 \/ i = 4 \/ i = 5 \/ i = 6 \/ i = 7 \/ i = 8
    OBVIOUS
  <1>6. \A i \in 1 .. Len(new) :
            Ends(new[i]) <=> IF i < Len(new) THEN Opens(new[i + 1]) ELSE Ends(task)
    BY <1>2, <1>3, <1>4, <1>5 DEF Plain
  <1>7. \A i \in 1 .. Len(new) : \A l :
            /\ l \in Owed(new[i]) <=> (i = 3 /\ l = then) \/ (i = 7 /\ l = next)
            /\ l \in Refs(new[i]) => l \in {then, next, end}
    BY <1>2, <1>3, <1>4, <1>5 DEF Plain
  <1>8. /\ Apart(new) /\ Owes(new) = {then, next}
        /\ Referred(new) \subseteq {then, next, end}
    BY <1>2, <1>4, <1>7 DEF Apart, Owes, Referred
  <1>9. /\ then \in g.label .. h.label - 1 /\ next \in g.label .. h.label - 1
        /\ \A l \in g.label .. h.label - 1 : l \notin Defined(g.lines)
    BY <1>1, <1>2 DEF Bounded
  <1>10. Swap(g, task, h, new)
    <2>1. /\ GeneratorOk(h) /\ g.label <= h.label /\ Sequence(new) /\ Laid(h.lines)
          /\ Terminated(h.lines) <=> IF new = <<>> THEN Ends(task) ELSE Opens(new[1])
      BY <1>1, <1>2, <1>3, <1>4 DEF Ready, Plain
    <2> HIDE DEF then, next
    <2> QED BY <2>1, <1>1, <1>3, <1>6, <1>8, <1>9 DEF Swap
  <1> QED BY <1>10 DEF h, new, task, t1, t2, t3, t4, t5, t6, t7, t8

(* No arm, or the else: nothing is referred to any more.                   *)
LEMMA SwapElse ==
    ASSUME NEW g, Ready(g), NEW arms, NEW end, NEW new, NeutralTasks(new)
    PROVE  Swap(g, ToArms(arms, end), g, new)
PROOF
  <1> DEFINE task == ToArms(arms, end)
  <1>1. /\ Sequence(new) /\ Len(new) \in Nat /\ (new = <<>> <=> Len(new) = 0)
        /\ ~Ends(task) /\ Owed(task) = {}
    BY TaskArms, SequenceFacts DEF NeutralTasks
  <1> HIDE DEF task
  <1>2. \A i \in 1 .. Len(new) : /\ ~Opens(new[i]) /\ ~Ends(new[i])
                                 /\ Owed(new[i]) = {} /\ Refs(new[i]) = {}
    BY NeutralTask DEF NeutralTasks
  <1>3. Owes(new) = {} /\ Referred(new) = {} /\ Apart(new)
    BY <1>2 DEF Owes, Referred, Apart
  <1>4. \A i \in 1 .. Len(new) :
            Ends(new[i]) <=> IF i < Len(new) THEN Opens(new[i + 1]) ELSE Ends(task)
    BY <1>1, <1>2
  <1>5. ~Terminated(g.lines) /\ (new # <<>> => ~Opens(new[1]))
    BY <1>1, <1>2 DEF Ready
  <1>6. GeneratorOk(g) /\ Laid(g.lines) /\ g.label \in Nat
    BY DEF Ready, GeneratorOk
  <1>7. Swap(g, task, g, new)
    BY <1>1, <1>3, <1>4, <1>5, <1>6 DEF Swap
  <1> QED BY <1>7 DEF task
LEMMA SwapCases ==
    ASSUME NEW g, Ready(g), Bounded(g), NEW task, Neutral(task), NEW subject,
           NEW arms, Len(arms) \in Nat,
           NEW other \in g.label .. g.label + Len(arms)
    PROVE  LET end == g.label
           IN  Swap(g, task, Take(g, Len(arms) + 1),
                    <<ToTests(subject, arms, end + 1, other), ToBodies(arms, end + 1, end)>>)
PROOF
  <1> DEFINE end == g.label
             n == Len(arms)
             h == Take(g, n + 1)
             t1 == ToTests(subject, arms, end + 1, other)
             t2 == ToBodies(arms, end + 1, end)
             new == <<t1, t2>>
             all == g.label .. g.label + n
  <1>1. Ready(h) /\ h.lines = g.lines /\ h.label = g.label + (n + 1) /\ h.loops = g.loops
    <2>1. n + 1 \in Nat
      OBVIOUS
    <2> HIDE DEF n
    <2> QED BY <2>1, TakeFields DEF Ready
  <1>2. g.label \in Nat /\ Plain(task)
    BY TaskPlain DEF Ready, GeneratorOk
  <1>3. /\ ~Opens(t1) /\ Ends(t1) /\ Owed(t1) = {}
        /\ Refs(t1) = {other} \cup (end + 1) .. (end + 1) + n - 1
        /\ Opens(t2) /\ ~Ends(t2) /\ Refs(t2) = {end}
        /\ Owed(t2) = {end} \cup (end + 1) .. (end + 1) + n - 1
    BY TaskTests, TaskBodies
  <1> HIDE DEF t1, t2, h
  <1>4. Refs(t1) \subseteq all /\ Refs(t2) \subseteq all /\ Owed(t2) = all
    <2>1. end \in Nat /\ n \in Nat /\ other \in end .. end + n /\ all = end .. end + n
      BY <1>2
    <2> HIDE DEF end, n, all
    <2>2. end .. end + n = {end} \cup (end + 1) .. (end + 1) + n - 1
      BY <2>1
    <2> QED BY <2>1, <2>2, <1>3
  <1>5. /\ Sequence(new) /\ Len(new) = 2 /\ new # <<>> /\ new[1] = t1 /\ new[2] = t2
    <2>1. new \in Seq({t1, t2})
      OBVIOUS
    <2> QED BY <2>1 DEF Sequence
  <1> HIDE DEF new
  <1>6. \A i \in 1 .. 2 : i = 1 \/ i = 2
    OBVIOUS
  <1>7. \A i \in 1 .. Len(new) :
            Ends(new[i]) <=> IF i < Len(new) THEN Opens(new[i + 1]) ELSE Ends(task)
    BY <1>2, <1>3, <1>5, <1>6 DEF Plain
  <1>8. /\ h.label - 1 = g.label + n /\ g.label <= h.label
        /\ \A l \in all : l \notin Defined(g.lines)
    BY <1>1, <1>2 DEF Bounded
  <1> HIDE DEF all
  <1>9. Apart(new) /\ Owes(new) = all /\ Referred(new) \subseteq all
    <2>1. \A i \in 1 .. Len(new) : /\ Owed(new[i]) # {} => i = 2
                                   /\ Refs(new[i]) \subseteq all
      BY <1>3, <1>4, <1>5, <1>6
    <2>2. Apart(new)
      BY <2>1 DEF Apart
    <2>3. \A l : l \in Owes(new) <=> l \in all
      BY <1>3, <1>4, <1>5, <1>6, OwesIn
    <2>4. \A l : l \in Referred(new) => l \in all
      BY <2>1, ReferredIn
    <2> QED BY <2>2, <2>3, <2>4
  <1>10. Swap(g, task, h, new)
    <2>1. /\ GeneratorOk(h) /\ Sequence(new) /\ Laid(h.lines)
          /\ Terminated(h.lines) <=> IF new = <<>> THEN Ends(task) ELSE Opens(new[1])
      BY <1>1, <1>3, <1>5 DEF Ready
    <2>2. g.label .. h.label - 1 = all
      BY <1>8 DEF all
    <2> QED BY <2>1, <2>2, <1>1, <1>2, <1>7, <1>8, <1>9 DEF Swap, Plain
  <1> QED BY <1>10 DEF h, new, t1, t2

-----------------------------------------------------------------------------
(* The tests of a switch.                                                  *)
TestsLeft(task) ==
    /\ task.do = "tests" /\ Len(task.arms) \in Nat /\ task.at \in Nat

LEMMA SwapTestsDone ==
    ASSUME NEW g, Ready(g), NEW task, TestsLeft(task)
    PROVE  Swap(g, task, Jump(g, task.other), <<>>)
PROOF
  <1> DEFINE h == Jump(g, task.other)
  <1>1. /\ GeneratorOk(h) /\ Laid(h.lines) /\ Terminated(h.lines)
        /\ h.label = g.label /\ h.loops = g.loops
        /\ Defined(h.lines) = Defined(g.lines)
        /\ Targeted(h.lines) = Targeted(g.lines) \cup {task.other}
    BY EmitJump
  <1>2. Ends(task) /\ Owed(task) = {} /\ task.other \in Refs(task)
    BY DEF TestsLeft, Ends, Owed, Refs
  <1>3. /\ Owes(<<>>) = {} /\ Referred(<<>>) = {} /\ Apart(<<>>) /\ Sequence(<<>>)
        /\ Len(<<>>) = 0 /\ g.label \in Nat
    BY DEF Owes, Referred, Apart, Sequence, Ready, GeneratorOk
  <1> HIDE DEF h
  <1>4. Swap(g, task, h, <<>>)
    BY <1>1, <1>2, <1>3 DEF Swap
  <1> QED BY <1>4 DEF h

LEMMA SwapTestsRest ==
    ASSUME NEW g, Ready(g), NEW task, TestsLeft(task),
           NEW arms, Len(arms) \in Nat, Len(task.arms) = Len(arms) + 1
    PROVE  Swap(g, task, g, <<ToTests(task.subject, arms, task.at + 1, task.other)>>)
PROOF
  <1> DEFINE t == ToTests(task.subject, arms, task.at + 1, task.other)
             new == <<t>>
  <1>1. /\ Ends(task) /\ ~Opens(task) /\ Owed(task) = {}
        /\ Refs(task) = {task.other} \cup task.at .. task.at + Len(task.arms) - 1
    BY DEF TestsLeft, Ends, Opens, Owed, Refs
  <1>2. /\ ~Opens(t) /\ Ends(t) /\ Owed(t) = {}
        /\ Refs(t) = {task.other} \cup (task.at + 1) .. (task.at + 1) + Len(arms) - 1
    BY TaskTests
  <1>3. Refs(t) \subseteq Refs(task)
    BY <1>1, <1>2 DEF TestsLeft
  <1> HIDE DEF t
  <1>4. Sequence(new) /\ Len(new) = 1 /\ new # <<>> /\ new[1] = t
    <2>1. new \in Seq({t})
      OBVIOUS
    <2> QED BY <2>1 DEF Sequence
  <1> HIDE DEF new
  <1>5. Apart(new) /\ Owes(new) = {} /\ Referred(new) \subseteq Refs(task)
    BY <1>2, <1>3, <1>4 DEF Apart, Owes, Referred
  <1>6. \A i \in 1 .. Len(new) :
            Ends(new[i]) <=> IF i < Len(new) THEN Opens(new[i + 1]) ELSE Ends(task)
    BY <1>1, <1>2, <1>4
  <1>7. GeneratorOk(g) /\ Laid(g.lines) /\ ~Terminated(g.lines) /\ g.label \in Nat
    BY DEF Ready, GeneratorOk
  <1>8. Swap(g, task, g, new)
    BY <1>1, <1>2, <1>4, <1>5, <1>6, <1>7 DEF Swap
  <1> QED BY <1>8 DEF new, t

LEMMA SwapTestsLast ==
    ASSUME NEW g, Ready(g), NEW task, TestsLeft(task), NEW c, Len(task.arms) > 0
    PROVE  Swap(g, task, g,
                <<ToEval(c), ToCompare(task.subject), ToBranch(task.at, task.other)>>)
PROOF
  <1> DEFINE t1 == ToEval(c)
             t2 == ToCompare(task.subject)
             t3 == ToBranch(task.at, task.other)
             new == <<t1, t2, t3>>
  <1>1. /\ Ends(task) /\ ~Opens(task) /\ Owed(task) = {}
        /\ Refs(task) = {task.other} \cup task.at .. task.at + Len(task.arms) - 1
    BY DEF TestsLeft, Ends, Opens, Owed, Refs
  <1>2. Plain(t1) /\ Plain(t2)
    BY TasksNeutral, TaskPlain
  <1>3. ~Opens(t3) /\ Ends(t3) /\ Owed(t3) = {} /\ Refs(t3) \subseteq Refs(task)
    BY <1>1, TaskBranch DEF TestsLeft
  <1> HIDE DEF t1, t2, t3
  <1>4. /\ Sequence(new) /\ Len(new) = 3 /\ new # <<>>
        /\ new[1] = t1 /\ new[2] = t2 /\ new[3] = t3
    <2>1. new \in Seq({t1, t2, t3})
      OBVIOUS
    <2> QED BY <2>1 DEF Sequence
  <1> HIDE DEF new
  <1>5. \A i \in 1 .. 3 : i = 1 \/ i = 2 \/ i = 3
    OBVIOUS
  <1>6. \A i \in 1 .. Len(new) :
            Ends(new[i]) <=> IF i < Len(new) THEN Opens(new[i + 1]) ELSE Ends(task)
    BY <1>1, <1>2, <1>3, <1>4, <1>5 DEF Plain
  <1>7. \A i \in 1 .. Len(new) : Owed(new[i]) = {} /\ Refs(new[i]) \subseteq Refs(task)
    BY <1>2, <1>3, <1>4, <1>5 DEF Plain
  <1>8. Apart(new) /\ Owes(new) = {} /\ Referred(new) \subseteq Refs(task)
    BY <1>7 DEF Apart, Owes, Referred
  <1>9. GeneratorOk(g) /\ Laid(g.lines) /\ ~Terminated(g.lines) /\ g.label \in Nat
    BY DEF Ready, GeneratorOk
  <1>10. Swap(g, task, g, new)
    BY <1>1, <1>2, <1>4, <1>6, <1>8, <1>9 DEF Swap, Plain
  <1> QED BY <1>10 DEF new, t1, t2, t3

LEMMA ThreeAndTwo ==
    ASSUME NEW a, NEW b, NEW c, NEW d, NEW e
    PROVE  <<a, b, c>> \o <<d, e>> = <<a, b, c, d, e>>
PROOF
  <1> DEFINE S == {a, b, c, d, e}
             s == <<a, b, c>>
             t == <<d, e>>
             u == <<a, b, c, d, e>>
  <1>1. /\ s \in Seq(S) /\ Len(s) = 3 /\ s[1] = a /\ s[2] = b /\ s[3] = c
        /\ t \in Seq(S) /\ Len(t) = 2 /\ t[1] = d /\ t[2] = e
        /\ u \in Seq(S) /\ Len(u) = 5 /\ u[1] = a /\ u[2] = b /\ u[3] = c
        /\ u[4] = d /\ u[5] = e
    OBVIOUS
  <1> HIDE DEF S, s, t, u
  <1>2. /\ s \o t \in Seq(S) /\ Len(s \o t) = 5
        /\ \A i \in 1 .. 5 : (s \o t)[i] = IF i <= 3 THEN s[i] ELSE t[i - 3]
    <2>1. /\ s \o t \in Seq(S) /\ Len(s \o t) = Len(s) + Len(t)
          /\ \A i \in 1 .. Len(s) + Len(t) :
                 (s \o t)[i] = IF i <= Len(s) THEN s[i] ELSE t[i - Len(s)]
      BY <1>1, ConcatProperties, Zenon
    <2> QED BY <2>1, <1>1
  <1>3. \A i \in 1 .. 5 : (s \o t)[i] = u[i]
    <2>1. \A i \in 1 .. 5 : i = 1 \/ i = 2 \/ i = 3 \/ i = 4 \/ i = 5
      OBVIOUS
    <2> QED BY <1>1, <1>2, <2>1
  <1>4. s \o t = u
    BY <1>1, <1>2, <1>3, SeqEqual
  <1> QED BY <1>4 DEF s, t, u

LEMMA SwapTestsNext ==
    ASSUME NEW g, Ready(g), Bounded(g), NEW task, TestsLeft(task), NEW c,
           NEW arms, Len(arms) \in Nat, Len(task.arms) = Len(arms) + 1
    PROVE  Swap(g, task, Take(g, 1),
                <<ToEval(c), ToCompare(task.subject), ToBranch(task.at, g.label)>>
                \o <<ToLabel(g.label),
                     ToTests(task.subject, arms, task.at + 1, task.other)>>)
PROOF
  <1> DEFINE next == g.label
             h == Take(g, 1)
             t1 == ToEval(c)
             t2 == ToCompare(task.subject)
             t3 == ToBranch(task.at, next)
             t4 == ToLabel(next)
             t5 == ToTests(task.subject, arms, task.at + 1, task.other)
             new == <<t1, t2, t3, t4, t5>>
  <1>1. Ready(h) /\ h.lines = g.lines /\ h.label = g.label + 1 /\ h.loops = g.loops
    BY TakeFields DEF Ready
  <1>2. g.label \in Nat /\ Plain(t1) /\ Plain(t2)
    BY TasksNeutral, TaskPlain DEF Ready, GeneratorOk
  <1>3. /\ Ends(task) /\ ~Opens(task) /\ Owed(task) = {}
        /\ Refs(task) = {task.other} \cup task.at .. task.at + Len(task.arms) - 1
    BY DEF TestsLeft, Ends, Opens, Owed, Refs
  <1>4. /\ ~Opens(t3) /\ Ends(t3) /\ Owed(t3) = {} /\ Refs(t3) = {task.at, next}
        /\ Opens(t4) /\ ~Ends(t4) /\ Owed(t4) = {next} /\ Refs(t4) = {}
        /\ ~Opens(t5) /\ Ends(t5) /\ Owed(t5) = {}
        /\ Refs(t5) = {task.other} \cup (task.at + 1) .. (task.at + 1) + Len(arms) - 1
    BY TaskBranch, TaskLabel, TaskTests
  <1>5. Refs(t5) \subseteq Refs(task) /\ task.at \in Refs(task)
    BY <1>3, <1>4 DEF TestsLeft
  <1> HIDE DEF t1, t2, t3, t4, t5, h
  <1>6. /\ Sequence(new) /\ Len(new) = 5 /\ new # <<>>
        /\ new[1] = t1 /\ new[2] = t2 /\ new[3] = t3 /\ new[4] = t4 /\ new[5] = t5
    <2>1. new \in Seq({t1, t2, t3, t4, t5})
      OBVIOUS
    <2> QED BY <2>1 DEF Sequence
  <1>7. <<t1, t2, t3>> \o <<t4, t5>> = new
    BY ThreeAndTwo
  <1> HIDE DEF new
  <1>8. \A i \in 1 .. 5 : i = 1 \/ i = 2 \/ i = 3 \/ i = 4 \/ i = 5
    OBVIOUS
  <1>9. \A i \in 1 .. Len(new) :
            Ends(new[i]) <=> IF i < Len(new) THEN Opens(new[i + 1]) ELSE Ends(task)
    BY <1>2, <1>3, <1>4, <1>6, <1>8 DEF Plain
  <1>10. \A i \in 1 .. Len(new) : \A l :
             /\ l \in Owed(new[i]) <=> i = 4 /\ l = next
             /\ l \in Refs(new[i]) => l \in {next} \cup Refs(task)
    BY <1>2, <1>4, <1>5, <1>6, <1>8 DEF Plain
  <1>11. Apart(new) /\ Owes(new) = {next} /\ Referred(new) \subseteq {next} \cup Refs(task)
    <2>1. Apart(new)
      BY <1>10 DEF Apart
    <2>2. \A l : l \in Owes(new) <=> l = next
      BY <1>6, <1>10, OwesIn
    <2>3. \A l : l \in Referred(new) => l \in {next} \cup Refs(task)
      BY <1>10, ReferredIn
    <2> QED BY <2>1, <2>2, <2>3
  <1>12. /\ next \in g.label .. h.label - 1
         /\ \A l \in g.label .. h.label - 1 : l \notin Defined(g.lines)
    BY <1>1, <1>2 DEF Bounded
  <1>13. Swap(g, task, h, new)
    <2>1. /\ GeneratorOk(h) /\ g.label <= h.label /\ Sequence(new) /\ Laid(h.lines)
          /\ Terminated(h.lines) <=> IF new = <<>> THEN Ends(task) ELSE Opens(new[1])
      BY <1>1, <1>2, <1>6 DEF Ready, Plain
    <2> HIDE DEF next
    <2> QED BY <2>1, <1>1, <1>3, <1>9, <1>11, <1>12 DEF Swap
  <1> QED BY <1>13, <1>7 DEF h, t1, t2, t3, t4, t5

-----------------------------------------------------------------------------
(* The bodies of a switch.                                                 *)
BodiesLeft(task) ==
    /\ task.do = "bodies" /\ Len(task.arms) \in Nat
    /\ task.at \in Nat /\ task.end \in Nat /\ task.end < task.at

LEMMA SwapBodiesDone ==
    ASSUME NEW g, GeneratorOk(g), Laid(g.lines), Terminated(g.lines),
           NEW task, BodiesLeft(task), Len(task.arms) = 0,
           Owed(task) \cap Defined(g.lines) = {}
    PROVE  Swap(g, task, Label(g, task.end), <<>>)
PROOF
  <1> DEFINE h == Label(g, task.end)
  <1>1. ~Ends(task) /\ Owed(task) = {task.end}
    <2>1. Owed(task) = {task.end} \cup task.at .. task.at + Len(task.arms) - 1
      BY DEF BodiesLeft, Owed
    <2> QED BY <2>1 DEF BodiesLeft, Ends
  <1>2. /\ Ready(h) /\ h.label = g.label /\ h.loops = g.loops
        /\ Defined(h.lines) = Defined(g.lines) \cup {task.end}
        /\ Targeted(h.lines) = Targeted(g.lines)
    BY <1>1, EmitLabel
  <1>3. /\ Owes(<<>>) = {} /\ Referred(<<>>) = {} /\ Apart(<<>>) /\ Sequence(<<>>)
        /\ Len(<<>>) = 0 /\ g.label \in Nat
    BY DEF Owes, Referred, Apart, Sequence, GeneratorOk
  <1> HIDE DEF h
  <1>4. Swap(g, task, h, <<>>)
    BY <1>1, <1>2, <1>3 DEF Swap, Ready
  <1> QED BY <1>4 DEF h

LEMMA SwapBodiesNext ==
    ASSUME NEW g, GeneratorOk(g), Laid(g.lines), Terminated(g.lines),
           NEW task, BodiesLeft(task), Owed(task) \cap Defined(g.lines) = {},
           NEW arms, Len(arms) \in Nat, Len(task.arms) = Len(arms) + 1,
           NEW block, NEW env
    PROVE  Swap(g, task, Label(g, task.at),
                <<ToBlock(block), ToScope(env), ToJump(task.end),
                  ToBodies(arms, task.at + 1, task.end)>>)
PROOF
  <1> DEFINE h == Label(g, task.at)
             t1 == ToBlock(block)
             t2 == ToScope(env)
             t3 == ToJump(task.end)
             t4 == ToBodies(arms, task.at + 1, task.end)
             new == <<t1, t2, t3, t4>>
  <1>1. /\ ~Ends(task) /\ Refs(task) = {task.end}
        /\ Owed(task) = {task.end} \cup task.at .. task.at + Len(task.arms) - 1
    BY DEF BodiesLeft, Ends, Owed, Refs
  <1>2. /\ Opens(t4) /\ ~Ends(t4) /\ Refs(t4) = {task.end}
        /\ Owed(t4) = {task.end} \cup (task.at + 1) .. (task.at + 1) + Len(arms) - 1
        /\ ~Opens(t3) /\ Ends(t3) /\ Owed(t3) = {} /\ Refs(t3) = {task.end}
    BY TaskBodies, TaskJump
  <1>3. Owed(task) = {task.at} \cup Owed(t4) /\ task.at \notin Owed(t4)
    BY <1>1, <1>2 DEF BodiesLeft
  <1>4. /\ Ready(h) /\ h.label = g.label /\ h.loops = g.loops
        /\ Defined(h.lines) = Defined(g.lines) \cup {task.at}
        /\ Targeted(h.lines) = Targeted(g.lines)
    BY <1>3, EmitLabel
  <1>5. Plain(t1) /\ Plain(t2) /\ g.label \in Nat
    BY TasksNeutral, TaskPlain DEF GeneratorOk
  <1> HIDE DEF h, t1, t2, t3, t4
  <1>6. /\ Sequence(new) /\ Len(new) = 4 /\ new # <<>>
        /\ new[1] = t1 /\ new[2] = t2 /\ new[3] = t3 /\ new[4] = t4
    <2>1. new \in Seq({t1, t2, t3, t4})
      OBVIOUS
    <2> QED BY <2>1 DEF Sequence
  <1> HIDE DEF new
  <1>7. \A i \in 1 .. 4 : i = 1 \/ i = 2 \/ i = 3 \/ i = 4
    OBVIOUS
  <1>8. \A i \in 1 .. Len(new) :
            Ends(new[i]) <=> IF i < Len(new) THEN Opens(new[i + 1]) ELSE Ends(task)
    BY <1>1, <1>2, <1>5, <1>6, <1>7 DEF Plain
  <1>9. \A i \in 1 .. Len(new) : \A l :
            /\ l \in Owed(new[i]) <=> i = 4 /\ l \in Owed(t4)
            /\ l \in Refs(new[i]) => l = task.end
    BY <1>2, <1>5, <1>6, <1>7 DEF Plain
  <1>10. Apart(new) /\ Owes(new) = Owed(t4) /\ Referred(new) \subseteq {task.end}
    <2>1. Apart(new)
      BY <1>9 DEF Apart
    <2>2. \A l : l \in Owes(new) <=> l \in Owed(t4)
      BY <1>6, <1>9, OwesIn
    <2>3. \A l : l \in Referred(new) => l = task.end
      BY <1>9, ReferredIn
    <2> QED BY <2>1, <2>2, <2>3
  <1>11. Swap(g, task, h, new)
    <2>1. /\ GeneratorOk(h) /\ g.label <= h.label /\ Sequence(new) /\ Laid(h.lines)
          /\ Terminated(h.lines) <=> IF new = <<>> THEN Ends(task) ELSE Opens(new[1])
      BY <1>4, <1>5, <1>6 DEF Ready, Plain
    <2> QED BY <2>1, <1>1, <1>3, <1>4, <1>8, <1>10 DEF Swap
  <1> QED BY <1>11 DEF h, new, t1, t2, t3, t4
-----------------------------------------------------------------------------
(* A label or a terminator that was owed.                                  *)
LEMMA NoTasks ==
    /\ Owes(<<>>) = {} /\ Referred(<<>>) = {} /\ Apart(<<>>) /\ Sequence(<<>>)
    /\ Len(<<>>) = 0
  BY DEF Owes, Referred, Apart, Sequence

LEMMA SwapLabel ==
    ASSUME NEW g, GeneratorOk(g), Laid(g.lines), Terminated(g.lines),
           NEW task, task.do = "label", Owed(task) \cap Defined(g.lines) = {}
    PROVE  Swap(g, task, Label(g, task.to), <<>>)
PROOF
  <1> DEFINE h == Label(g, task.to)
  <1>1. ~Ends(task) /\ Owed(task) = {task.to}
    BY DEF Ends, Owed
  <1>2. /\ Ready(h) /\ h.label = g.label /\ h.loops = g.loops
        /\ Defined(h.lines) = Defined(g.lines) \cup {task.to}
        /\ Targeted(h.lines) = Targeted(g.lines)
    BY <1>1, EmitLabel
  <1>3. g.label \in Nat
    BY DEF GeneratorOk
  <1> HIDE DEF h
  <1>4. Swap(g, task, h, <<>>)
    BY <1>1, <1>2, <1>3, NoTasks DEF Swap, Ready
  <1> QED BY <1>4 DEF h

LEMMA SwapEnd ==
    ASSUME NEW g, Ready(g), NEW task, Ends(task), Owed(task) = {},
           NEW h, GeneratorOk(h), Laid(h.lines), Terminated(h.lines),
           h.label = g.label, h.loops = g.loops, Defined(h.lines) = Defined(g.lines),
           Targeted(h.lines) \subseteq Targeted(g.lines) \cup Refs(task)
    PROVE  Swap(g, task, h, <<>>)
PROOF
  <1>1. g.label \in Nat
    BY DEF Ready, GeneratorOk
  <1> QED BY <1>1, NoTasks DEF Swap, Ready

LEMMA SwapJump ==
    ASSUME NEW g, Ready(g), NEW task, task.do = "jump"
    PROVE  Swap(g, task, Jump(g, task.to), <<>>)
PROOF
  <1>1. Ends(task) /\ Owed(task) = {} /\ Refs(task) = {task.to}
    BY DEF Ends, Owed, Refs
  <1> QED BY <1>1, EmitJump, SwapEnd

LEMMA SwapBranch ==
    ASSUME NEW g, Ready(g), NEW task, task.do = "branch"
    PROVE  Swap(g, task, Branch(g, task.yes, task.no), <<>>)
PROOF
  <1>1. Ends(task) /\ Owed(task) = {} /\ Refs(task) = {task.yes, task.no}
    BY DEF Ends, Owed, Refs
  <1> QED BY <1>1, EmitBranch, SwapEnd

LEMMA SwapNoTest ==
    ASSUME NEW g, Ready(g), NEW task, task.do = "test"
    PROVE  Swap(g, task, Jump(g, task.yes), <<>>)
PROOF
  <1>1. Ends(task) /\ Owed(task) = {} /\ Refs(task) = {task.yes, task.no}
    BY DEF Ends, Owed, Refs
  <1> QED BY <1>1, EmitJump, SwapEnd

LEMMA SwapTest ==
    ASSUME NEW g, Ready(g), NEW task, task.do = "test"
    PROVE  Swap(g, task, g, <<ToEval(task.c), ToBranch(task.yes, task.no)>>)
PROOF
  <1> DEFINE t1 == ToEval(task.c)
             t2 == ToBranch(task.yes, task.no)
             new == <<t1, t2>>
  <1>1. Ends(task) /\ Owed(task) = {} /\ Refs(task) = {task.yes, task.no}
    BY DEF Ends, Owed, Refs
  <1>2. Plain(t1)
    BY TasksNeutral, TaskPlain
  <1>3. ~Opens(t2) /\ Ends(t2) /\ Owed(t2) = {} /\ Refs(t2) = {task.yes, task.no}
    BY TaskBranch
  <1> HIDE DEF t1, t2
  <1>4. /\ Sequence(new) /\ Len(new) = 2 /\ new # <<>> /\ new[1] = t1 /\ new[2] = t2
    <2>1. new \in Seq({t1, t2})
      OBVIOUS
    <2> QED BY <2>1 DEF Sequence
  <1> HIDE DEF new
  <1>5. \A i \in 1 .. 2 : i = 1 \/ i = 2
    OBVIOUS
  <1>6. \A i \in 1 .. Len(new) :
            Ends(new[i]) <=> IF i < Len(new) THEN Opens(new[i + 1]) ELSE Ends(task)
    BY <1>1, <1>2, <1>3, <1>4, <1>5 DEF Plain
  <1>7. \A i \in 1 .. Len(new) : Owed(new[i]) = {} /\ Refs(new[i]) \subseteq Refs(task)
    BY <1>1, <1>2, <1>3, <1>4, <1>5 DEF Plain
  <1>8. Apart(new) /\ Owes(new) = {} /\ Referred(new) \subseteq Refs(task)
    BY <1>7 DEF Apart, Owes, Referred
  <1>9. GeneratorOk(g) /\ Laid(g.lines) /\ ~Terminated(g.lines) /\ g.label \in Nat
    BY DEF Ready, GeneratorOk
  <1>10. Swap(g, task, g, new)
    BY <1>1, <1>2, <1>4, <1>6, <1>8, <1>9 DEF Swap, Plain
  <1> QED BY <1>10 DEF new, t1, t2

-----------------------------------------------------------------------------
(* The loop stack, at any depth.                                           *)
LEMMA LoopsFields ==
    ASSUME NEW g, Generator(g), NEW loops
    PROVE  LET h == [g EXCEPT !.loops = loops]
           IN  /\ Generator(h) /\ h.lines = g.lines /\ h.temp = g.temp /\ h.label = g.label
               /\ h.value = g.value /\ h.loops = loops
  BY DEF Generator

LEMMA PushFields ==
    ASSUME NEW g, Generator(g), g.loops \in Seq(Frames), NEW out \in Nat, NEW next \in Nat
    PROVE  LET h == LoopPush(g, out, next)
           IN  /\ Generator(h) /\ h.lines = g.lines /\ h.temp = g.temp /\ h.label = g.label
               /\ h.value = g.value
               /\ h.loops \in Seq(Frames)
               /\ LoopRefs(h.loops) \subseteq LoopRefs(g.loops) \cup {out, next}
PROOF
  <1> DEFINE frame == [out |-> out, next |-> next]
             more == Append(g.loops, frame)
             pushed == [g EXCEPT !.loops = more]
             h == LoopPush(g, out, next)
  <1>1. frame \in Frames /\ frame.out = out /\ frame.next = next
    BY DEF Frames
  <1>2. /\ pushed.lines = g.lines /\ pushed.temp = g.temp /\ pushed.label = g.label
        /\ pushed.loops = more /\ Generator(pushed)
        /\ pushed.value = g.value
    BY LoopsFields
  <1>3. h = g \/ h = pushed
    BY DEF LoopPush
  <1> HIDE DEF frame, h, pushed
  <1>4. /\ more \in Seq(Frames) /\ Len(more) = Len(g.loops) + 1
        /\ more[Len(g.loops) + 1] = frame
        /\ \A i \in 1 .. Len(g.loops) : more[i] = g.loops[i]
    BY <1>1, AppendProperties
  <1> HIDE DEF more
  <1>5. LoopRefs(more) \subseteq LoopRefs(g.loops) \cup {out, next}
    <2> SUFFICES ASSUME NEW l \in LoopRefs(more)
                 PROVE  l \in LoopRefs(g.loops) \cup {out, next}
      OBVIOUS
    <2>1. PICK i \in 1 .. Len(more) : l \in {more[i].out, more[i].next}
      BY DEF LoopRefs
    <2>2. i = Len(g.loops) + 1 \/ i \in 1 .. Len(g.loops)
      BY <1>4, SequenceFacts DEF Sequence
    <2>3. CASE i = Len(g.loops) + 1
      BY <2>1, <2>3, <1>1, <1>4
    <2>4. CASE i \in 1 .. Len(g.loops)
      BY <2>1, <2>4, <1>4 DEF LoopRefs
    <2> QED BY <2>2, <2>3, <2>4
  <1>6. Generator(h) /\ h.lines = g.lines /\ h.temp = g.temp /\ h.label = g.label
        /\ h.value = g.value
        /\ h.loops \in Seq(Frames)
        /\ LoopRefs(h.loops) \subseteq LoopRefs(g.loops) \cup {out, next}
    BY <1>2, <1>3, <1>4, <1>5
  <1> QED BY <1>6 DEF h

LEMMA PopFields ==
    ASSUME NEW g, Generator(g), g.loops \in Seq(Frames)
    PROVE  LET h == LoopPop(g)
           IN  /\ Generator(h) /\ h.lines = g.lines /\ h.temp = g.temp /\ h.label = g.label
               /\ h.value = g.value
               /\ h.loops \in Seq(Frames) /\ LoopRefs(h.loops) \subseteq LoopRefs(g.loops)
PROOF
  <1> DEFINE n == Len(g.loops) - 1
             less == SubSeq(g.loops, 1, n)
             popped == [g EXCEPT !.loops = less]
             h == LoopPop(g)
  <1>1. /\ popped.lines = g.lines /\ popped.temp = g.temp /\ popped.label = g.label
        /\ popped.loops = less /\ Generator(popped)
        /\ popped.value = g.value
    BY LoopsFields
  <1>2. h = g \/ (g.loops # <<>> /\ h = popped)
    BY DEF LoopPop
  <1> HIDE DEF h, popped
  <1>3. CASE h = g
    BY <1>3 DEF h
  <1>4. CASE g.loops # <<>> /\ h = popped
    <2>1. n \in Nat /\ Len(g.loops) = n + 1
      BY <1>4, LenProperties, EmptySeq
    <2>2. /\ less \in Seq(Frames) /\ Len(less) = n
          /\ \A i \in 1 .. n : less[i] = g.loops[i]
      <3>1. \A i \in 1 .. n : g.loops[i] \in Frames
        BY <2>1
      <3> HIDE DEF n
      <3>2. /\ less \in Seq(Frames)
            /\ Len(less) = IF 1 <= n THEN n - 1 + 1 ELSE 0
            /\ \A i \in 1 .. n - 1 + 1 : less[i] = g.loops[1 + i - 1]
        BY <2>1, <3>1, SubSeqProperties
      <3> HIDE DEF less
      <3>3. n - 1 + 1 = n /\ \A i \in 1 .. n : 1 + i - 1 = i
        BY <2>1
      <3>4. Len(less) = n
        BY <3>2, <2>1
      <3> QED BY <3>2, <3>3, <3>4
    <2> HIDE DEF less, n
    <2>3. LoopRefs(less) \subseteq LoopRefs(g.loops)
      BY <2>1, <2>2 DEF LoopRefs
    <2> QED BY <1>1, <1>4, <2>2, <2>3 DEF h
  <1> QED BY <1>2, <1>3, <1>4

LEMMA SwapEnter ==
    ASSUME NEW g, GeneratorOk(g), Laid(g.lines), Terminated(g.lines),
           NEW task, task.do = "enter", Owed(task) \cap Defined(g.lines) = {},
           Refs(task) \subseteq Nat
    PROVE  Swap(g, task, LoopPush(Label(g, task.to), task.out, task.next), <<>>)
PROOF
  <1> DEFINE k == Label(g, task.to)
             h == LoopPush(k, task.out, task.next)
  <1>1. ~Ends(task) /\ Owed(task) = {task.to} /\ Refs(task) = {task.out, task.next}
    BY DEF Ends, Owed, Refs
  <1>2. /\ Ready(k) /\ k.label = g.label /\ k.loops = g.loops
        /\ Defined(k.lines) = Defined(g.lines) \cup {task.to}
        /\ Targeted(k.lines) = Targeted(g.lines)
    BY <1>1, EmitLabel
  <1> HIDE DEF k
  <1>3. /\ Generator(h) /\ h.lines = k.lines /\ h.temp = k.temp /\ h.label = k.label
        /\ h.loops \in Seq(Frames)
        /\ LoopRefs(h.loops) \subseteq LoopRefs(k.loops) \cup {task.out, task.next}
    <2>1. task.out \in Nat /\ task.next \in Nat
      BY <1>1
    <2>2. Generator(k) /\ k.loops \in Seq(Frames)
      BY <1>2 DEF Ready, GeneratorOk
    <2> HIDE DEF h
    <2> DEFINE out == task.out
               next == task.next
               pushed == LoopPush(k, out, next)
    <2>3. out \in Nat /\ next \in Nat
      BY <2>1
    <2> HIDE DEF out, next
    <2>4. /\ Generator(pushed) /\ pushed.lines = k.lines /\ pushed.temp = k.temp
          /\ pushed.label = k.label /\ pushed.loops \in Seq(Frames)
          /\ LoopRefs(pushed.loops) \subseteq LoopRefs(k.loops) \cup {out, next}
      <3>1. Generator(pushed) /\ pushed.lines = k.lines
        BY <2>2, <2>3, PushFields
      <3>2. pushed.temp = k.temp /\ pushed.label = k.label
        BY <2>2, <2>3, PushFields
      <3>3. pushed.loops \in Seq(Frames)
        BY <2>2, <2>3, PushFields
      <3>4. LoopRefs(pushed.loops) \subseteq LoopRefs(k.loops) \cup {out, next}
        BY <2>2, <2>3, PushFields
      <3> QED BY <3>1, <3>2, <3>3, <3>4
    <2> QED BY <2>4, Zenon DEF h, out, next
  <1> HIDE DEF h
  <1>4. GeneratorOk(h) /\ Laid(h.lines) /\ ~Terminated(h.lines) /\ g.label \in Nat
    BY <1>2, <1>3 DEF Ready, GeneratorOk
  <1>5. Swap(g, task, h, <<>>)
    BY <1>1, <1>2, <1>3, <1>4, NoTasks DEF Swap
  <1> QED BY <1>5 DEF h, k

LEMMA SwapLeave ==
    ASSUME NEW g, Ready(g), NEW task, Neutral(task)
    PROVE  Swap(g, task, LoopPop(g), <<>>)
PROOF
  <1> DEFINE h == LoopPop(g)
  <1>1. Plain(task)
    BY TaskPlain
  <1>2. /\ Generator(h) /\ h.lines = g.lines /\ h.temp = g.temp /\ h.label = g.label
        /\ h.loops \in Seq(Frames) /\ LoopRefs(h.loops) \subseteq LoopRefs(g.loops)
    BY PopFields DEF Ready, GeneratorOk
  <1> HIDE DEF h
  <1>3. GeneratorOk(h) /\ Laid(h.lines) /\ ~Terminated(h.lines) /\ g.label \in Nat
    BY <1>2 DEF Ready, GeneratorOk
  <1>4. Swap(g, task, h, <<>>)
    BY <1>1, <1>2, <1>3, NoTasks DEF Swap, Plain
  <1> QED BY <1>4 DEF h

(* What follows a return, a break or a continue is in a block of its own.  *)
LEMMA DeadBlock ==
    ASSUME NEW g, GeneratorOk(g), Laid(g.lines), Terminated(g.lines), Bounded(g)
    PROVE  LET h == StartDeadBlock(g)
           IN  /\ Ready(h) /\ h.label = g.label + 1 /\ h.loops = g.loops
               /\ Defined(h.lines) = Defined(g.lines) \cup {g.label}
               /\ Targeted(h.lines) = Targeted(g.lines)
PROOF
  <1> DEFINE a == Take(g, 1)
  <1>1. GeneratorOk(a) /\ a.lines = g.lines /\ a.label = g.label + 1 /\ a.loops = g.loops
    BY TakeFields
  <1> HIDE DEF a
  <1>2. g.label \notin Defined(a.lines)
    BY <1>1 DEF Bounded, GeneratorOk
  <1>3. LET h == Label(a, g.label)
        IN  /\ Ready(h) /\ h.label = a.label /\ h.loops = a.loops
            /\ Defined(h.lines) = Defined(a.lines) \cup {g.label}
            /\ Targeted(h.lines) = Targeted(a.lines)
    BY <1>1, <1>2, EmitLabel
  <1> QED BY <1>1, <1>3 DEF StartDeadBlock, a

LEMMA SwapDead ==
    ASSUME NEW g, Ready(g), Bounded(g), NEW task, Neutral(task),
           NEW k, GeneratorOk(k), Laid(k.lines), Terminated(k.lines),
           k.label = g.label, k.loops = g.loops, Defined(k.lines) = Defined(g.lines),
           Targeted(k.lines) \subseteq Targeted(g.lines) \cup LoopRefs(g.loops)
    PROVE  Swap(g, task, StartDeadBlock(k), <<>>)
PROOF
  <1> DEFINE h == StartDeadBlock(k)
  <1>1. Bounded(k)
    BY DEF Bounded
  <1>2. /\ Ready(h) /\ h.label = k.label + 1 /\ h.loops = k.loops
        /\ Defined(h.lines) = Defined(k.lines) \cup {k.label}
        /\ Targeted(h.lines) = Targeted(k.lines)
    BY <1>1, DeadBlock
  <1>3. Plain(task) /\ g.label \in Nat
    BY TaskPlain DEF Ready, GeneratorOk
  <1> HIDE DEF h
  <1>4. g.label \in g.label .. h.label - 1 /\ g.label <= h.label
    BY <1>2, <1>3
  <1>5. GeneratorOk(h) /\ Laid(h.lines) /\ ~Terminated(h.lines)
    BY <1>2 DEF Ready
  <1>6. Swap(g, task, h, <<>>)
    BY <1>2, <1>3, <1>4, <1>5, NoTasks DEF Swap, Plain
  <1> QED BY <1>6 DEF h

LEMMA SwapReturned ==
    ASSUME NEW g, Ready(g), Bounded(g), NEW task, Neutral(task), NEW last
    PROVE  Swap(g, task, StartDeadBlock(Ret(g, last)), <<>>)
PROOF
  <1> DEFINE line == [op |-> "ret", from |-> g.value, last |-> last]
  <1>1. IsTerminator(line) /\ Targets(line) = {}
    BY DEF Targets, IsTerminator, Terminators
  <1> HIDE DEF line
  <1>2. LET k == Emit(g, line)
        IN  /\ GeneratorOk(k) /\ Laid(k.lines) /\ Terminated(k.lines)
            /\ k.label = g.label /\ k.loops = g.loops
            /\ Defined(k.lines) = Defined(g.lines)
            /\ Targeted(k.lines) = Targeted(g.lines) \cup Targets(line)
    BY <1>1, EmitTerminator
  <1>3. Swap(g, task, StartDeadBlock(Emit(g, line)), <<>>)
    BY <1>1, <1>2, SwapDead
  <1> QED BY <1>3 DEF Ret, line

LEMMA SwapExit ==
    ASSUME NEW g, Ready(g), Bounded(g), NEW task, Neutral(task),
           NEW to \in LoopRefs(g.loops)
    PROVE  Swap(g, task, StartDeadBlock(Jump(g, to)), <<>>)
  BY EmitJump, SwapDead
-----------------------------------------------------------------------------
(* The actions.                                                            *)
Fits == Shape(gen, work)

LEMMA Ahead ==
    ASSUME Fits, work # <<>>
    PROVE  /\ Task = work[1] /\ Sequence(work) /\ Len(work) >= 1
           /\ GeneratorOk(gen) /\ Laid(gen.lines) /\ Bounded(gen)
           /\ Opens(Task) => Terminated(gen.lines)
           /\ ~Opens(Task) => Ready(gen)
           /\ Owed(Task) \cap Defined(gen.lines) = {} /\ Refs(Task) \subseteq Nat
           /\ Refs(Task) \subseteq 0 .. gen.label - 1
PROOF
  <1>1. Sequence(work) /\ Len(work) \in Nat /\ Len(work) >= 1
    BY SequenceFacts DEF Fits, Shape
  <1>2. Task = work[1]
    <2>1. Sequence(<<>>)
      BY NoTasks
    <2> QED BY <1>1, <2>1, Spliced DEF Task
  <1> HIDE DEF Task
  <1>3. /\ GeneratorOk(gen) /\ Laid(gen.lines)
        /\ Terminated(gen.lines) <=> Opens(Task)
        /\ Owes(work) \cap Defined(gen.lines) = {}
        /\ Owes(work) \cup Defined(gen.lines) \subseteq 0 .. gen.label - 1
        /\ Referred(work) \subseteq Owes(work) \cup Defined(gen.lines)
    BY <1>2 DEF Fits, Shape
  <1>4. Owed(Task) \subseteq Owes(work) /\ Refs(Task) \subseteq Referred(work)
    BY <1>1, <1>2, OwesIn, ReferredIn
  <1>5. gen.label \in Nat
    BY <1>3 DEF GeneratorOk
  <1> QED BY <1>1, <1>2, <1>3, <1>4, <1>5 DEF Ready, Bounded

LEMMA SwapStep ==
    ASSUME Fits, work # <<>>, NEW h, NEW new, Step(h, new), Swap(gen, Task, h, new)
    PROVE  Fits'
PROOF
  <1>1. Swap(gen, work[1], h, new)
    BY Ahead
  <1>2. Shape(h, new \o Tail(work))
    BY <1>1, Splice DEF Fits
  <1>3. gen' = h /\ work' = new \o Tail(work)
    BY DEF Step
  <1> QED BY <1>2, <1>3 DEF Fits

LEMMA NeutralStep ==
    ASSUME Fits, work # <<>>, Neutral(Task), NEW h, NEW new, Step(h, new),
           Onward(gen, h), NeutralTasks(new)
    PROVE  Fits'
PROOF
  <1>1. Ready(gen)
    BY Ahead, NeutralTask
  <1>2. Swap(gen, Task, h, new)
    BY <1>1, NeutralSwap
  <1> QED BY <1>2, SwapStep

LEMMA NeutralDoing ==
    ASSUME Fits, NEW what, Doing(what),
           what \notin {"label", "enter", "bodies", "jump", "branch", "test", "tests", "arms"}
    PROVE  work # <<>> /\ Neutral(Task) /\ Ready(gen) /\ Onward(gen, gen) /\ Bounded(gen)
PROOF
  <1>1. work # <<>> /\ Neutral(Task)
    BY DEF Doing, Neutral
  <1> QED BY <1>1, Ahead, NeutralTask, OnwardSelf

LEMMA FitsLeaf ==
    ASSUME Fits, CgLiteral \/ CgName \/ CgUnary \/ CgUnaryOperation
    PROVE  Fits'
PROOF
  <1>1. CASE CgLiteral
    <2>1. Doing("eval") /\ Step(Holding(gen, Value("const", Task.e.t, Task.e.v)), <<>>)
      BY <1>1 DEF CgLiteral, Evaluating
    <2> QED BY <2>1, NeutralDoing, OnwardHolding, NeutralFew, NeutralStep
  <1>2. CASE CgName
    <2> DEFINE x == Task.e.x
               h == IF x \in DOMAIN gen.env THEN Load(gen, gen.env[x].slot, gen.env[x].t)
                    ELSE Holding(gen, Zero(gen.seen[x]))
    <2>1. Doing("eval") /\ Step(h, <<>>)
      BY <1>2 DEF CgName, Evaluating
    <2>2. Onward(gen, h)
      BY <2>1, NeutralDoing, OnwardHolding, OnwardLoad
    <2> HIDE DEF h
    <2> QED BY <2>1, <2>2, NeutralDoing, NeutralFew, NeutralStep
  <1>3. CASE CgUnary
    <2>1. Doing("eval") /\ Step(gen, <<ToEval(Task.e.e), ToUnary(Task.e.op)>>)
      BY <1>3 DEF CgUnary, Evaluating
    <2> QED BY <2>1, NeutralDoing, TasksNeutral, NeutralFew, NeutralStep
  <1>4. CASE CgUnaryOperation
    <2> DEFINE h == IF Task.op = "!" THEN Calc(gen, "!", <<gen.value>>, "bool")
                    ELSE Calc(gen, "-", <<Zero("int"), gen.value>>, "int")
    <2>1. Doing("unary") /\ Step(h, <<>>)
      BY <1>4 DEF CgUnaryOperation
    <2>2. Onward(gen, h)
      BY <2>1, NeutralDoing, OnwardCalc
    <2> HIDE DEF h
    <2> QED BY <2>1, <2>2, NeutralDoing, NeutralFew, NeutralStep
  <1> QED BY <1>1, <1>2, <1>3, <1>4

LEMMA FitsBinary ==
    ASSUME Fits, CgLogic \/ CgStore \/ CgLoad \/ CgBinary \/ CgRight \/ CgCombine
    PROVE  Fits'
PROOF
  <1>1. CASE CgLogic
    <2>1. Doing("eval") /\ Step(Slot(gen), <<ToEval(Task.e.l), ToFork(Task.e, gen.slot)>>)
      BY <1>1 DEF CgLogic, Evaluating
    <2> QED BY <2>1, NeutralDoing, OnwardSlot, TasksNeutral, NeutralFew, NeutralStep
  <1>2. CASE CgStore
    <2>1. Doing("store") /\ Step(Store(gen, Task.slot, Task.t), <<>>)
      BY <1>2 DEF CgStore
    <2> QED BY <2>1, NeutralDoing, OnwardStore, NeutralFew, NeutralStep
  <1>3. CASE CgLoad
    <2>1. Doing("load") /\ Step(Load(gen, Task.slot, Task.t), <<>>)
      BY <1>3 DEF CgLoad
    <2> QED BY <2>1, NeutralDoing, OnwardLoad, NeutralFew, NeutralStep
  <1>4. CASE CgBinary
    <2>1. Doing("eval") /\ Step(gen, <<ToEval(Task.e.l), ToRight(Task.e)>>)
      BY <1>4 DEF CgBinary, Evaluating
    <2> QED BY <2>1, NeutralDoing, TasksNeutral, NeutralFew, NeutralStep
  <1>5. CASE CgRight
    <2>1. Doing("right") /\ Step(gen, <<ToEval(Task.e.r), ToCombine(Task.e.op, gen.value)>>)
      BY <1>5 DEF CgRight
    <2> QED BY <2>1, NeutralDoing, TasksNeutral, NeutralFew, NeutralStep
  <1>6. CASE CgCombine
    <2>1. Doing("combine") /\ Step(CgOperation(gen, Task.op, Task.left, gen.value), <<>>)
      BY <1>6 DEF CgCombine
    <2> QED BY <2>1, NeutralDoing, OnwardOperation, NeutralFew, NeutralStep
  <1> QED BY <1>1, <1>2, <1>3, <1>4, <1>5, <1>6

LEMMA FitsCall ==
    ASSUME Fits, CgCall \/ CgPass \/ CgPrint \/ CgApply
    PROVE  Fits'
PROOF
  <1>1. CASE CgCall
    <2> DEFINE none == [i \in 1 .. Len(Task.e.args) |-> Nothing]
    <2>1. Doing("eval") /\ Step(gen, <<ToPass(Task.e, 0, none)>>)
      BY <1>1 DEF CgCall, Evaluating
    <2> HIDE DEF none
    <2> QED BY <2>1, NeutralDoing, TasksNeutral, NeutralFew, NeutralStep
  <1>2. CASE CgPass
    <2>1. PICK vals, e :
              /\ Doing("pass")
              /\ \/ Step(gen, <<ToEval(e), ToPass(Task.call, Task.i + 1, vals)>>)
                 \/ Step(gen, <<ToPrint(vals), ToApply(Task.call.f, <<>>)>>)
                 \/ Step(gen, <<ToApply(Task.call.f, vals)>>)
      BY <1>2 DEF CgPass
    <2> QED BY <2>1, NeutralDoing, TasksNeutral, NeutralFew, NeutralStep
  <1>3. CASE CgPrint
    <2>1. \/ Doing("print") /\ Step(gen, <<>>)
          \/ Doing("print") /\ Step(Put(gen, Head(Task.vals)), <<ToPrint(Tail(Task.vals))>>)
      BY <1>3 DEF CgPrint
    <2> QED BY <2>1, NeutralDoing, OnwardPut, TasksNeutral, NeutralFew, NeutralStep
  <1>4. CASE CgApply
    <2>1. Doing("apply") /\ Step(Applied(gen, Task.f, Task.vals), <<>>)
      BY <1>4 DEF CgApply
    <2> QED BY <2>1, NeutralDoing, OnwardApplied, NeutralFew, NeutralStep
  <1> QED BY <1>1, <1>2, <1>3, <1>4

LEMMA FitsSimple ==
    ASSUME Fits, CgBind \/ CgBlock \/ CgScope \/ CgDo \/ CgFor \/ CgSwitch \/ CgCompare
    PROVE  Fits'
PROOF
  <1>1. CASE CgBind
    <2>1. \/ Doing("bind") /\ Step(gen, <<>>)
          \/ Doing("bind") /\ Step(CgParam(gen, Unit.name, Task.i), <<ToBind(Task.i + 1)>>)
      BY <1>1 DEF CgBind
    <2> QED BY <2>1, NeutralDoing, OnwardParam, TasksNeutral, NeutralFew, NeutralStep
  <1>2. CASE CgBlock
    <2>1. \/ Doing("block") /\ Step(gen, <<>>)
          \/ Doing("block")
             /\ Step(gen, <<ToMake(Head(Task.block)), ToBlock(Tail(Task.block))>>)
      BY <1>2 DEF CgBlock
    <2> QED BY <2>1, NeutralDoing, TasksNeutral, NeutralFew, NeutralStep
  <1>3. CASE CgScope
    <2>1. Doing("scope") /\ Step([gen EXCEPT !.env = Task.env], <<>>)
      BY <1>3 DEF CgScope
    <2> QED BY <2>1, NeutralDoing, OnwardScope, NeutralFew, NeutralStep
  <1>4. CASE CgDo
    <2>1. Doing("make") /\ Step(gen, <<ToEval(Task.st.e)>>)
      BY <1>4 DEF CgDo, Making
    <2> QED BY <2>1, NeutralDoing, TasksNeutral, NeutralFew, NeutralStep
  <1>5. CASE CgFor
    <2>1. Doing("make") /\ Step(gen, <<ToBlock(Task.st.init), ToLoop(Task.st, gen.env)>>)
      BY <1>5 DEF CgFor, Making
    <2> QED BY <2>1, NeutralDoing, TasksNeutral, NeutralFew, NeutralStep
  <1>6. CASE CgSwitch
    <2>1. Doing("make") /\ Step(gen, <<ToEval(Task.st.e), ToSwitch(Task.st.arms)>>)
      BY <1>6 DEF CgSwitch, Making
    <2> QED BY <2>1, NeutralDoing, TasksNeutral, NeutralFew, NeutralStep
  <1>7. CASE CgCompare
    <2>1. Doing("compare") /\ Step(Equal(gen, "==", Task.subject, gen.value), <<>>)
      BY <1>7 DEF CgCompare
    <2> QED BY <2>1, NeutralDoing, OnwardEqual, NeutralFew, NeutralStep
  <1> QED BY <1>1, <1>2, <1>3, <1>4, <1>5, <1>6, <1>7

LEMMA FitsVariable ==
    ASSUME Fits, CgVar \/ CgDeclare \/ CgAssign \/ CgAssigned \/ CgReturn
    PROVE  Fits'
PROOF
  <1>1. CASE CgVar
    <2>1. \/ Doing("make") /\ Step(Holding(Slot(gen), Zero(Task.st.t)),
                                   <<ToDeclare(Task.st, gen.slot)>>)
          \/ Doing("make") /\ Step(Slot(gen), <<ToEval(Task.st.e), ToDeclare(Task.st, gen.slot)>>)
      BY <1>1 DEF CgVar, Making
    <2>2. ASSUME Doing("make")
          PROVE  Onward(gen, Slot(gen)) /\ Onward(gen, Holding(Slot(gen), Zero(Task.st.t)))
      <3>1. Onward(gen, Slot(gen))
        BY <2>2, NeutralDoing, OnwardSlot
      <3> QED BY <3>1, OnwardHolding, OnwardTwice DEF Onward
    <2> QED BY <2>1, <2>2, NeutralDoing, TasksNeutral, NeutralFew, NeutralStep
  <1>2. CASE CgDeclare
    <2> DEFINE st == Task.st
               a == Store(gen, Task.slot, st.t)
               b == Declare(a, st.x, Task.slot, st.t)
               h == [b EXCEPT !.seen = With(@, st.x, st.t)]
    <2>1. Doing("declare") /\ Step(h, <<>>)
      BY <1>2 DEF CgDeclare
    <2>2. Onward(gen, h)
      <3>1. Onward(gen, a)
        BY <2>1, NeutralDoing, OnwardStore
      <3> HIDE DEF a
      <3>2. Onward(gen, b)
        BY <3>1, OnwardDeclare, OnwardTwice DEF Onward
      <3> HIDE DEF b
      <3>3. Onward(b, [b EXCEPT !.seen = With(b.seen, st.x, st.t)])
        BY <3>2, OnwardSeen DEF Onward
      <3> QED BY <3>2, <3>3, OnwardTwice
    <2> HIDE DEF h
    <2> QED BY <2>1, <2>2, NeutralDoing, NeutralFew, NeutralStep
  <1>3. CASE CgAssign
    <2>1. Doing("make") /\ Step(gen, <<ToEval(Task.st.e), ToAssign(Task.st.x)>>)
      BY <1>3 DEF CgAssign, Making
    <2> QED BY <2>1, NeutralDoing, TasksNeutral, NeutralFew, NeutralStep
  <1>4. CASE CgAssigned
    <2> DEFINE var == gen.env[Task.x]
    <2>1. Doing("assign") /\ Step(Store(gen, var.slot, var.t), <<>>)
      BY <1>4 DEF CgAssigned
    <2> HIDE DEF var
    <2> QED BY <2>1, NeutralDoing, OnwardStore, NeutralFew, NeutralStep
  <1>5. CASE CgReturn
    <2>1. \/ Doing("make") /\ Step(Holding(gen, Missing(ResultOf(Unit.name))), <<ToReturn>>)
          \/ Doing("make") /\ Step(gen, <<ToEval(Task.st.e), ToReturn>>)
      BY <1>5 DEF CgReturn, Making
    <2> QED BY <2>1, NeutralDoing, OnwardHolding, TasksNeutral, NeutralFew, NeutralStep
  <1> QED BY <1>1, <1>2, <1>3, <1>4, <1>5
-----------------------------------------------------------------------------
(* The work of a program: every part is a part of what was built.          *)
Arms(E, S) == Seq([c: E \cup {None}, body: Seq(S)])
TaskBuilt(E, S, task) ==
    /\ task.do = "eval" => task.e \in E \cup {None}
    /\ task.do \in {"right", "fork"} => task.e \in E /\ task.e.k = "bin"
    /\ task.do = "test" => task.c \in E \cup {None}
    /\ task.do = "pass" =>
           /\ task.call \in E /\ task.call.k = "call"
           /\ task.i \in 0 .. Len(task.call.args)
           /\ Sequence(task.vals) /\ Len(task.vals) = Len(task.call.args)
    /\ task.do = "print" => Sequence(task.vals)
    /\ task.do = "apply" =>
           /\ Sequence(task.vals)
           /\ ~Variadic(task.f) => Len(task.vals) = Len(ParamsOf(task.f))
    /\ task.do = "block" => task.block \in Seq(S)
    /\ task.do = "make" => task.st \in S
    /\ task.do = "loop" => task.st \in S /\ task.st.k = "for"
    /\ task.do \in {"arms", "switch", "tests", "bodies"} => task.arms \in Arms(E, S)
    /\ task.do = "tests" => task.at \in Nat
    /\ task.do = "bodies" => task.at \in Nat /\ task.end \in Nat /\ task.end < task.at
WorkBuilt(E, S, tasks) ==
    Sequence(tasks) /\ \A i \in 1 .. Len(tasks) : TaskBuilt(E, S, tasks[i])

(* What is known of a piece of work, by what it does.                      *)
LEMMA TaskParts ==
    ASSUME NEW E, NEW S, NEW task, TaskBuilt(E, S, task)
    PROVE  /\ task.do = "eval" => task.e \in E \cup {None}
           /\ task.do \in {"right", "fork"} => task.e \in E /\ task.e.k = "bin"
           /\ task.do = "test" => task.c \in E \cup {None}
           /\ task.do = "block" => task.block \in Seq(S)
           /\ task.do = "make" => task.st \in S
           /\ task.do = "loop" => task.st \in S /\ task.st.k = "for"
           /\ task.do \in {"arms", "switch", "tests", "bodies"} => task.arms \in Arms(E, S)
           /\ task.do = "tests" => task.at \in Nat
           /\ task.do = "bodies" => task.at \in Nat /\ task.end \in Nat /\ task.end < task.at
  BY DEF TaskBuilt
LEMMA PartsOfExpression ==
    ASSUME NEW E, NEW S, Built(E, S), NEW e \in E \cup {None}
    PROVE  /\ e.k = "un" => e.e \in E
           /\ e.k = "bin" => e \in E /\ e.l \in E /\ e.r \in E
           /\ e.k = "call" => e \in E /\ ExpressionBuilt(E, e)
PROOF
  <1>1. CASE e = None
    BY <1>1 DEF None
  <1>2. CASE e \in E
    <2>1. ExpressionBuilt(E, e)
      BY <1>2 DEF Built
    <2> QED BY <1>2, <2>1 DEF ExpressionBuilt
  <1> QED BY <1>1, <1>2

LEMMA ArmsTail ==
    ASSUME NEW E, NEW S, NEW arms \in Arms(E, S)
    PROVE  /\ Len(arms) \in Nat /\ (arms = <<>> <=> Len(arms) = 0)
           /\ arms # <<>> => /\ Tail(arms) \in Arms(E, S) /\ Len(Tail(arms)) \in Nat
                             /\ Len(arms) = Len(Tail(arms)) + 1
                             /\ Head(arms).c \in E \cup {None}
                             /\ Head(arms).body \in Seq(S)
PROOF
  <1> DEFINE A == [c: E \cup {None}, body: Seq(S)]
  <1>1. arms \in Seq(A)
    BY DEF Arms
  <1>2. Len(arms) \in Nat /\ (arms = <<>> <=> Len(arms) = 0)
    BY <1>1, SequenceFacts DEF Sequence
  <1>3. ASSUME arms # <<>>
        PROVE  /\ Tail(arms) \in Seq(A) /\ Len(Tail(arms)) \in Nat
               /\ Len(arms) = Len(Tail(arms)) + 1 /\ Head(arms) \in A
    <2>1. Tail(arms) \in Seq(A) /\ Len(Tail(arms)) = Len(arms) - 1 /\ Head(arms) \in A
      BY <1>1, <1>3, HeadTailProperties
    <2> QED BY <2>1, <1>2, SequenceFacts DEF Sequence
  <1> QED BY <1>2, <1>3 DEF Arms

LEMMA FitsLabels ==
    ASSUME Fits, CgLabel \/ CgJump \/ CgBranch \/ CgTest \/ CgEnter \/ CgLeave
    PROVE  Fits'
PROOF
  <1>1. CASE CgLabel
    <2>1. work # <<>> /\ Task.do = "label" /\ Step(Label(gen, Task.to), <<>>)
      BY <1>1 DEF CgLabel, Doing
    <2>2. Opens(Task)
      BY <2>1 DEF Opens
    <2> QED BY <2>1, <2>2, Ahead, SwapLabel, SwapStep
  <1>2. CASE CgJump
    <2>1. work # <<>> /\ Task.do = "jump" /\ Step(Jump(gen, Task.to), <<>>)
      BY <1>2 DEF CgJump, Doing
    <2>2. ~Opens(Task)
      BY <2>1 DEF Opens
    <2> QED BY <2>1, <2>2, Ahead, SwapJump, SwapStep
  <1>3. CASE CgBranch
    <2>1. work # <<>> /\ Task.do = "branch" /\ Step(Branch(gen, Task.yes, Task.no), <<>>)
      BY <1>3 DEF CgBranch, Doing
    <2>2. ~Opens(Task)
      BY <2>1 DEF Opens
    <2> QED BY <2>1, <2>2, Ahead, SwapBranch, SwapStep
  <1>4. CASE CgTest
    <2>1. /\ work # <<>> /\ Task.do = "test"
          /\ \/ Step(Jump(gen, Task.yes), <<>>)
             \/ Step(gen, <<ToEval(Task.c), ToBranch(Task.yes, Task.no)>>)
      BY <1>4 DEF CgTest, Doing
    <2>2. ~Opens(Task)
      BY <2>1 DEF Opens
    <2> QED BY <2>1, <2>2, Ahead, SwapNoTest, SwapTest, SwapStep
  <1>5. CASE CgEnter
    <2>1. work # <<>> /\ Task.do = "enter"
          /\ Step(LoopPush(Label(gen, Task.to), Task.out, Task.next), <<>>)
      BY <1>5 DEF CgEnter, Doing
    <2>2. Opens(Task)
      BY <2>1 DEF Opens
    <2> QED BY <2>1, <2>2, Ahead, SwapEnter, SwapStep
  <1>6. CASE CgLeave
    <2>1. Doing("leave") /\ Step(LoopPop(gen), <<>>)
      BY <1>6 DEF CgLeave
    <2> QED BY <2>1, NeutralDoing, SwapLeave, SwapStep
  <1> QED BY <1>1, <1>2, <1>3, <1>4, <1>5, <1>6

LEMMA FitsLogic ==
    ASSUME Fits, CgFork
    PROVE  Fits'
PROOF
  <1> DEFINE s == Store(gen, Task.slot, "bool")
             left == Take(s, 2)
             rhs == gen.label
             end == gen.label + 1
             h == IF Task.e.op = "&&" THEN Branch(left, rhs, end) ELSE Branch(left, end, rhs)
             new == <<ToLabel(rhs), ToEval(Task.e.r), ToStore(Task.slot, "bool"),
                      ToJump(end), ToLabel(end), ToLoad(Task.slot, "bool")>>
  <1>1. Doing("fork") /\ Step(h, new)
    BY DEF CgFork
  <1>2. Onward(gen, s)
    BY <1>1, NeutralDoing, OnwardStore
  <1> HIDE DEF s
  <1>3. /\ Ready(left) /\ left.lines = s.lines /\ left.label = s.label + 2
        /\ left.loops = s.loops
    BY <1>2, TakeFields DEF Onward, Ready
  <1> HIDE DEF left
  <1>4. /\ GeneratorOk(h) /\ Laid(h.lines) /\ Terminated(h.lines)
        /\ h.label = left.label /\ h.loops = left.loops
        /\ Defined(h.lines) = Defined(left.lines)
        /\ Targeted(h.lines) = Targeted(left.lines) \cup {rhs, end}
    <2>1. ASSUME NEW yes, NEW no, NEW k, k = Branch(left, yes, no)
          PROVE  /\ GeneratorOk(k) /\ Laid(k.lines) /\ Terminated(k.lines)
                 /\ k.label = left.label /\ k.loops = left.loops
                 /\ Defined(k.lines) = Defined(left.lines)
                 /\ Targeted(k.lines) = Targeted(left.lines) \cup {yes, no}
      BY <2>1, <1>3, EmitBranch
    <2>2. h = Branch(left, rhs, end) \/ h = Branch(left, end, rhs)
      OBVIOUS
    <2> HIDE DEF h, rhs, end
    <2>3. {rhs, end} = {end, rhs}
      OBVIOUS
    <2> QED BY <2>1, <2>2, <2>3
  <1> HIDE DEF h
  <1>5. /\ h.label = gen.label + 2 /\ h.loops = gen.loops
        /\ Defined(h.lines) = Defined(gen.lines)
        /\ Targeted(h.lines) = Targeted(gen.lines) \cup {gen.label, gen.label + 1}
    BY <1>2, <1>3, <1>4 DEF Onward
  <1>6. Swap(gen, Task, h, new)
    BY <1>1, <1>4, <1>5, NeutralDoing, SwapFork
  <1> QED BY <1>1, <1>6, NeutralDoing, SwapStep

LEMMA FitsLoop ==
    ASSUME Fits, CgWhile \/ CgLoop
    PROVE  Fits'
PROOF
  <1>1. CASE CgWhile
    <2> DEFINE cond == gen.label
               body == cond + 1
               end == cond + 2
    <2>1. /\ Doing("make")
          /\ Step(Label(Jump(Take(gen, 3), cond), cond),
                  <<ToTest(Task.st.c, body, end), ToEnter(body, end, cond),
                    ToBlock(Task.st.body), ToLeave, ToScope(gen.env), ToJump(cond),
                    ToLabel(end)>>)
      BY <1>1 DEF CgWhile, Making
    <2>2. Swap(gen, Task, Label(Jump(Take(gen, 3), cond), cond),
                  <<ToTest(Task.st.c, body, end), ToEnter(body, end, cond),
                    ToBlock(Task.st.body), ToLeave, ToScope(gen.env), ToJump(cond),
                    ToLabel(end)>>)
      BY <2>1, NeutralDoing, SwapWhile
    <2> HIDE DEF cond, body, end
    <2> QED BY <2>1, <2>2, NeutralDoing, SwapStep
  <1>2. CASE CgLoop
    <2> DEFINE cond == gen.label
               body == cond + 1
               step == cond + 2
               end == cond + 3
    <2>1. /\ Doing("loop")
          /\ Step(Label(Jump(Take(gen, 4), cond), cond),
                  <<ToTest(Task.st.c, body, end), ToEnter(body, end, step),
                    ToBlock(Task.st.body), ToLeave, ToScope(gen.env), ToJump(step),
                    ToLabel(step), ToBlock(Task.st.step), ToJump(cond), ToLabel(end),
                    ToScope(Task.env)>>)
      BY <1>2 DEF CgLoop
    <2>2. Swap(gen, Task, Label(Jump(Take(gen, 4), cond), cond),
                  <<ToTest(Task.st.c, body, end), ToEnter(body, end, step),
                    ToBlock(Task.st.body), ToLeave, ToScope(gen.env), ToJump(step),
                    ToLabel(step), ToBlock(Task.st.step), ToJump(cond), ToLabel(end),
                    ToScope(Task.env)>>)
      BY <2>1, NeutralDoing, SwapFor
    <2> HIDE DEF cond, body, step, end
    <2> QED BY <2>1, <2>2, NeutralDoing, SwapStep
  <1> QED BY <1>1, <1>2

LEMMA FitsIf ==
    ASSUME Fits, CgIf \/ CgArms
    PROVE  Fits'
PROOF
  <1>1. CASE CgIf
    <2>1. /\ Doing("make")
          /\ Step(Take(gen, 1), <<ToArms(Task.st.arms, gen.label), ToJump(gen.label),
                                  ToLabel(gen.label)>>)
      BY <1>1 DEF CgIf, Making
    <2> QED BY <2>1, NeutralDoing, SwapIf, SwapStep
  <1>2. CASE CgArms
    <2> DEFINE arm == Head(Task.arms)
    <2>1. /\ work # <<>> /\ Task.do = "arms"
          /\ \/ Step(gen, <<>>)
             \/ Step(gen, <<ToBlock(arm.body), ToScope(gen.env)>>)
             \/ Step(Take(gen, 2),
                     <<ToEval(arm.c), ToBranch(gen.label, gen.label + 1), ToLabel(gen.label),
                       ToBlock(arm.body), ToScope(gen.env), ToJump(Task.end),
                       ToLabel(gen.label + 1), ToArms(Tail(Task.arms), Task.end)>>)
      BY <1>2 DEF CgArms, Doing
    <2> HIDE DEF arm
    <2>2. Ready(gen) /\ Bounded(gen)
      BY <2>1, Ahead DEF Opens
    <2>3. ASSUME NEW h, NEW new, Swap(gen, ToArms(Task.arms, Task.end), h, new)
          PROVE  Swap(gen, Task, h, new)
      <3>1. LET t == ToArms(Task.arms, Task.end)
            IN  Ends(t) = Ends(Task) /\ Owed(t) = Owed(Task) /\ Refs(t) = Refs(Task)
        BY <2>1 DEF ToArms, Ends, Owed, Refs
      <3> QED BY <2>3, <3>1 DEF Swap
    <2>4. CASE Step(gen, <<>>)
      BY <2>1, <2>2, <2>3, <2>4, SwapElse, NeutralFew, SwapStep
    <2>5. CASE Step(gen, <<ToBlock(arm.body), ToScope(gen.env)>>)
      BY <2>1, <2>2, <2>3, <2>5, SwapElse, TasksNeutral, NeutralFew, SwapStep
    <2>6. CASE Step(Take(gen, 2),
                     <<ToEval(arm.c), ToBranch(gen.label, gen.label + 1), ToLabel(gen.label),
                       ToBlock(arm.body), ToScope(gen.env), ToJump(Task.end),
                       ToLabel(gen.label + 1), ToArms(Tail(Task.arms), Task.end)>>)
      BY <2>1, <2>2, <2>3, <2>6, SwapArm, SwapStep
    <2> QED BY <2>1, <2>4, <2>5, <2>6
  <1> QED BY <1>1, <1>2

LEMMA FitsSwitch ==
    ASSUME Fits, NEW E, NEW S, WorkBuilt(E, S, work), CgCases \/ CgTests \/ CgBodies
    PROVE  Fits'
PROOF
  <1>1. work # <<>> => TaskBuilt(E, S, Task)
    <2>1. work # <<>> => Task = work[1] /\ Len(work) >= 1 /\ Len(work) \in Nat
      BY Ahead, SequenceFacts
    <2> QED BY <2>1 DEF WorkBuilt
  <1>2. CASE CgCases
    <2> DEFINE arms == Task.arms
               end == gen.label
               DefaultAt(i) == arms[i].c.k = "none"
               other == IF \E i \in 1 .. Len(arms) : DefaultAt(i)
                        THEN end + (CHOOSE i \in 1 .. Len(arms) : DefaultAt(i)) ELSE end
    <2>1. /\ Doing("switch")
          /\ Step(Take(gen, Len(arms) + 1),
                  <<ToTests(gen.value, arms, end + 1, other), ToBodies(arms, end + 1, end)>>)
      BY <1>2 DEF CgCases
    <2>2. arms \in Arms(E, S)
      BY <2>1, <1>1 DEF Doing, TaskBuilt
    <2>3. Len(arms) \in Nat /\ gen.label \in Nat
      BY <2>1, <2>2, ArmsTail, NeutralDoing DEF Ready, GeneratorOk
    <2>4. other \in gen.label .. gen.label + Len(arms)
      <3>1. CASE \E i \in 1 .. Len(arms) : DefaultAt(i)
        <4>1. (CHOOSE i \in 1 .. Len(arms) : DefaultAt(i)) \in 1 .. Len(arms)
          BY <3>1
        <4> QED BY <3>1, <4>1, <2>3
      <3>2. CASE ~ \E i \in 1 .. Len(arms) : DefaultAt(i)
        BY <3>2, <2>3
      <3> QED BY <3>1, <3>2
    <2> HIDE DEF other, arms
    <2>5. Swap(gen, Task, Take(gen, Len(arms) + 1),
               <<ToTests(gen.value, arms, end + 1, other), ToBodies(arms, end + 1, end)>>)
      BY <2>1, <2>3, <2>4, NeutralDoing, SwapCases
    <2> QED BY <2>1, <2>5, NeutralDoing, SwapStep
  <1>3. CASE CgTests
    <2> DEFINE arms == Task.arms
               rest == ToTests(Task.subject, Tail(arms), Task.at + 1, Task.other)
    <2>1. /\ work # <<>> /\ Task.do = "tests"
          /\ \/ Step(Jump(gen, Task.other), <<>>)
             \/ arms # <<>> /\ Step(gen, <<rest>>)
             \/ arms # <<>> /\ Step(gen, <<ToEval(Head(arms).c), ToCompare(Task.subject),
                                           ToBranch(Task.at, Task.other)>>)
             \/ arms # <<>> /\ Step(Take(gen, 1),
                                    <<ToEval(Head(arms).c), ToCompare(Task.subject),
                                      ToBranch(Task.at, gen.label)>>
                                    \o <<ToLabel(gen.label), rest>>)
      BY <1>3 DEF CgTests, Doing
    <2>2. arms \in Arms(E, S) /\ Task.at \in Nat
      BY <2>1, <1>1 DEF TaskBuilt
    <2>3. /\ TestsLeft(Task) /\ Ready(gen) /\ Bounded(gen)
          /\ arms # <<>> => /\ Len(Tail(arms)) \in Nat /\ Len(arms) = Len(Tail(arms)) + 1
                            /\ Len(arms) > 0
      BY <2>1, <2>2, ArmsTail, Ahead DEF TestsLeft, Opens
    <2>4. CASE Step(Jump(gen, Task.other), <<>>)
      BY <2>1, <2>3, <2>4, SwapTestsDone, SwapStep
    <2>5. CASE arms # <<>> /\ Step(gen, <<rest>>)
      BY <2>1, <2>3, <2>5, SwapTestsRest, SwapStep
    <2>6. CASE arms # <<>> /\ Step(gen, <<ToEval(Head(arms).c), ToCompare(Task.subject),
                                           ToBranch(Task.at, Task.other)>>)
      BY <2>1, <2>3, <2>6, SwapTestsLast, SwapStep
    <2>7. CASE arms # <<>> /\ Step(Take(gen, 1),
                                    <<ToEval(Head(arms).c), ToCompare(Task.subject),
                                      ToBranch(Task.at, gen.label)>>
                                    \o <<ToLabel(gen.label), rest>>)
      BY <2>1, <2>3, <2>7, SwapTestsNext, SwapStep
    <2> QED BY <2>1, <2>4, <2>5, <2>6, <2>7
  <1>4. CASE CgBodies
    <2> DEFINE arms == Task.arms
    <2>1. /\ work # <<>> /\ Task.do = "bodies"
          /\ \/ arms = <<>> /\ Step(Label(gen, Task.end), <<>>)
             \/ /\ arms # <<>>
                /\ Step(Label(gen, Task.at),
                        <<ToBlock(Head(arms).body), ToScope(gen.env), ToJump(Task.end),
                          ToBodies(Tail(arms), Task.at + 1, Task.end)>>)
      BY <1>4 DEF CgBodies, Doing
    <2>2. /\ arms \in Arms(E, S)
          /\ Task.at \in Nat /\ Task.end \in Nat /\ Task.end < Task.at
      BY <2>1, <1>1 DEF TaskBuilt
    <2>3. /\ BodiesLeft(Task) /\ Terminated(gen.lines) /\ GeneratorOk(gen)
          /\ Laid(gen.lines) /\ Owed(Task) \cap Defined(gen.lines) = {}
          /\ arms = <<>> => Len(arms) = 0
          /\ arms # <<>> => /\ Len(Tail(arms)) \in Nat /\ Len(arms) = Len(Tail(arms)) + 1
      BY <2>1, <2>2, ArmsTail, Ahead DEF BodiesLeft, Opens
    <2>4. CASE arms = <<>> /\ Step(Label(gen, Task.end), <<>>)
      BY <2>1, <2>3, <2>4, SwapBodiesDone, SwapStep
    <2>5. CASE /\ arms # <<>>
               /\ Step(Label(gen, Task.at),
                       <<ToBlock(Head(arms).body), ToScope(gen.env), ToJump(Task.end),
                         ToBodies(Tail(arms), Task.at + 1, Task.end)>>)
      BY <2>1, <2>3, <2>5, SwapBodiesNext, SwapStep
    <2> QED BY <2>1, <2>4, <2>5
  <1> QED BY <1>2, <1>3, <1>4

LEMMA FitsReturn ==
    ASSUME Fits, CgReturned \/ CgExit
    PROVE  Fits'
PROOF
  <1>1. CASE CgReturned
    <2>1. Doing("return") /\ Step(StartDeadBlock(Ret(gen, FALSE)), <<>>)
      BY <1>1 DEF CgReturned
    <2> QED BY <2>1, NeutralDoing, SwapReturned, SwapStep
  <1>2. CASE CgExit
    <2> DEFINE n == Len(gen.loops)
               frame == gen.loops[n]
               to == IF Task.st.k = "break" THEN frame.out ELSE frame.next
    <2>1. /\ Doing("make")
          /\ \/ Step(gen, <<>>)
             \/ gen.loops # <<>> /\ Step(StartDeadBlock(Jump(gen, to)), <<>>)
      BY <1>2 DEF CgExit, Making
    <2>2. ASSUME gen.loops # <<>>
          PROVE  to \in LoopRefs(gen.loops)
      <3>1. gen.loops \in Seq(Frames)
        BY <2>1, NeutralDoing DEF Ready, GeneratorOk
      <3>2. n \in 1 .. Len(gen.loops)
        BY <3>1, <2>2, SequenceFacts DEF Sequence
      <3> HIDE DEF n
      <3> QED BY <3>2 DEF LoopRefs
    <2> HIDE DEF to
    <2> QED BY <2>1, <2>2, NeutralDoing, SwapExit, NeutralFew, NeutralStep, SwapStep
  <1> QED BY <1>1, <1>2
-----------------------------------------------------------------------------
(* The work that replaces a piece is built from the parts of that piece.   *)
LEMMA BuiltFrom ==
    ASSUME NEW E, NEW S, NEW T, NEW tasks, tasks \in Seq(T),
           \A t \in T : TaskBuilt(E, S, t)
    PROVE  WorkBuilt(E, S, tasks)
  BY DEF WorkBuilt, Sequence

LEMMA BuiltStep ==
    ASSUME NEW E, NEW S, WorkBuilt(E, S, work), work # <<>>,
           NEW h, NEW new, Step(h, new), WorkBuilt(E, S, new)
    PROVE  WorkBuilt(E, S, work)'
PROOF
  <1> DEFINE next == new \o Tail(work)
  <1>1. work' = next /\ program' = program
    BY DEF Step
  <1>2. Sequence(work) /\ Sequence(new) /\ Len(work) \in Nat /\ Len(new) \in Nat
    BY SequenceFacts DEF WorkBuilt
  <1>3. Sequence(next)
    BY <1>2, Spliced
  <1>4. ASSUME NEW i \in 1 .. Len(next)
        PROVE  TaskBuilt(E, S, next[i])
    <2>1. \/ i \in 1 .. Len(new) /\ next[i] = new[i]
          \/ \E j \in 2 .. Len(work) : next[i] = work[j]
      BY <1>2, SplicedFrom
    <2> HIDE DEF next
    <2>2. \A j \in 2 .. Len(work) : j \in 1 .. Len(work)
      BY <1>2
    <2> QED BY <2>1, <2>2 DEF WorkBuilt
  <1> HIDE DEF next
  <1>5. \A t : TaskBuilt(E, S, t) => TaskBuilt(E, S, t)'
    <2>1. \A f : ParamsOf(f)' = ParamsOf(f)
      <3>1. ASSUME NEW f PROVE Find(f)' = Find(f)
        BY <1>1 DEF Find
      <3> QED BY <3>1 DEF ParamsOf
    <2> QED BY <2>1 DEF TaskBuilt
  <1> QED BY <1>1, <1>3, <1>4, <1>5 DEF WorkBuilt

LEMMA BuiltFirst ==
    ASSUME NEW E, NEW S, WorkBuilt(E, S, work), work # <<>>
    PROVE  TaskBuilt(E, S, Task)
PROOF
  <1>1. Sequence(work) /\ Sequence(<<>>) /\ Len(work) \in Nat
    BY NoTasks, SequenceFacts DEF WorkBuilt
  <1>2. Task = work[1] /\ Len(work) >= 1
    BY <1>1, Spliced DEF Task
  <1> QED BY <1>1, <1>2 DEF WorkBuilt

LEMMA TasksBuilt ==
    ASSUME NEW E, NEW S
    PROVE
    /\ \A op : TaskBuilt(E, S, ToUnary(op))
    /\ \A op, left : TaskBuilt(E, S, ToCombine(op, left))
    /\ \A slot, t : TaskBuilt(E, S, ToStore(slot, t)) /\ TaskBuilt(E, S, ToLoad(slot, t))
    /\ \A l : TaskBuilt(E, S, ToLabel(l)) /\ TaskBuilt(E, S, ToJump(l))
    /\ \A yes, no : TaskBuilt(E, S, ToBranch(yes, no))
    /\ \A l, out, next : TaskBuilt(E, S, ToEnter(l, out, next))
    /\ TaskBuilt(E, S, ToLeave) /\ TaskBuilt(E, S, ToReturn)
    /\ \A i : TaskBuilt(E, S, ToBind(i)) /\ TaskBuilt(E, S, ToScope(i))
    /\ \A st, slot : TaskBuilt(E, S, ToDeclare(st, slot))
    /\ \A x : TaskBuilt(E, S, ToAssign(x)) /\ TaskBuilt(E, S, ToCompare(x))
PROOF
  <1>1. /\ \A op : TaskBuilt(E, S, ToUnary(op))
        /\ \A op, left : TaskBuilt(E, S, ToCombine(op, left))
        /\ \A slot, t : TaskBuilt(E, S, ToStore(slot, t)) /\ TaskBuilt(E, S, ToLoad(slot, t))
    BY DEF TaskBuilt, ToUnary, ToCombine, ToStore, ToLoad
  <1>2. /\ \A l : TaskBuilt(E, S, ToLabel(l)) /\ TaskBuilt(E, S, ToJump(l))
        /\ \A yes, no : TaskBuilt(E, S, ToBranch(yes, no))
        /\ \A l, out, next : TaskBuilt(E, S, ToEnter(l, out, next))
    BY DEF TaskBuilt, ToLabel, ToJump, ToBranch, ToEnter
  <1>3. /\ TaskBuilt(E, S, ToLeave) /\ TaskBuilt(E, S, ToReturn)
        /\ \A i : TaskBuilt(E, S, ToBind(i)) /\ TaskBuilt(E, S, ToScope(i))
    BY DEF TaskBuilt, ToLeave, ToReturn, ToBind, ToScope
  <1>4. /\ \A st, slot : TaskBuilt(E, S, ToDeclare(st, slot))
        /\ \A x : TaskBuilt(E, S, ToAssign(x)) /\ TaskBuilt(E, S, ToCompare(x))
    BY DEF TaskBuilt, ToDeclare, ToAssign, ToCompare
  <1> QED BY <1>1, <1>2, <1>3, <1>4

LEMMA TasksOfExpressions ==
    ASSUME NEW E, NEW S
    PROVE
    /\ \A e \in E \cup {None} : TaskBuilt(E, S, ToEval(e))
    /\ \A e \in E : \A slot :
           e.k = "bin" => TaskBuilt(E, S, ToRight(e)) /\ TaskBuilt(E, S, ToFork(e, slot))
    /\ \A c \in E \cup {None} : \A yes, no : TaskBuilt(E, S, ToTest(c, yes, no))
  BY DEF TaskBuilt, ToEval, ToRight, ToFork, ToTest

LEMMA TasksOfCalls ==
    ASSUME NEW E, NEW S
    PROVE
    /\ \A call \in E : \A i \in 0 .. Len(call.args) : \A vals :
           call.k = "call" /\ Sequence(vals) /\ Len(vals) = Len(call.args)
               => TaskBuilt(E, S, ToPass(call, i, vals))
    /\ \A vals : Sequence(vals) => TaskBuilt(E, S, ToPrint(vals))
    /\ \A f, vals :
           Sequence(vals) /\ (~Variadic(f) => Len(vals) = Len(ParamsOf(f)))
               => TaskBuilt(E, S, ToApply(f, vals))
  BY DEF TaskBuilt, ToPass, ToPrint, ToApply

LEMMA TasksOfStatements ==
    ASSUME NEW E, NEW S
    PROVE
    /\ \A block \in Seq(S) : TaskBuilt(E, S, ToBlock(block))
    /\ \A st \in S : TaskBuilt(E, S, ToMake(st))
    /\ \A st \in S : \A env : st.k = "for" => TaskBuilt(E, S, ToLoop(st, env))
    /\ \A arms \in Arms(E, S) : \A end : TaskBuilt(E, S, ToArms(arms, end))
    /\ \A arms \in Arms(E, S) : TaskBuilt(E, S, ToSwitch(arms))
    /\ \A arms \in Arms(E, S), at \in Nat : \A subject, other :
           TaskBuilt(E, S, ToTests(subject, arms, at, other))
    /\ \A arms \in Arms(E, S), at \in Nat, end \in Nat :
           end < at => TaskBuilt(E, S, ToBodies(arms, at, end))
  BY DEF TaskBuilt, ToBlock, ToMake, ToLoop, ToArms, ToSwitch, ToTests, ToBodies

LEMMA BuiltFew ==
    ASSUME NEW E, NEW S
    PROVE  /\ WorkBuilt(E, S, <<>>)
           /\ \A a : TaskBuilt(E, S, a) => WorkBuilt(E, S, <<a>>)
           /\ \A a, b : TaskBuilt(E, S, a) /\ TaskBuilt(E, S, b) => WorkBuilt(E, S, <<a, b>>)
PROOF
  <1>1. WorkBuilt(E, S, <<>>)
    BY NoTasks DEF WorkBuilt
  <1>2. ASSUME NEW a, TaskBuilt(E, S, a) PROVE WorkBuilt(E, S, <<a>>)
    <2>1. <<a>> \in Seq({a})
      OBVIOUS
    <2>2. <<a>>[1] = a /\ Len(<<a>>) = 1
      OBVIOUS
    <2>3. \A i \in 1 .. 1 : i = 1
      OBVIOUS
    <2> QED BY <2>1, <2>2, <2>3, <1>2 DEF WorkBuilt, Sequence
  <1>3. ASSUME NEW a, NEW b, TaskBuilt(E, S, a), TaskBuilt(E, S, b)
        PROVE  WorkBuilt(E, S, <<a, b>>)
    <2>1. <<a, b>> \in Seq({a, b})
      OBVIOUS
    <2>2. <<a, b>>[1] = a /\ <<a, b>>[2] = b /\ Len(<<a, b>>) = 2
      OBVIOUS
    <2>3. \A i \in 1 .. 2 : i = 1 \/ i = 2
      OBVIOUS
    <2> QED BY <2>1, <2>2, <2>3, <1>3 DEF WorkBuilt, Sequence
  <1> QED BY <1>1, <1>2, <1>3
LEMMA WorksExpression ==
    ASSUME NEW E, NEW S, Built(E, S), WorkBuilt(E, S, work),
           \/ CgLiteral \/ CgName \/ CgUnary \/ CgUnaryOperation
           \/ CgLogic \/ CgFork \/ CgStore \/ CgLoad \/ CgBinary \/ CgRight \/ CgCombine
    PROVE  WorkBuilt(E, S, work)'
PROOF
  <1> USE TasksBuilt, TasksOfExpressions, BuiltFew
  <1>1. ASSUME NEW what, Doing(what) PROVE work # <<>> /\ TaskBuilt(E, S, Task)
    BY <1>1, BuiltFirst DEF Doing
  <1>2. ASSUME NEW h, Step(h, <<>>), work # <<>>
        PROVE  WorkBuilt(E, S, work)'
    BY <1>2, BuiltStep
  <1>3. CASE \/ CgLiteral \/ CgName \/ CgUnaryOperation \/ CgStore \/ CgLoad \/ CgCombine
    <2>1. work # <<>> /\ \E h : Step(h, <<>>)
      BY <1>3 DEF CgLiteral, CgName, CgUnaryOperation, CgStore, CgLoad, CgCombine,
                  Evaluating, Doing
    <2> QED BY <2>1, <1>2
  <1>4. CASE CgUnary
    <2>1. /\ Doing("eval") /\ Task.do = "eval" /\ Task.e.k = "un"
          /\ Step(gen, <<ToEval(Task.e.e), ToUnary(Task.e.op)>>)
      BY <1>4 DEF CgUnary, Evaluating, Doing
    <2>2. Task.e.e \in E
      BY <2>1, <1>1, TaskParts, PartsOfExpression
    <2>3. WorkBuilt(E, S, <<ToEval(Task.e.e), ToUnary(Task.e.op)>>)
      BY <2>2
    <2> QED BY <2>1, <2>3, <1>1, BuiltStep
  <1>5. CASE CgLogic \/ CgBinary
    <2>1. /\ Doing("eval") /\ Task.do = "eval" /\ Task.e.k = "bin"
          /\ \/ Step(Slot(gen), <<ToEval(Task.e.l), ToFork(Task.e, gen.slot)>>)
             \/ Step(gen, <<ToEval(Task.e.l), ToRight(Task.e)>>)
      BY <1>5 DEF CgLogic, CgBinary, Evaluating, Doing
    <2>2. Task.e \in E /\ Task.e.l \in E
      BY <2>1, <1>1, TaskParts, PartsOfExpression
    <2>3. /\ WorkBuilt(E, S, <<ToEval(Task.e.l), ToFork(Task.e, gen.slot)>>)
          /\ WorkBuilt(E, S, <<ToEval(Task.e.l), ToRight(Task.e)>>)
      BY <2>1, <2>2
    <2> QED BY <2>1, <2>3, <1>1, BuiltStep
  <1>6. CASE CgRight
    <2>1. /\ Doing("right") /\ Task.do = "right"
          /\ Step(gen, <<ToEval(Task.e.r), ToCombine(Task.e.op, gen.value)>>)
      BY <1>6 DEF CgRight, Doing
    <2>2. Task.e.r \in E
      BY <2>1, <1>1, TaskParts, PartsOfExpression
    <2>3. WorkBuilt(E, S, <<ToEval(Task.e.r), ToCombine(Task.e.op, gen.value)>>)
      BY <2>2
    <2> QED BY <2>1, <2>3, <1>1, BuiltStep
  <1>7. CASE CgFork
    <2> DEFINE t1 == ToLabel(gen.label)
               t2 == ToEval(Task.e.r)
               t3 == ToStore(Task.slot, "bool")
               t4 == ToJump(gen.label + 1)
               t5 == ToLabel(gen.label + 1)
               t6 == ToLoad(Task.slot, "bool")
    <2>1. /\ Doing("fork") /\ Task.do = "fork"
          /\ \E h : Step(h, <<t1, t2, t3, t4, t5, t6>>)
      BY <1>7 DEF CgFork, Doing
    <2>2. Task.e.r \in E
      BY <2>1, <1>1, TaskParts, PartsOfExpression
    <2>3. \A t \in {t1, t2, t3, t4, t5, t6} : TaskBuilt(E, S, t)
      BY <2>2
    <2> HIDE DEF t1, t2, t3, t4, t5, t6
    <2> DEFINE T == {t1, t2, t3, t4, t5, t6}
               new == <<t1, t2, t3, t4, t5, t6>>
    <2>4. new \in Seq(T)
      OBVIOUS
    <2> HIDE DEF T, new
    <2>5. WorkBuilt(E, S, new)
      BY <2>3, <2>4, BuiltFrom DEF T
    <2> QED BY <2>1, <2>5, <1>1, BuiltStep DEF new
  <1> QED BY <1>3, <1>4, <1>5, <1>6, <1>7

LEMMA ExceptAnywhere ==
    ASSUME NEW V, NEW s \in Seq(V), NEW n, NEW v \in V
    PROVE  LET new == [s EXCEPT ![n] = v] IN new \in Seq(V) /\ Len(new) = Len(s)
PROOF
  <1> DEFINE new == [s EXCEPT ![n] = v]
  <1>1. CASE n \in 1 .. Len(s)
    BY <1>1, ExceptSeq
  <1>2. CASE n \notin 1 .. Len(s)
    <2>1. DOMAIN s = 1 .. Len(s) /\ s = [i \in DOMAIN s |-> s[i]]
      BY LenProperties
    <2>2. new = [i \in DOMAIN s |-> IF i = n THEN v ELSE s[i]]
      OBVIOUS
    <2>3. new = s
      BY <1>2, <2>1, <2>2
    <2> QED BY <2>3
  <1> QED BY <1>1, <1>2

LEMMA WorksCall ==
    ASSUME NEW E, NEW S, Built(E, S), WorkBuilt(E, S, work),
           CgCall \/ CgPass \/ CgPrint \/ CgApply
    PROVE  WorkBuilt(E, S, work)'
PROOF
  <1>1. ASSUME NEW what, Doing(what) PROVE work # <<>> /\ TaskBuilt(E, S, Task)
    BY <1>1, BuiltFirst DEF Doing
  <1>2. CASE CgCall
    <2> DEFINE args == Task.e.args
               none == [i \in 1 .. Len(args) |-> Nothing]
    <2>1. /\ Doing("eval") /\ Task.do = "eval" /\ Task.e.k = "call"
          /\ Step(gen, <<ToPass(Task.e, 0, none)>>)
      BY <1>2 DEF CgCall, Evaluating, Doing
    <2>2. Task.e \in E /\ args \in Seq([p: STRING, e: E])
      <3>1. Task.e \in E
        BY <2>1, <1>1, TaskParts, PartsOfExpression
      <3>2. ExpressionBuilt(E, Task.e)
        BY <3>1 DEF Built
      <3> QED BY <3>1, <3>2, <2>1 DEF ExpressionBuilt
    <2>3. Len(args) \in Nat
      BY <2>2
    <2>4. none \in Seq({Nothing}) /\ Len(none) = Len(args)
      BY <2>3
    <2> HIDE DEF none
    <2>5. Sequence(none) /\ 0 \in 0 .. Len(args)
      BY <2>3, <2>4 DEF Sequence
    <2>6. WorkBuilt(E, S, <<ToPass(Task.e, 0, none)>>)
      BY <2>1, <2>2, <2>4, <2>5, TasksOfCalls, BuiltFew
    <2> QED BY <2>1, <2>6, <1>1, BuiltStep
  <1>3. CASE CgPass
    <2> DEFINE call == Task.call
               i == Task.i
               vals == IF i = 0 THEN Task.vals ELSE CgArgument(Task.vals, call, i, gen.value)
    <2>1. /\ Doing("pass") /\ Task.do = "pass"
          /\ \/ /\ i < Len(call.args)
                /\ Step(gen, <<ToEval(call.args[i + 1].e), ToPass(call, i + 1, vals)>>)
             \/ Variadic(call.f) /\ Step(gen, <<ToPrint(vals), ToApply(call.f, <<>>)>>)
             \/ ~Variadic(call.f) /\ Step(gen, <<ToApply(call.f, vals)>>)
      BY <1>3 DEF CgPass, Doing
    <2>2. /\ call \in E /\ call.k = "call" /\ i \in 0 .. Len(call.args)
          /\ Sequence(Task.vals) /\ Len(Task.vals) = Len(call.args)
          /\ call.args \in Seq([p: STRING, e: E])
          /\ ~Variadic(call.f) => Len(call.args) = Len(ParamsOf(call.f))
      <3>1. /\ call \in E /\ call.k = "call" /\ i \in 0 .. Len(call.args)
            /\ Sequence(Task.vals) /\ Len(Task.vals) = Len(call.args)
        BY <2>1, <1>1 DEF TaskBuilt
      <3>2. ExpressionBuilt(E, call)
        BY <3>1 DEF Built
      <3> QED BY <3>1, <3>2 DEF ExpressionBuilt
    <2>3. Sequence(vals) /\ Len(vals) = Len(call.args)
      <3>1. PICK V : Task.vals \in Seq(V)
        BY <2>2 DEF Sequence
      <3> DEFINE old == Task.vals
                 v == gen.value
                 W == V \cup {v}
                 to == Target(call, i)
                 new == [old EXCEPT ![to] = v]
      <3>2. old \in Seq(W) /\ v \in W /\ Len(old) = Len(call.args)
        BY <3>1, <2>2
      <3>3. vals = old \/ vals = new
        BY DEF CgArgument
      <3> HIDE DEF old, v, W, to, vals
      <3>4. new \in Seq(W) /\ Len(new) = Len(old)
        BY <3>2, ExceptAnywhere
      <3> HIDE DEF new
      <3> QED BY <3>2, <3>3, <3>4 DEF Sequence
    <2> HIDE DEF vals
    <2>4. ASSUME i < Len(call.args)
          PROVE  WorkBuilt(E, S, <<ToEval(call.args[i + 1].e), ToPass(call, i + 1, vals)>>)
      <3>1. Len(call.args) \in Nat
        BY <2>2
      <3>2. i + 1 \in 1 .. Len(call.args) /\ i + 1 \in 0 .. Len(call.args)
        BY <2>2, <2>4, <3>1
      <3>3. call.args[i + 1] \in [p: STRING, e: E]
        BY <3>2, <2>2, ElementOfSeq
      <3>4. call.args[i + 1].e \in E
        BY <3>3
      <3>5. /\ TaskBuilt(E, S, ToEval(call.args[i + 1].e))
            /\ TaskBuilt(E, S, ToPass(call, i + 1, vals))
        BY <3>2, <3>4, <2>2, <2>3, TasksOfExpressions, TasksOfCalls
      <3> QED BY <3>5, BuiltFew
    <2>5. Variadic(call.f) => WorkBuilt(E, S, <<ToPrint(vals), ToApply(call.f, <<>>)>>)
      <3>1. Sequence(<<>>)
        BY NoTasks
      <3> QED BY <3>1, <2>3, TasksOfCalls, BuiltFew
    <2>6. ~Variadic(call.f) => WorkBuilt(E, S, <<ToApply(call.f, vals)>>)
      BY <2>2, <2>3, TasksOfCalls, BuiltFew
    <2> QED BY <2>1, <2>4, <2>5, <2>6, <1>1, BuiltStep
  <1>4. CASE CgPrint
    <2>1. /\ Doing("print") /\ Task.do = "print"
          /\ \/ Step(gen, <<>>)
             \/ Task.vals # <<>>
                /\ \E h : Step(h, <<ToPrint(Tail(Task.vals))>>)
      BY <1>4 DEF CgPrint, Doing
    <2>2. Task.vals # <<>> => Sequence(Tail(Task.vals))
      BY <2>1, <1>1 DEF TaskBuilt, Sequence
    <2>3. Task.vals # <<>> => WorkBuilt(E, S, <<ToPrint(Tail(Task.vals))>>)
      BY <2>2, TasksOfCalls, BuiltFew
    <2> QED BY <2>1, <2>3, <1>1, BuiltFew, BuiltStep
  <1>5. CASE CgApply
    <2>1. Doing("apply") /\ \E h : Step(h, <<>>)
      BY <1>5 DEF CgApply
    <2> QED BY <2>1, <1>1, BuiltFew, BuiltStep
  <1> QED BY <1>2, <1>3, <1>4, <1>5

LEMMA WorksLabels ==
    ASSUME NEW E, NEW S, Built(E, S), WorkBuilt(E, S, work),
           \/ CgLabel \/ CgJump \/ CgBranch \/ CgTest \/ CgEnter \/ CgLeave
           \/ CgBind \/ CgScope \/ CgDeclare \/ CgAssigned \/ CgCompare
           \/ CgReturned \/ CgExit
    PROVE  WorkBuilt(E, S, work)'
PROOF
  <1> USE TasksBuilt, TasksOfExpressions, BuiltFew
  <1>1. CASE CgTest
    <2>1. /\ work # <<>> /\ Task.do = "test"
          /\ \/ \E h : Step(h, <<>>)
             \/ Step(gen, <<ToEval(Task.c), ToBranch(Task.yes, Task.no)>>)
      BY <1>1 DEF CgTest, Doing
    <2>2. Task.c \in E \cup {None}
      BY <2>1, BuiltFirst, TaskParts
    <2>3. WorkBuilt(E, S, <<ToEval(Task.c), ToBranch(Task.yes, Task.no)>>)
      BY <2>2
    <2> QED BY <2>1, <2>3, BuiltStep
  <1>2. CASE CgBind
    <2>1. /\ work # <<>>
          /\ \/ Step(gen, <<>>)
             \/ \E h : Step(h, <<ToBind(Task.i + 1)>>)
      BY <1>2 DEF CgBind, Doing
    <2> QED BY <2>1, BuiltStep
  <1>3. CASE \/ CgLabel \/ CgJump \/ CgBranch \/ CgEnter \/ CgLeave \/ CgScope \/ CgDeclare
             \/ CgAssigned \/ CgCompare \/ CgReturned \/ CgExit
    <2>1. work # <<>> /\ \E h : Step(h, <<>>)
      BY <1>3 DEF CgLabel, CgJump, CgBranch, CgEnter, CgLeave, CgScope, CgDeclare, CgAssigned,
                  CgCompare, CgReturned, CgExit, Making, Doing
    <2> QED BY <2>1, BuiltStep
  <1> QED BY <1>1, <1>2, <1>3
LEMMA MakingBuilt ==
    ASSUME NEW E, NEW S, Built(E, S), WorkBuilt(E, S, work), NEW k, Making(k)
    PROVE  /\ work # <<>> /\ Task.st \in S /\ Task.st.k = k /\ StatementBuilt(E, S, Task.st)
PROOF
  <1>1. work # <<>> /\ Task.do = "make" /\ Task.st.k = k
    BY DEF Making, Doing
  <1>2. Task.st \in S
    BY <1>1, BuiltFirst, TaskParts
  <1> QED BY <1>1, <1>2 DEF Built

LEMMA WorksStatements ==
    ASSUME NEW E, NEW S, Built(E, S), WorkBuilt(E, S, work),
           CgBlock \/ CgVar \/ CgAssign \/ CgDo \/ CgFor \/ CgIf \/ CgSwitch \/ CgReturn
    PROVE  WorkBuilt(E, S, work)'
PROOF
  <1> USE TasksBuilt, TasksOfExpressions, TasksOfStatements, BuiltFew
  <1>1. CASE CgBlock
    <2>1. /\ work # <<>> /\ Task.do = "block"
          /\ \/ Step(gen, <<>>)
             \/ /\ Task.block # <<>>
                /\ Step(gen, <<ToMake(Head(Task.block)), ToBlock(Tail(Task.block))>>)
      BY <1>1 DEF CgBlock, Doing
    <2>2. Task.block \in Seq(S)
      BY <2>1, BuiltFirst, TaskParts
    <2>3. Task.block # <<>> => Head(Task.block) \in S /\ Tail(Task.block) \in Seq(S)
      BY <2>2
    <2>4. Task.block # <<>> =>
              WorkBuilt(E, S, <<ToMake(Head(Task.block)), ToBlock(Tail(Task.block))>>)
      BY <2>3
    <2> QED BY <2>1, <2>4, BuiltStep
  <1>2. CASE CgVar
    <2>1. /\ Making("var")
          /\ \/ \E h, st, slot : Step(h, <<ToDeclare(st, slot)>>)
             \/ \E h, st, slot : Step(h, <<ToEval(Task.st.e), ToDeclare(st, slot)>>)
      BY <1>2 DEF CgVar
    <2>2. work # <<>> /\ Task.st.e \in E \cup {None}
      BY <2>1, MakingBuilt DEF StatementBuilt
    <2>3. \A st, slot : /\ WorkBuilt(E, S, <<ToDeclare(st, slot)>>)
                        /\ WorkBuilt(E, S, <<ToEval(Task.st.e), ToDeclare(st, slot)>>)
      BY <2>2
    <2> QED BY <2>1, <2>2, <2>3, BuiltStep
  <1>3. CASE CgAssign
    <2>1. Making("assign") /\ Step(gen, <<ToEval(Task.st.e), ToAssign(Task.st.x)>>)
      BY <1>3 DEF CgAssign
    <2>2. work # <<>> /\ Task.st.e \in E \cup {None}
      BY <2>1, MakingBuilt DEF StatementBuilt
    <2>3. WorkBuilt(E, S, <<ToEval(Task.st.e), ToAssign(Task.st.x)>>)
      BY <2>2
    <2> QED BY <2>1, <2>2, <2>3, BuiltStep
  <1>4. CASE CgDo
    <2>1. Making("do") /\ Step(gen, <<ToEval(Task.st.e)>>)
      BY <1>4 DEF CgDo
    <2>2. work # <<>> /\ Task.st.e \in E \cup {None}
      BY <2>1, MakingBuilt DEF StatementBuilt
    <2>3. WorkBuilt(E, S, <<ToEval(Task.st.e)>>)
      BY <2>2
    <2> QED BY <2>1, <2>2, <2>3, BuiltStep
  <1>5. CASE CgFor
    <2>1. Making("for") /\ Step(gen, <<ToBlock(Task.st.init), ToLoop(Task.st, gen.env)>>)
      BY <1>5 DEF CgFor
    <2>2. work # <<>> /\ Task.st.init \in Seq(S) /\ Task.st \in S /\ Task.st.k = "for"
      BY <2>1, MakingBuilt DEF StatementBuilt
    <2>3. TaskBuilt(E, S, ToBlock(Task.st.init)) /\ TaskBuilt(E, S, ToLoop(Task.st, gen.env))
      BY <2>2
    <2>4. WorkBuilt(E, S, <<ToBlock(Task.st.init), ToLoop(Task.st, gen.env)>>)
      BY <2>3
    <2> QED BY <2>1, <2>2, <2>4, BuiltStep
  <1>6. CASE CgIf
    <2> DEFINE t1 == ToArms(Task.st.arms, gen.label)
               t2 == ToJump(gen.label)
               t3 == ToLabel(gen.label)
               T == {t1, t2, t3}
               new == <<t1, t2, t3>>
    <2>1. Making("if") /\ \E h : Step(h, new)
      BY <1>6 DEF CgIf
    <2>2. work # <<>> /\ Task.st.arms \in Arms(E, S)
      BY <2>1, MakingBuilt DEF StatementBuilt, Arms
    <2>3. \A t \in T : TaskBuilt(E, S, t)
      BY <2>2
    <2> HIDE DEF t1, t2, t3
    <2>4. new \in Seq(T)
      OBVIOUS
    <2> HIDE DEF T, new
    <2>5. WorkBuilt(E, S, new)
      BY <2>3, <2>4, BuiltFrom
    <2> QED BY <2>1, <2>2, <2>5, BuiltStep
  <1>7. CASE CgSwitch
    <2>1. Making("switch") /\ Step(gen, <<ToEval(Task.st.e), ToSwitch(Task.st.arms)>>)
      BY <1>7 DEF CgSwitch
    <2>2. work # <<>> /\ Task.st.e \in E \cup {None} /\ Task.st.arms \in Arms(E, S)
      BY <2>1, MakingBuilt DEF StatementBuilt, Arms
    <2>3. TaskBuilt(E, S, ToEval(Task.st.e)) /\ TaskBuilt(E, S, ToSwitch(Task.st.arms))
      BY <2>2
    <2>4. WorkBuilt(E, S, <<ToEval(Task.st.e), ToSwitch(Task.st.arms)>>)
      BY <2>3
    <2> QED BY <2>1, <2>2, <2>4, BuiltStep
  <1>8. CASE CgReturn
    <2>1. /\ Making("return")
          /\ \/ \E h : Step(h, <<ToReturn>>)
             \/ Step(gen, <<ToEval(Task.st.e), ToReturn>>)
      BY <1>8 DEF CgReturn
    <2>2. work # <<>> /\ Task.st.e \in E \cup {None}
      BY <2>1, MakingBuilt DEF StatementBuilt
    <2>3. WorkBuilt(E, S, <<ToReturn>>) /\ WorkBuilt(E, S, <<ToEval(Task.st.e), ToReturn>>)
      BY <2>2
    <2> QED BY <2>1, <2>2, <2>3, BuiltStep
  <1> QED BY <1>1, <1>2, <1>3, <1>4, <1>5, <1>6, <1>7, <1>8

LEMMA WorksLoop ==
    ASSUME NEW E, NEW S, Built(E, S), WorkBuilt(E, S, work), CgWhile \/ CgLoop
    PROVE  WorkBuilt(E, S, work)'
PROOF
  <1> USE TasksBuilt, TasksOfExpressions, TasksOfStatements
  <1> DEFINE cond == gen.label
             t1(end) == ToTest(Task.st.c, cond + 1, end)
             t2(end, next) == ToEnter(cond + 1, end, next)
             t3 == ToBlock(Task.st.body)
             t4 == ToLeave
             t5 == ToScope(gen.env)
             t6(l) == ToJump(l)
             t7(l) == ToLabel(l)
             t8 == ToBlock(Task.st.step)
             t9 == ToScope(Task.env)
  <1>1. CASE CgWhile
    <2> DEFINE a1 == t1(cond + 2)
               a2 == t2(cond + 2, cond)
               a6 == t6(cond)
               a7 == t7(cond + 2)
               T == {a1, a2, t3, t4, t5, a6, a7}
               new == <<a1, a2, t3, t4, t5, a6, a7>>
    <2>1. Making("while") /\ \E h : Step(h, new)
      BY <1>1 DEF CgWhile
    <2>2. work # <<>> /\ Task.st.c \in E \cup {None} /\ Task.st.body \in Seq(S)
      BY <2>1, MakingBuilt DEF StatementBuilt
    <2>3. \A t \in T : TaskBuilt(E, S, t)
      BY <2>2
    <2> HIDE DEF a1, a2, t3, t4, t5, a6, a7
    <2>4. new \in Seq(T)
      OBVIOUS
    <2> HIDE DEF T, new
    <2>5. WorkBuilt(E, S, new)
      BY <2>3, <2>4, BuiltFrom
    <2> QED BY <2>1, <2>2, <2>5, BuiltStep
  <1>2. CASE CgLoop
    <2> DEFINE a1 == t1(cond + 3)
               a2 == t2(cond + 3, cond + 2)
               a6 == t6(cond + 2)
               a7 == t7(cond + 2)
               b6 == t6(cond)
               b7 == t7(cond + 3)
               T == {a1, a2, t3, t4, t5, a6, a7, t8, b6, b7, t9}
               new == <<a1, a2, t3, t4, t5, a6, a7, t8, b6, b7, t9>>
    <2>1. work # <<>> /\ Task.do = "loop" /\ \E h : Step(h, new)
      BY <1>2 DEF CgLoop, Doing
    <2>2. Task.st \in S /\ Task.st.k = "for"
      BY <2>1, BuiltFirst, TaskParts
    <2>3. StatementBuilt(E, S, Task.st)
      BY <2>2 DEF Built
    <2>4. Task.st.c \in E \cup {None} /\ Task.st.body \in Seq(S) /\ Task.st.step \in Seq(S)
      BY <2>2, <2>3 DEF StatementBuilt
    <2>5. \A t \in T : TaskBuilt(E, S, t)
      BY <2>4
    <2> HIDE DEF a1, a2, t3, t4, t5, a6, a7, t8, b6, b7, t9
    <2>6. new \in Seq(T)
      OBVIOUS
    <2> HIDE DEF T, new
    <2>7. WorkBuilt(E, S, new)
      BY <2>5, <2>6, BuiltFrom
    <2> QED BY <2>1, <2>7, BuiltStep
  <1> QED BY <1>1, <1>2

LEMMA WorksArms ==
    ASSUME NEW E, NEW S, Built(E, S), WorkBuilt(E, S, work), CgArms
    PROVE  WorkBuilt(E, S, work)'
PROOF
  <1> USE TasksBuilt, TasksOfExpressions, TasksOfStatements, BuiltFew
  <1> DEFINE arm == Head(Task.arms)
             t1 == ToEval(arm.c)
             t2 == ToBranch(gen.label, gen.label + 1)
             t3 == ToLabel(gen.label)
             t4 == ToBlock(arm.body)
             t5 == ToScope(gen.env)
             t6 == ToJump(Task.end)
             t7 == ToLabel(gen.label + 1)
             t8 == ToArms(Tail(Task.arms), Task.end)
             T == {t1, t2, t3, t4, t5, t6, t7, t8}
             new == <<t1, t2, t3, t4, t5, t6, t7, t8>>
  <1>1. /\ work # <<>> /\ Task.do = "arms"
        /\ \/ Step(gen, <<>>)
           \/ Task.arms # <<>> /\ Step(gen, <<t4, t5>>)
           \/ Task.arms # <<>> /\ \E h : Step(h, new)
    BY DEF CgArms, Doing
  <1>2. Task.arms \in Arms(E, S)
    BY <1>1, BuiltFirst, TaskParts
  <1>3. ASSUME Task.arms # <<>>
        PROVE  \A t \in T : TaskBuilt(E, S, t)
    <2>1. arm.c \in E \cup {None} /\ arm.body \in Seq(S) /\ Tail(Task.arms) \in Arms(E, S)
      BY <1>2, <1>3, ArmsTail
    <2> QED BY <2>1
  <1> HIDE DEF t1, t2, t3, t4, t5, t6, t7, t8
  <1>4. new \in Seq(T) /\ t4 \in T /\ t5 \in T
    OBVIOUS
  <1> HIDE DEF T, new
  <1>5. Task.arms # <<>> => WorkBuilt(E, S, new) /\ WorkBuilt(E, S, <<t4, t5>>)
    BY <1>3, <1>4, BuiltFrom
  <1> QED BY <1>1, <1>5, BuiltStep

LEMMA WorksSwitch ==
    ASSUME NEW E, NEW S, Built(E, S), Fits, WorkBuilt(E, S, work),
           CgCases \/ CgTests \/ CgBodies
    PROVE  WorkBuilt(E, S, work)'
PROOF
  <1> USE TasksBuilt, TasksOfExpressions, TasksOfStatements, BuiltFew
  <1> DEFINE arms == Task.arms
  <1>1. CASE CgCases
    <2> DEFINE at == gen.label + 1
    <2>1. /\ Doing("switch") /\ work # <<>> /\ Task.do = "switch"
          /\ \E h, other : Step(h, <<ToTests(gen.value, arms, at, other),
                                     ToBodies(arms, at, gen.label)>>)
      BY <1>1 DEF CgCases, Doing
    <2>2. arms \in Arms(E, S)
      BY <2>1, BuiltFirst, TaskParts
    <2>3. gen.label \in Nat /\ at \in Nat /\ gen.label < at
      BY <2>1, NeutralDoing DEF Ready, GeneratorOk
    <2> HIDE DEF at, arms
    <2>4. \A other : WorkBuilt(E, S, <<ToTests(gen.value, arms, at, other),
                                       ToBodies(arms, at, gen.label)>>)
      BY <2>2, <2>3
    <2> QED BY <2>1, <2>4, BuiltStep
  <1>2. CASE CgTests
    <2> DEFINE rest == ToTests(Task.subject, Tail(arms), Task.at + 1, Task.other)
               t1 == ToEval(Head(arms).c)
               t2 == ToCompare(Task.subject)
               t3 == ToBranch(Task.at, Task.other)
               t4 == ToBranch(Task.at, gen.label)
               t5 == ToLabel(gen.label)
               T == {rest, t1, t2, t3, t4, t5}
    <2>1. /\ work # <<>> /\ Task.do = "tests"
          /\ \/ \E h : Step(h, <<>>)
             \/ arms # <<>> /\ Step(gen, <<rest>>)
             \/ arms # <<>> /\ Step(gen, <<t1, t2, t3>>)
             \/ arms # <<>> /\ Step(Take(gen, 1), <<t1, t2, t4>> \o <<t5, rest>>)
      BY <1>2 DEF CgTests, Doing
    <2>2. arms \in Arms(E, S) /\ Task.at \in Nat
      BY <2>1, BuiltFirst, TaskParts
    <2>3. ASSUME arms # <<>>
          PROVE  \A t \in T : TaskBuilt(E, S, t)
      <3>1. Head(arms).c \in E \cup {None} /\ Tail(arms) \in Arms(E, S)
        BY <2>2, <2>3, ArmsTail
      <3>2. Task.at + 1 \in Nat
        BY <2>2
      <3>3. TaskBuilt(E, S, rest) /\ TaskBuilt(E, S, t1)
        BY <3>1, <3>2
      <3> QED BY <3>3
    <2> HIDE DEF rest, t1, t2, t3, t4, t5, arms
    <2>4. <<rest>> \in Seq(T) /\ <<t1, t2, t3>> \in Seq(T) /\ <<t1, t2, t4, t5, rest>> \in Seq(T)
      OBVIOUS
    <2>5. <<t1, t2, t4>> \o <<t5, rest>> = <<t1, t2, t4, t5, rest>>
      BY ThreeAndTwo
    <2> HIDE DEF T
    <2>6. arms # <<>> => /\ WorkBuilt(E, S, <<rest>>) /\ WorkBuilt(E, S, <<t1, t2, t3>>)
                         /\ WorkBuilt(E, S, <<t1, t2, t4>> \o <<t5, rest>>)
      BY <2>3, <2>4, <2>5, BuiltFrom
    <2> QED BY <2>1, <2>6, BuiltStep
  <1>3. CASE CgBodies
    <2> DEFINE t1 == ToBlock(Head(arms).body)
               t2 == ToScope(gen.env)
               t3 == ToJump(Task.end)
               t4 == ToBodies(Tail(arms), Task.at + 1, Task.end)
               T == {t1, t2, t3, t4}
               new == <<t1, t2, t3, t4>>
    <2>1. /\ work # <<>> /\ Task.do = "bodies"
          /\ \/ \E h : Step(h, <<>>)
             \/ arms # <<>> /\ \E h : Step(h, new)
      BY <1>3 DEF CgBodies, Doing
    <2>2. arms \in Arms(E, S) /\ Task.at \in Nat /\ Task.end \in Nat /\ Task.end < Task.at
      BY <2>1, BuiltFirst, TaskParts
    <2>3. ASSUME arms # <<>>
          PROVE  \A t \in T : TaskBuilt(E, S, t)
      <3>1. Head(arms).body \in Seq(S) /\ Tail(arms) \in Arms(E, S)
        BY <2>2, <2>3, ArmsTail
      <3>2. Task.at + 1 \in Nat /\ Task.end < Task.at + 1
        BY <2>2
      <3>3. TaskBuilt(E, S, t1) /\ TaskBuilt(E, S, t4)
        BY <3>1, <3>2, <2>2
      <3> QED BY <3>3
    <2> HIDE DEF t1, t2, t3, t4, arms
    <2>4. new \in Seq(T)
      OBVIOUS
    <2> HIDE DEF T, new
    <2>5. arms # <<>> => WorkBuilt(E, S, new)
      BY <2>3, <2>4, BuiltFrom
    <2> QED BY <2>1, <2>5, BuiltStep
  <1> QED BY <1>1, <1>2, <1>3-----------------------------------------------------------------------------
(* The functions of a module, one after the other.                         *)
LEMMA Closing ==
    ASSUME Fits, work = <<>>
    PROVE  BlocksClosed(Ended.lines)
PROOF
  <1> DEFINE v == Missing(ResultOf(Unit.name))
             g == Holding(gen, v)
             line == [op |-> "ret", from |-> g.value, last |-> TRUE]
             h == Emit(g, line)
  <1>1. /\ Ready(gen) /\ Targeted(gen.lines) \subseteq Defined(gen.lines)
    BY NoTasks DEF Fits, Shape, Ready
  <1> HIDE DEF v
  <1>2. Onward(gen, g)
    BY <1>1, OnwardHolding
  <1> HIDE DEF g
  <1>3. IsTerminator(line) /\ Targets(line) = {} /\ line.op = "ret"
    BY DEF IsTerminator, Terminators, Targets
  <1> HIDE DEF line
  <1>4. /\ Laid(h.lines) /\ Terminated(h.lines)
        /\ Defined(h.lines) = Defined(g.lines)
        /\ Targeted(h.lines) = Targeted(g.lines) \cup Targets(line)
    BY <1>2, <1>3, EmitTerminator DEF Onward
  <1>5. h.lines = Append(g.lines, line)
    BY <1>2, EmitFields DEF Onward, Ready, GeneratorOk
  <1> HIDE DEF h
  <1> DEFINE lines == h.lines
  <1>6. lines # <<>> /\ lines[Len(lines)] = line
    <2>1. Sequence(g.lines)
      BY <1>2 DEF Onward, Ready, GeneratorOk
    <2>2. /\ Len(Append(g.lines, line)) = Len(g.lines) + 1
          /\ Append(g.lines, line)[Len(g.lines) + 1] = line
          /\ Append(g.lines, line) # <<>>
      BY <2>1, AppendIsSequence
    <2> QED BY <2>2, <1>5
  <1>7. Targeted(lines) \subseteq Defined(lines)
    BY <1>1, <1>2, <1>3, <1>4 DEF Onward
  <1>8. ASSUME NEW i \in 1 .. Len(lines), NEW l \in Targets(lines[i])
        PROVE  \E j \in 1 .. Len(lines) : lines[j].op = "label" /\ lines[j].to = l
    <2>1. l \in Targeted(lines)
      BY DEF Targeted
    <2>2. l \in Defined(lines)
      BY <2>1, <1>7
    <2> QED BY <2>2 DEF Defined, IsLabel
  <1> HIDE DEF lines
  <1>9. BlocksClosed(lines)
    BY <1>3, <1>4, <1>6, <1>8 DEF BlocksClosed, Laid, IsLabel, IsTerminator, lines
  <1>10. Ended = h
    BY DEF Ended, Ret, h, line, g, v
  <1> QED BY <1>9, <1>10 DEF lines

LEMMA FreshShape ==
    ASSUME NEW sites, NEW new, NeutralTasks(new)
    PROVE  Shape(Fresh(sites), new)
PROOF
  <1> DEFINE g == Fresh(sites)
  <1>1. Generator(g) /\ g.lines = <<>> /\ g.label = 1 /\ g.temp = 0 /\ g.loops = <<>>
    BY DEF Fresh, Generator
  <1> HIDE DEF g
  <1>2. /\ Sequence(g.lines) /\ Laid(g.lines) /\ ~Terminated(g.lines)
        /\ Defined(g.lines) = {} /\ Targeted(g.lines) = {}
    BY <1>1, NoTasks DEF Laid, Terminated, Defined, Targeted
  <1>3. LoopRefs(g.loops) = {} /\ g.loops \in Seq(Frames)
    BY <1>1 DEF LoopRefs
  <1>4. Sequence(new) /\ Len(new) \in Nat /\ (new = <<>> <=> Len(new) = 0)
    BY SequenceFacts DEF NeutralTasks
  <1>5. \A i \in 1 .. Len(new) : /\ ~Opens(new[i]) /\ ~Ends(new[i])
                                 /\ Owed(new[i]) = {} /\ Refs(new[i]) = {}
    BY NeutralTask DEF NeutralTasks
  <1>10. Owes(new) = {} /\ Referred(new) = {} /\ Apart(new)
    BY <1>5 DEF Owes, Referred, Apart
  <1>6. ~(new # <<>> /\ Opens(new[1]))
    BY <1>4, <1>5
  <1>7. \A i \in 1 .. Len(new) : Ends(new[i]) <=> i < Len(new) /\ Opens(new[i + 1])
    BY <1>4, <1>5
  <1>8. GeneratorOk(g)
    BY <1>1, <1>2, <1>3 DEF GeneratorOk
  <1>9. Shape(g, new)
    BY <1>1, <1>2, <1>3, <1>4, <1>5, <1>6, <1>7, <1>8, <1>10 DEF Shape
  <1> QED BY <1>9 DEF g

LEMMA UnitsFacts ==
    ASSUME NEW E, NEW S, Built(E, S)
    PROVE  /\ Len(Units) \in Nat /\ Len(Units) >= 1
           /\ \A i \in 1 .. Len(Units) : Units[i].body \in Seq(S)
PROOF
  <1>1. Sequence(program.funs)
    BY DEF Built, Sequence
  <1>2. Len(Units) = Len(program.funs) + 1 /\ Len(program.funs) \in Nat
    BY <1>1, AppendIsSequence DEF Units
  <1> QED BY <1>2 DEF Built

LEMMA Framed ==
    ASSUME NEW E, NEW S, Built(E, S), program' = program
    PROVE  Built(E, S)' /\ Units' = Units
PROOF
  <1>1. Units' = Units
    BY DEF Units
  <1>2. \A f : ParamsOf(f)' = ParamsOf(f)
    <2>1. ASSUME NEW f PROVE Find(f)' = Find(f)
      BY DEF Find
    <2> QED BY <2>1 DEF ParamsOf
  <1>3. \A e : ExpressionBuilt(E, e) => ExpressionBuilt(E, e)'
    BY <1>2 DEF ExpressionBuilt
  <1>4. \A st : StatementBuilt(E, S, st) => StatementBuilt(E, S, st)'
    BY DEF StatementBuilt
  <1> QED BY <1>1, <1>3, <1>4 DEF Built

(* The functions before the n-th are written, each of closed blocks.       *)
Emitted(n) ==
    /\ DOMAIN code = {Units[i].name : i \in 1 .. n}
    /\ \A f \in DOMAIN code : BlocksClosed(code[f])

(* The inductive invariant: what is written, and what is left to do, of    *)
(* the function under way fit together, and both come from the program.    *)
Generating(E, S) ==
    /\ Built(E, S)
    /\ stage = "generating" =>
           /\ unit \in 1 .. Len(Units) /\ Emitted(unit - 1)
           /\ Fits /\ WorkBuilt(E, S, work)
    /\ stage = "written" => Emitted(Len(Units))
GeneratesBlocks == \E E, S : Generating(E, S)

LEMMA BuiltOn ==
    ASSUME NEW E, NEW S, NEW t, TaskBuilt(E, S, t), program' = program
    PROVE  TaskBuilt(E, S, t)'
PROOF
  <1>1. \A f : ParamsOf(f)' = ParamsOf(f)
    <2>1. ASSUME NEW f PROVE Find(f)' = Find(f)
      BY DEF Find
    <2> QED BY <2>1 DEF ParamsOf
  <1> QED BY <1>1 DEF TaskBuilt

LEMMA Opened ==
    ASSUME NEW E, NEW S, Built(E, S), NEW i \in 1 .. Len(Units), NEW sites,
           OpenUnit(i, sites), program' = program
    PROVE  Fits' /\ WorkBuilt(E, S, work)' /\ unit' = i
PROOF
  <1> DEFINE new == <<ToBind(1), ToBlock(Units[i].body)>>
  <1>1. gen' = Fresh(sites) /\ work' = new /\ unit' = i
    BY DEF OpenUnit
  <1>2. NeutralTasks(new)
    BY TasksNeutral, NeutralFew
  <1>3. Fits'
    BY <1>1, <1>2, FreshShape DEF Fits
  <1>4. TaskBuilt(E, S, ToBind(1)) /\ TaskBuilt(E, S, ToBlock(Units[i].body))
    BY UnitsFacts, TasksBuilt, TasksOfStatements
  <1>5. WorkBuilt(E, S, new)
    BY <1>4, BuiltFew
  <1> HIDE DEF new
  <1>6. WorkBuilt(E, S, work)'
    BY <1>1, <1>5, BuiltOn DEF WorkBuilt
  <1> QED BY <1>1, <1>3, <1>6

LEMMA EmittedMore ==
    ASSUME NEW n \in Nat, Emitted(n), NEW lines, BlocksClosed(lines),
           code' = With(code, Units[n + 1].name, lines), Units' = Units
    PROVE  Emitted(n + 1)'
PROOF
  <1>1. DOMAIN code' = DOMAIN code \cup {Units[n + 1].name}
    BY DEF With
  <1>2. \A i : i \in 1 .. n + 1 <=> i \in 1 .. n \/ i = n + 1
    OBVIOUS
  <1>3. {Units[i].name : i \in 1 .. n + 1} = {Units[i].name : i \in 1 .. n} \cup {Units[n + 1].name}
    BY <1>2
  <1>4. \A f \in DOMAIN code' : BlocksClosed(code'[f])
    BY DEF With, Emitted
  <1> QED BY <1>1, <1>3, <1>4 DEF Emitted

LEMMA GeneratesOn ==
    ASSUME NEW E, NEW S, Generating(E, S), stage = "generating",
           UNCHANGED <<program, stage, typing, code, unit>>, Fits', WorkBuilt(E, S, work)'
    PROVE  Generating(E, S)'
PROOF
  <1>1. program' = program /\ stage' = stage /\ code' = code /\ unit' = unit
    OBVIOUS
  <1>2. Built(E, S)' /\ Units' = Units
    BY <1>1, Framed DEF Generating
  <1>3. Emitted(unit - 1)'
    BY <1>1, <1>2 DEF Generating, Emitted
  <1> QED BY <1>1, <1>2, <1>3 DEF Generating
LEMMA Working ==
    ASSUME NEW E, NEW S, Generating(E, S),
           \/ CgBind
           \/ CgLiteral \/ CgName \/ CgUnary \/ CgUnaryOperation
           \/ CgLogic \/ CgFork \/ CgStore \/ CgLoad \/ CgBinary \/ CgRight \/ CgCombine
           \/ CgCall \/ CgPass \/ CgPrint \/ CgApply
           \/ CgLabel \/ CgJump \/ CgBranch \/ CgTest \/ CgEnter \/ CgLeave
           \/ CgBlock \/ CgScope \/ CgVar \/ CgDeclare \/ CgAssign \/ CgAssigned
           \/ CgDo \/ CgWhile \/ CgFor \/ CgLoop \/ CgIf \/ CgArms
           \/ CgSwitch \/ CgCases \/ CgTests \/ CgCompare \/ CgBodies
           \/ CgReturn \/ CgReturned \/ CgExit
    PROVE  Generating(E, S)'
PROOF
  <1>1. stage = "generating"
    BY DEF CgBind, CgLiteral, CgName, CgUnary, CgUnaryOperation, CgLogic, CgFork, CgStore,
           CgLoad, CgBinary, CgRight, CgCombine, CgCall, CgPass, CgPrint, CgApply, CgLabel,
           CgJump, CgBranch, CgTest, CgEnter, CgLeave, CgBlock, CgScope, CgVar, CgDeclare,
           CgAssign, CgAssigned, CgDo, CgWhile, CgFor, CgLoop, CgIf, CgArms, CgSwitch,
           CgCases, CgTests, CgCompare, CgBodies, CgReturn, CgReturned, CgExit,
           Evaluating, Making, Doing
  <1>2. Built(E, S) /\ Fits /\ WorkBuilt(E, S, work)
    BY <1>1 DEF Generating
  <1>3. Fits'
    BY <1>2, FitsLeaf, FitsBinary, FitsCall, FitsSimple, FitsVariable, FitsLabels, FitsLogic,
       FitsLoop, FitsIf, FitsSwitch, FitsReturn
  <1>4. WorkBuilt(E, S, work)'
    BY <1>2, WorksExpression, WorksCall, WorksLabels, WorksStatements, WorksLoop, WorksArms,
       WorksSwitch
  <1>5. UNCHANGED <<program, stage, typing, code, unit>>
    BY DEF CgBind, CgLiteral, CgName, CgUnary, CgUnaryOperation, CgLogic, CgFork, CgStore,
           CgLoad, CgBinary, CgRight, CgCombine, CgCall, CgPass, CgPrint, CgApply, CgLabel,
           CgJump, CgBranch, CgTest, CgEnter, CgLeave, CgBlock, CgScope, CgVar, CgDeclare,
           CgAssign, CgAssigned, CgDo, CgWhile, CgFor, CgLoop, CgIf, CgArms, CgSwitch,
           CgCases, CgTests, CgCompare, CgBodies, CgReturn, CgReturned, CgExit, Step
  <1> QED BY <1>1, <1>3, <1>4, <1>5, GeneratesOn

LEMMA Passing ==
    ASSUME NEW E, NEW S, Generating(E, S),
           CgBegin \/ CgFunction \/ CgEntry \/ CgCrash
    PROVE  Generating(E, S)'
PROOF
  <1>1. program' = program
    BY DEF CgBegin, CgFunction, CgEntry, CgCrash
  <1>2. Built(E, S) /\ Built(E, S)' /\ Units' = Units
    BY <1>1, Framed DEF Generating
  <1>3. Len(Units) \in Nat /\ Len(Units) >= 1
    BY <1>2, UnitsFacts
  <1>4. CASE CgBegin
    <2>1. code' = <<>> /\ OpenUnit(1, 1) /\ stage' = "generating"
      BY <1>4 DEF CgBegin
    <2>2. 1 \in 1 .. Len(Units)
      BY <1>3
    <2>3. Fits' /\ WorkBuilt(E, S, work)' /\ unit' = 1
      BY <1>1, <1>2, <2>1, <2>2, Opened
    <2>4. Emitted(0)'
      BY <2>1 DEF Emitted
    <2>5. unit' \in 1 .. Len(Units') /\ unit' - 1 = 0
      BY <1>2, <2>2, <2>3
    <2> QED BY <1>2, <2>1, <2>3, <2>4, <2>5 DEF Generating
  <1>5. ASSUME CgFunction \/ CgEntry, NEW k, k = unit
        PROVE  k \in 1 .. Len(Units) /\ Emitted(k)'
    <2> DEFINE n == k - 1
               lines == Ended.lines
    <2>1. /\ stage = "generating" /\ work = <<>>
          /\ code' = With(code, Units[k].name, lines)
      BY <1>5 DEF CgFunction, CgEntry, Unit
    <2>2. k \in 1 .. Len(Units) /\ Emitted(k - 1) /\ BlocksClosed(lines)
      BY <1>5, <2>1, Closing DEF Generating
    <2>3. n \in Nat /\ Emitted(n) /\ k = n + 1
      BY <1>3, <2>2
    <2> HIDE DEF n, lines
    <2>4. Emitted(n + 1)'
      BY <1>2, <2>1, <2>2, <2>3, EmittedMore
    <2> QED BY <2>2, <2>3, <2>4
  <1>6. CASE CgFunction
    <2>1. /\ OpenUnit(unit + 1, gen.sites) /\ stage' = stage /\ stage = "generating"
          /\ unit < Len(Units)
      BY <1>6 DEF CgFunction
    <2>2. PICK k : k = unit
      OBVIOUS
    <2>3. k \in 1 .. Len(Units) /\ Emitted(k)'
      BY <1>5, <1>6, <2>2
    <2>4. k + 1 \in 1 .. Len(Units) /\ (k + 1) - 1 = k
      BY <1>3, <2>1, <2>2, <2>3
    <2>5. PICK sites : sites = gen.sites
      OBVIOUS
    <2>6. OpenUnit(k + 1, sites)
      BY <2>1, <2>2, <2>5
    <2>7. Fits' /\ WorkBuilt(E, S, work)' /\ unit' = k + 1
      BY <1>1, <1>2, <2>4, <2>6, Opened
    <2>8. Emitted(unit - 1)'
      BY <2>3, <2>4, <2>7 DEF Emitted
    <2> QED BY <1>2, <2>1, <2>4, <2>7, <2>8 DEF Generating
  <1>7. CASE CgEntry
    <2>1. unit = Len(Units) /\ stage' \in {"written", "unwritable"}
      BY <1>7 DEF CgEntry
    <2>2. PICK k : k = unit
      OBVIOUS
    <2>3. Emitted(k)'
      BY <1>5, <1>7, <2>2
    <2>4. k = Len(Units')
      BY <1>2, <2>1, <2>2
    <2>5. Emitted(Len(Units))'
      BY <2>3, <2>4 DEF Emitted
    <2> QED BY <1>2, <2>1, <2>5 DEF Generating
  <1>8. CASE CgCrash
    <2>1. stage' = "crashed"
      BY <1>8 DEF CgCrash
    <2> QED BY <1>2, <2>1 DEF Generating
  <1> QED BY <1>4, <1>6, <1>7, <1>8

LEMMA Generates ==
    ASSUME NEW E, NEW S, Generating(E, S), [CgNext]_<<program, stage, typing, codegenVars>>
    PROVE  Generating(E, S)'
PROOF
  <1>1. CASE CgNext
    BY <1>1, Working, Passing DEF CgNext
  <1>2. CASE UNCHANGED <<program, stage, typing, codegenVars>>
    <2>1. /\ program' = program /\ stage' = stage /\ code' = code /\ gen' = gen
          /\ work' = work /\ unit' = unit
      BY <1>2 DEF codegenVars
    <2>2. Built(E, S)' /\ Units' = Units
      BY <2>1, Framed DEF Generating
    <2>3. Fits => Fits'
      BY <2>1 DEF Fits
    <2>4. \A n : Emitted(n) => Emitted(n)'
      BY <2>1, <2>2 DEF Emitted
    <2>5. WorkBuilt(E, S, work) => WorkBuilt(E, S, work)'
      BY <2>1, BuiltOn DEF WorkBuilt
    <2> QED BY <2>1, <2>2, <2>3, <2>4, <2>5 DEF Generating
  <1> QED BY <1>1, <1>2

(* Whatever program the generator is handed, however deep its loops: every *)
(* function of the module is written, each block of it ends in one         *)
(* terminator, no label is defined twice, and every jump has its label.    *)
THEOREM BlocksAreAccepted == CodegenSpec => []BlocksAccepted
PROOF
  <1>1. CodegenInit => GeneratesBlocks
    BY DEF CodegenInit, GeneratesBlocks, Generating
  <1>2. ASSUME GeneratesBlocks, [CgNext]_<<program, stage, typing, codegenVars>>
        PROVE  GeneratesBlocks'
    <2>1. PICK E, S : Generating(E, S)
      BY <1>2 DEF GeneratesBlocks
    <2>2. Generating(E, S)'
      BY <1>2, <2>1, Generates
    <2> QED BY <2>2 DEF GeneratesBlocks
  <1>3. GeneratesBlocks => BlocksAccepted
    BY DEF GeneratesBlocks, Generating, Emitted, BlocksAccepted
  <1> QED BY <1>1, <1>2, <1>3, PTL DEF CodegenSpec
=============================================================================
