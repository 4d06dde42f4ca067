------------------------- MODULE CodegenValuesProofs --------------------------
(***************************************************************************)
(* The values of the code generated: whatever is read has been computed on *)
(* every path, for every program the analysis may hand over.               *)
(***************************************************************************)
EXTENDS CodegenProofs

-----------------------------------------------------------------------------
(* Values.  A piece of work may take the value of the one before it, and   *)
(* it may hold values of its own.  Between the computing of a value that   *)
(* is held and the piece that holds it there is only calm work: that of    *)
(* expressions, which makes new labels and leaves the loops alone.         *)
Takes(task) ==
    \/ task.do \in {"unary", "right", "combine", "fork", "store", "declare", "assign",
                    "branch", "switch", "compare", "return"}
    \/ task.do = "pass" /\ task.i # 0
Yields(task) ==
    task.do \in {"eval", "unary", "right", "fork", "combine", "load", "pass", "apply",
                 "compare"}
Calm(task) ==
    \/ Yields(task)
    \/ task.do \in {"store", "print", "label", "jump", "branch", "tests"}
Holds(task) ==
    CASE task.do = "combine" -> {task.left}
      [] task.do \in {"pass", "print", "apply"} -> {task.vals[i] : i \in 1 .. Len(task.vals)}
      [] task.do \in {"tests", "compare"} -> {task.subject}
      [] OTHER -> {}

RefsFrom(tasks, n) == UNION {Refs(tasks[i]) : i \in n .. Len(tasks)}
OwedBefore(tasks, n) == UNION {Owed(tasks[i]) : i \in 1 .. n - 1}
RefsLeft(g, tasks, n) == RefsFrom(tasks, n) \cup LoopRefs(g.loops)

(* Nothing before line j goes to label l, and nothing to come does.        *)
Clear(lines, refs, j, l) == l \notin refs /\ \A k \in 1 .. j - 1 : l \notin Targets(lines[k])

(* x can still be read: the labels since it was computed, and those in     *)
(* inner to come, are reached from where it is known.                      *)
Held(lines, refs, inner, x) ==
    x.is = "temp" =>
        \E j \in 1 .. Len(lines) :
            /\ Defines(lines[j], x.v[1])
            /\ \A p \in j + 1 .. Len(lines) :
                   IsLabel(lines[p]) => Clear(lines, refs, j, lines[p].to)
            /\ \A l \in inner : Clear(lines, refs, j, l)

(* Line i reads x, and whatever is still to come it reads what line j made. *)
Settled(lines, refs, i, x) ==
    x.is = "temp" =>
        \E j \in 1 .. i - 1 :
            /\ Defines(lines[j], x.v[1])
            /\ \A p \in j + 1 .. i :
                   IsLabel(lines[p]) =>
                       /\ lines[p].to \notin refs
                       /\ \A k \in 1 .. Len(lines) :
                              lines[p].to \in Targets(lines[k]) => k \in j .. i - 1

Temps(g) ==
    /\ \A i \in 1 .. Len(g.lines) :
           "d" \in DOMAIN g.lines[i] => g.lines[i].d \in 0 .. g.temp - 1
    /\ \A i, j \in 1 .. Len(g.lines) :
           "d" \in DOMAIN g.lines[i] /\ Defines(g.lines[j], g.lines[i].d) => i = j
ReadsSettled(g, tasks) ==
    \A i \in 1 .. Len(g.lines) : \A x \in Reads(g.lines[i]) :
        Settled(g.lines, RefsLeft(g, tasks, 1), i, x)
HoldsHeld(g, tasks, n) ==
    \A x \in Holds(tasks[n]) :
        x.is = "temp" =>
            /\ \A i \in 1 .. n - 1 : Calm(tasks[i])
            /\ Held(g.lines, RefsLeft(g, tasks, n), OwedBefore(tasks, n), x)
ValueHeld(g, tasks) ==
    tasks # <<>> /\ Takes(tasks[1]) => Held(g.lines, RefsLeft(g, tasks, 1), {}, g.value)

(* The values read and the values held.                                    *)
Flow(g, tasks) ==
    /\ Temps(g) /\ ReadsSettled(g, tasks) /\ ValueHeld(g, tasks)
    /\ \A n \in 1 .. Len(tasks) : HoldsHeld(g, tasks, n)
    /\ \A n \in 2 .. Len(tasks) : Takes(tasks[n]) => Yields(tasks[n - 1])

-----------------------------------------------------------------------------
(* From b to h.  What is read is at hand, or was computed since b; only    *)
(* the last line may be a label, and no jump goes to a label that is gone. *)
Knows(b, h, have, i, x) ==
    x.is = "temp" =>
        x \in have \/ \E j \in Len(b.lines) + 1 .. i - 1 : Defines(h.lines[j], x.v[1])
Extends(b, h) ==
    /\ Sequence(b.lines) /\ Sequence(h.lines) /\ Len(b.lines) <= Len(h.lines)
    /\ \A i \in 1 .. Len(b.lines) : h.lines[i] = b.lines[i]
Unlabelled(b, h) ==
    \A i \in Len(b.lines) + 1 .. Len(h.lines) : ~IsLabel(h.lines[i])
Emits(b, h, have, gone) ==
    /\ Extends(b, h) /\ Temps(h)
    /\ \A i \in Len(b.lines) + 1 .. Len(h.lines) :
           /\ IsLabel(h.lines[i]) => i = Len(h.lines)
           /\ Targets(h.lines[i]) \cap gone = {}
           /\ \A x \in Reads(h.lines[i]) : Knows(b, h, have, i, x)
KnownAt(b, h, have, x) == Knows(b, h, have, Len(h.lines) + 1, x)

(* What the first piece of work can read.                                  *)
AtHand(g, task) == Holds(task) \cup {v \in {g.value} : Takes(task)}
Old(g) == 0 .. g.label - 1
Gone(g, task) == Old(g) \ (Refs(task) \cup LoopRefs(g.loops))

(* What the pieces that replace the first one do with values.              *)
HoldsOver(g, task, h, new, n) ==
    \A x \in Holds(new[n]) :
        x.is = "temp" =>
            /\ x \in AtHand(g, task) /\ Unlabelled(g, h) /\ h.loops = g.loops
            /\ \A i \in 1 .. n - 1 :
                   /\ Calm(new[i])
                   /\ \A l \in Owed(new[i]) : l \notin Old(g) /\ l \notin RefsFrom(new, n)
Linked(task, new) ==
    /\ \A n \in 2 .. Len(new) : Takes(new[n]) => Yields(new[n - 1])
    /\ Yields(task) /\ new # <<>> => Yields(new[Len(new)])
    /\ Calm(task) => \A n \in 1 .. Len(new) : Calm(new[n])
Gives(g, task, h, new) ==
    (IF new = <<>> THEN Yields(task) ELSE Takes(new[1])) =>
        Unlabelled(g, h) /\ KnownAt(g, h, {}, h.value)
Owing(g, task, h, new) ==
    Calm(task) =>
        /\ h.loops = g.loops
        /\ \A i \in Len(g.lines) + 1 .. Len(h.lines) :
               IsLabel(h.lines[i]) => h.lines[i].to \in Owed(task) \/ h.lines[i].to \notin Old(g)
        /\ \A l \in Owes(new) : l \in Owed(task) \/ l \notin Old(g)
Flows(g, task, h, new) ==
    /\ Emits(g, h, AtHand(g, task), Gone(g, task))
    /\ (Referred(new) \cup LoopRefs(h.loops)) \cap Gone(g, task) = {}
    /\ Sequence(new)
    /\ Linked(task, new) /\ Gives(g, task, h, new) /\ Owing(g, task, h, new)
    /\ \A n \in 1 .. Len(new) : HoldsOver(g, task, h, new, n)

-----------------------------------------------------------------------------
(* What is known of a value stays true when more is written.               *)
Longer(lines, more) ==
    /\ Len(lines) \in Nat /\ Len(more) \in Nat /\ Len(lines) <= Len(more)
    /\ \A i \in 1 .. Len(lines) : more[i] = lines[i]
StillClear(lines, more, refs, refs2) ==
    \A l \in Defined(lines) :
        l \notin refs =>
            l \notin refs2 /\ \A k \in Len(lines) + 1 .. Len(more) : l \notin Targets(more[k])
StillOwed(lines, more, refs2, inner, inner2) ==
    /\ \A p \in Len(lines) + 1 .. Len(more) :
           IsLabel(more[p]) =>
               \/ more[p].to \in inner
               \/ more[p].to \notin refs2 /\ more[p].to \notin Targeted(lines)
    /\ \A l \in inner2 : l \in inner \/ (l \notin refs2 /\ l \notin Targeted(lines))
LEMMA SettledOn ==
    ASSUME NEW lines, NEW more, Longer(lines, more),
           NEW refs, NEW refs2, NEW i \in 1 .. Len(lines), NEW x, Settled(lines, refs, i, x),
           StillClear(lines, more, refs, refs2)
    PROVE  Settled(more, refs2, i, x)
PROOF
  <1> DEFINE n == Len(lines)
             m == Len(more)
  <1>a. /\ n = Len(lines) /\ m = Len(more) /\ n \in Nat /\ m \in Nat /\ n <= m
        /\ \A k \in 1 .. n : more[k] = lines[k]
    BY DEF Longer
  <1>b. \A l \in Defined(lines) :
            l \notin refs => l \notin refs2 /\ \A k \in n + 1 .. m : l \notin Targets(more[k])
    BY DEF StillClear
  <1>c. i \in 1 .. n
    OBVIOUS
  <1> USE <1>a, <1>b, <1>c
  <1> HIDE DEF n, m
  <1> SUFFICES ASSUME x.is = "temp"
               PROVE  \E j \in 1 .. i - 1 :
                          /\ Defines(more[j], x.v[1])
                          /\ \A p \in j + 1 .. i :
                                 IsLabel(more[p]) =>
                                     /\ more[p].to \notin refs2
                                     /\ \A k \in 1 .. m :
                                            more[p].to \in Targets(more[k]) => k \in j .. i - 1
    BY DEF Settled
  <1>1. PICK j \in 1 .. i - 1 :
            /\ Defines(lines[j], x.v[1])
            /\ \A p \in j + 1 .. i :
                   IsLabel(lines[p]) =>
                       /\ lines[p].to \notin refs
                       /\ \A k \in 1 .. n :
                              lines[p].to \in Targets(lines[k]) => k \in j .. i - 1
    BY DEF Settled
  <1>2. Defines(more[j], x.v[1])
    BY <1>1
  <1>3. ASSUME NEW p \in j + 1 .. i, IsLabel(more[p])
        PROVE  /\ more[p].to \notin refs2
               /\ \A k \in 1 .. m : more[p].to \in Targets(more[k]) => k \in j .. i - 1
    <2>1. p \in 1 .. n /\ more[p] = lines[p]
      OBVIOUS
    <2>2. more[p].to \in Defined(lines) /\ more[p].to \notin refs
      BY <1>1, <1>3, <2>1 DEF Defined
    <2>3. ASSUME NEW k \in 1 .. m, more[p].to \in Targets(more[k])
          PROVE  k \in j .. i - 1
      <3>1. k \in 1 .. n
        BY <2>2, <2>3
      <3> QED BY <1>1, <1>3, <2>1, <2>3, <3>1
    <2> QED BY <2>2, <2>3
  <1> QED BY <1>2, <1>3

LEMMA HeldOn ==
    ASSUME NEW lines, NEW more, Longer(lines, more),
           NEW refs, NEW refs2, NEW inner, NEW inner2, NEW x, Held(lines, refs, inner, x),
           StillOwed(lines, more, refs2, inner, inner2),
           \A l \in Defined(lines) \cup inner : l \notin refs => l \notin refs2
    PROVE  Held(more, refs2, inner2, x)
PROOF
  <1> DEFINE n == Len(lines)
             m == Len(more)
  <1>a. /\ n = Len(lines) /\ m = Len(more) /\ n \in Nat /\ m \in Nat /\ n <= m
        /\ \A k \in 1 .. n : more[k] = lines[k]
    BY DEF Longer
  <1> DEFINE labels == {l \in {more[p].to : p \in n + 1 .. m} :
                            l \in inner \/ (l \notin refs2 /\ l \notin Targeted(lines))}
  <1>b. /\ \A p \in n + 1 .. m : IsLabel(more[p]) => more[p].to \in labels
        /\ \A l \in labels \cup inner2 :
               l \in inner \/ (l \notin refs2 /\ \A k \in 1 .. n : l \notin Targets(lines[k]))
    BY DEF StillOwed, Targeted
  <1> HIDE DEF labels
  <1> USE <1>a, <1>b
  <1> HIDE DEF n, m
  <1> SUFFICES ASSUME x.is = "temp"
               PROVE  \E j \in 1 .. m :
                          /\ Defines(more[j], x.v[1])
                          /\ \A p \in j + 1 .. m :
                                 IsLabel(more[p]) => Clear(more, refs2, j, more[p].to)
                          /\ \A l \in inner2 : Clear(more, refs2, j, l)
    BY DEF Held
  <1>1. PICK j \in 1 .. n :
            /\ Defines(lines[j], x.v[1])
            /\ \A p \in j + 1 .. n : IsLabel(lines[p]) => Clear(lines, refs, j, lines[p].to)
            /\ \A l \in inner : Clear(lines, refs, j, l)
    BY DEF Held
  <1>2. Defines(more[j], x.v[1])
    BY <1>1
  <1>3. ASSUME NEW l, l \in Defined(lines) \cup inner, Clear(lines, refs, j, l)
        PROVE  Clear(more, refs2, j, l)
    BY <1>3 DEF Clear
  <1>4. ASSUME NEW l \in labels \cup inner2
        PROVE  Clear(more, refs2, j, l)
    <2>1. CASE l \in inner
      BY <2>1, <1>1, <1>3
    <2>2. CASE l \notin refs2 /\ \A k \in 1 .. n : l \notin Targets(lines[k])
      BY <2>2 DEF Clear
    <2> QED BY <2>1, <2>2
  <1>5. ASSUME NEW p \in j + 1 .. m, IsLabel(more[p])
        PROVE  Clear(more, refs2, j, more[p].to)
    <2>1. CASE p \in 1 .. n
      <3>1. more[p] = lines[p] /\ more[p].to \in Defined(lines)
        BY <1>5, <2>1 DEF Defined
      <3> QED BY <1>1, <1>3, <1>5, <2>1, <3>1
    <2>2. CASE p \in n + 1 .. m
      BY <1>4, <1>5, <2>2
    <2> QED BY <2>1, <2>2
  <1>6. j \in 1 .. m
    OBVIOUS
  <1> QED BY <1>2, <1>4, <1>5, <1>6

(* A value held is read.                                                   *)
LEMMA SettledHeld ==
    ASSUME NEW lines, NEW more, Longer(lines, more),
           NEW refs, NEW refs2, NEW x, Held(lines, refs, {}, x),
           NEW i \in Len(lines) + 1 .. Len(more),
           \A p \in Len(lines) + 1 .. i : ~IsLabel(more[p]),
           StillClear(lines, more, refs, refs2)
    PROVE  Settled(more, refs2, i, x)
PROOF
  <1> DEFINE n == Len(lines)
             m == Len(more)
  <1>a. /\ n = Len(lines) /\ m = Len(more) /\ n \in Nat /\ m \in Nat /\ n <= m
        /\ \A k \in 1 .. n : more[k] = lines[k]
    BY DEF Longer
  <1>b. \A l \in Defined(lines) :
            l \notin refs => l \notin refs2 /\ \A k \in n + 1 .. m : l \notin Targets(more[k])
    BY DEF StillClear
  <1>c. i \in n + 1 .. m /\ \A p \in n + 1 .. i : ~IsLabel(more[p])
    OBVIOUS
  <1> USE <1>a, <1>b, <1>c
  <1> HIDE DEF n, m
  <1> SUFFICES ASSUME x.is = "temp"
               PROVE  \E j \in 1 .. i - 1 :
                          /\ Defines(more[j], x.v[1])
                          /\ \A p \in j + 1 .. i :
                                 IsLabel(more[p]) =>
                                     /\ more[p].to \notin refs2
                                     /\ \A k \in 1 .. m :
                                            more[p].to \in Targets(more[k]) => k \in j .. i - 1
    BY DEF Settled
  <1>1. PICK j \in 1 .. n :
            /\ Defines(lines[j], x.v[1])
            /\ \A p \in j + 1 .. n : IsLabel(lines[p]) => Clear(lines, refs, j, lines[p].to)
    BY DEF Held
  <1>2. j \in 1 .. i - 1 /\ Defines(more[j], x.v[1])
    BY <1>1
  <1>3. ASSUME NEW p \in j + 1 .. i, IsLabel(more[p])
        PROVE  /\ more[p].to \notin refs2
               /\ \A k \in 1 .. m : more[p].to \in Targets(more[k]) => k \in j .. i - 1
    <2>1. p \in 1 .. n /\ p \in j + 1 .. n
      BY <1>3
    <2>2. more[p] = lines[p] /\ Clear(lines, refs, j, more[p].to)
      BY <1>1, <1>3, <2>1
    <2>3. more[p].to \in Defined(lines) /\ more[p].to \notin refs
      BY <1>3, <2>1, <2>2 DEF Defined, Clear
    <2>4. ASSUME NEW k \in 1 .. m, more[p].to \in Targets(more[k])
          PROVE  k \in j .. i - 1
      <3>1. k \in 1 .. n /\ more[k] = lines[k]
        BY <2>3, <2>4
      <3>2. ~(k \in 1 .. j - 1)
        BY <2>2, <2>4, <3>1 DEF Clear
      <3> QED BY <3>1, <3>2
    <2> QED BY <2>3, <2>4
  <1> QED BY <1>2, <1>3

LEMMA SettledNew ==
    ASSUME NEW lines, NEW n \in Nat, NEW i \in Nat, NEW j \in n + 1 .. i - 1, NEW refs, NEW x,
           Defines(lines[j], x.v[1]), \A p \in n + 1 .. i : ~IsLabel(lines[p])
    PROVE  Settled(lines, refs, i, x)
PROOF
  <1>1. j \in 1 .. i - 1 /\ \A p \in j + 1 .. i : ~IsLabel(lines[p])
    OBVIOUS
  <1> QED BY <1>1 DEF Settled

LEMMA HeldNew ==
    ASSUME NEW lines, NEW n \in Nat, NEW j \in n + 1 .. Len(lines), Len(lines) \in Nat,
           NEW refs, NEW x,
           Defines(lines[j], x.v[1]), \A p \in n + 1 .. Len(lines) : ~IsLabel(lines[p])
    PROVE  Held(lines, refs, {}, x)
PROOF
  <1>1. j \in 1 .. Len(lines) /\ \A p \in j + 1 .. Len(lines) : ~IsLabel(lines[p])
    OBVIOUS
  <1> QED BY <1>1 DEF Held
-----------------------------------------------------------------------------
(* The pieces of work after the exchange.                                  *)
LEMMA InRefsFrom ==
    ASSUME NEW s, NEW n, NEW l
    PROVE  l \in RefsFrom(s, n) <=> \E i \in n .. Len(s) : l \in Refs(s[i])
  BY DEF RefsFrom
LEMMA InOwedBefore ==
    ASSUME NEW s, NEW n, NEW l
    PROVE  l \in OwedBefore(s, n) <=> \E i \in 1 .. n - 1 : l \in Owed(s[i])
  BY DEF OwedBefore

LEMMA TailLabels ==
    ASSUME NEW s, Sequence(s), s # <<>>, NEW t, Sequence(t), NEW j \in 2 .. Len(s)
    PROVE  LET u == t \o Tail(s)
               m == j + Len(t) - 1
           IN  /\ m \in 1 .. Len(u) /\ u[m] = s[j]
               /\ RefsFrom(u, m) \subseteq RefsFrom(s, j)
               /\ OwedBefore(u, m) \subseteq Owes(t) \cup OwedBefore(s, j)
               /\ Owed(s[1]) \subseteq OwedBefore(s, j)
PROOF
  <1> DEFINE u == t \o Tail(s)
             m == j + Len(t) - 1
  <1>1. /\ Len(s) \in Nat /\ Len(t) \in Nat /\ Len(u) = Len(t) + Len(s) - 1
        /\ m \in 1 .. Len(u) /\ u[m] = s[j]
    BY Spliced, SequenceFacts
  <1>2. ASSUME NEW i \in 1 .. Len(u)
        PROVE  \/ i \in 1 .. Len(t) /\ u[i] = t[i]
               \/ \E k \in 2 .. Len(s) : i = k + Len(t) - 1 /\ u[i] = s[k]
    BY <1>2, SplicedFrom
  <1> HIDE DEF u
  <1>3. RefsFrom(u, m) \subseteq RefsFrom(s, j)
    <2> SUFFICES ASSUME NEW l \in RefsFrom(u, m)
                 PROVE  l \in RefsFrom(s, j)
      OBVIOUS
    <2>1. PICK i \in m .. Len(u) : l \in Refs(u[i])
      BY InRefsFrom
    <2>2. i \in 1 .. Len(u) /\ i \notin 1 .. Len(t)
      BY <1>1
    <2>3. PICK k \in 2 .. Len(s) : i = k + Len(t) - 1 /\ u[i] = s[k]
      BY <1>2, <2>2
    <2>4. k \in j .. Len(s)
      BY <1>1, <2>3
    <2> QED BY <2>1, <2>3, <2>4, InRefsFrom
  <1>4. OwedBefore(u, m) \subseteq Owes(t) \cup OwedBefore(s, j)
    <2> SUFFICES ASSUME NEW l \in OwedBefore(u, m)
                 PROVE  l \in Owes(t) \cup OwedBefore(s, j)
      OBVIOUS
    <2>1. PICK i \in 1 .. m - 1 : l \in Owed(u[i])
      BY InOwedBefore
    <2>2. i \in 1 .. Len(u)
      BY <1>1
    <2>3. CASE i \in 1 .. Len(t) /\ u[i] = t[i]
      BY <2>1, <2>3, OwesIn
    <2>4. ASSUME NEW k \in 2 .. Len(s), i = k + Len(t) - 1, u[i] = s[k]
          PROVE  l \in OwedBefore(s, j)
      <3>1. k \in 1 .. j - 1
        BY <1>1, <2>4
      <3> QED BY <2>1, <2>4, <3>1, InOwedBefore
    <2> QED BY <1>2, <2>2, <2>3, <2>4
  <1>5. Owed(s[1]) \subseteq OwedBefore(s, j)
    <2>1. 1 \in 1 .. j - 1
      OBVIOUS
    <2> QED BY <2>1, InOwedBefore
  <1> QED BY <1>1, <1>3, <1>4, <1>5 DEF u

LEMMA HeadLabels ==
    ASSUME NEW s, Sequence(s), s # <<>>, NEW t, Sequence(t), NEW m \in 1 .. Len(t)
    PROVE  LET u == t \o Tail(s)
           IN  /\ m \in 1 .. Len(u) /\ \A i \in 1 .. m : u[i] = t[i]
               /\ RefsFrom(u, m) \subseteq RefsFrom(t, m) \cup RefsFrom(s, 1)
PROOF
  <1> DEFINE u == t \o Tail(s)
  <1>1. /\ Len(s) \in Nat /\ Len(t) \in Nat /\ Len(u) = Len(t) + Len(s) - 1 /\ Len(s) >= 1
        /\ \A i \in 1 .. Len(t) : u[i] = t[i]
    BY Spliced, SequenceFacts
  <1>2. ASSUME NEW i \in 1 .. Len(u)
        PROVE  \/ i \in 1 .. Len(t) /\ u[i] = t[i]
               \/ \E k \in 2 .. Len(s) : i = k + Len(t) - 1 /\ u[i] = s[k]
    BY <1>2, SplicedFrom
  <1> HIDE DEF u
  <1>3. m \in 1 .. Len(u) /\ \A i \in 1 .. m : u[i] = t[i]
    BY <1>1
  <1>4. ASSUME NEW l \in RefsFrom(u, m)
        PROVE  l \in RefsFrom(t, m) \cup RefsFrom(s, 1)
    <2>1. PICK i \in m .. Len(u) : l \in Refs(u[i])
      BY InRefsFrom
    <2>2. i \in 1 .. Len(u)
      OBVIOUS
    <2>3. CASE i \in 1 .. Len(t) /\ u[i] = t[i]
      <3>1. i \in m .. Len(t)
        BY <2>3
      <3> QED BY <2>1, <2>3, <3>1, InRefsFrom
    <2>4. ASSUME NEW k \in 2 .. Len(s), u[i] = s[k]
          PROVE  l \in RefsFrom(s, 1)
      <3>1. k \in 1 .. Len(s)
        BY <1>1
      <3> QED BY <2>1, <2>4, <3>1, InRefsFrom
    <2> QED BY <1>2, <2>2, <2>3, <2>4
  <1> QED BY <1>3, <1>4 DEF u

LEMMA FromFirst ==
    ASSUME NEW s PROVE RefsFrom(s, 1) = Referred(s)
  BY DEF RefsFrom, Referred

(* The values read and held stay right when the first piece of work is     *)
(* replaced.                                                               *)
LEMMA FlowSplice ==
    ASSUME NEW g, NEW s, Shape(g, s), Flow(g, s), s # <<>>,
           NEW h, NEW t, Flows(g, s[1], h, t)
    PROVE  Flow(h, t \o Tail(s))
PROOF
  <1> DEFINE u == t \o Tail(s)
             n == Len(g.lines)
             m == Len(h.lines)
             gone == Gone(g, s[1])
             R == RefsLeft(g, s, 1)
             R2 == RefsLeft(h, u, 1)
  <1>1. /\ Sequence(s) /\ Sequence(t) /\ Sequence(u) /\ Len(s) \in Nat /\ Len(t) \in Nat
        /\ Len(s) >= 1 /\ (t = <<>> <=> Len(t) = 0) /\ (u = <<>> <=> Len(u) = 0)
        /\ Len(u) = Len(t) + Len(s) - 1
    BY Spliced, SequenceFacts DEF Shape, Flows
  <1>2. /\ n \in Nat /\ m \in Nat /\ n <= m
        /\ \A i \in 1 .. n : h.lines[i] = g.lines[i]
    BY SequenceFacts DEF Flows, Emits, Extends
  <1>3. /\ Defined(g.lines) \subseteq Old(g) /\ Owes(s) \subseteq Old(g)
        /\ Targeted(g.lines) \subseteq Old(g) /\ R \subseteq Old(g)
    <2>1. /\ Owes(s) \cup Defined(g.lines) \subseteq Old(g)
          /\ Targeted(g.lines) \cup LoopRefs(g.loops) \cup Referred(s)
                 \subseteq Owes(s) \cup Defined(g.lines)
      BY DEF Shape, Old
    <2> QED BY <2>1, FromFirst DEF RefsLeft
  <1>4. Refs(s[1]) \subseteq RefsFrom(s, 1)
    <2>1. 1 \in 1 .. Len(s)
      BY <1>1
    <2> QED BY <2>1, InRefsFrom
  <1>5. ASSUME NEW l, l \in Old(g), l \notin R
        PROVE  /\ l \in gone /\ l \notin Referred(t) /\ l \notin LoopRefs(h.loops)
               /\ l \notin R2
               /\ \A k \in n + 1 .. m : l \notin Targets(h.lines[k])
    <2>1. l \in gone
      BY <1>4, <1>5 DEF Gone, RefsLeft
    <2>2. l \notin Referred(t) /\ l \notin LoopRefs(h.loops)
      BY <2>1 DEF Flows
    <2>3. l \notin RefsFrom(u, 1)
      <3>1. l \notin Referred(s)
        BY <1>5, FromFirst DEF RefsLeft
      <3>2. \A j \in 2 .. Len(s) : j \in 1 .. Len(s)
        OBVIOUS
      <3> QED BY <1>1, <2>2, <3>1, <3>2, ReferredSpliced, ReferredIn, FromFirst
    <2>4. \A k \in n + 1 .. m : l \notin Targets(h.lines[k])
      BY <2>1 DEF Flows, Emits
    <2> QED BY <2>1, <2>2, <2>3, <2>4 DEF RefsLeft
  <1>6. Longer(g.lines, h.lines) /\ StillClear(g.lines, h.lines, R, R2)
    BY <1>2, <1>3, <1>5 DEF Longer, StillClear
  <1>7. ASSUME NEW x \in AtHand(g, s[1])
        PROVE  Held(g.lines, R, {}, x)
    <2>1. CASE x \in Holds(s[1])
      <3>1. HoldsHeld(g, s, 1)
        BY <1>1 DEF Flow
      <3>2. OwedBefore(s, 1) = {}
        BY InOwedBefore
      <3> QED BY <2>1, <3>1, <3>2 DEF HoldsHeld, Held
    <2>2. CASE x = g.value /\ Takes(s[1])
      BY <2>2 DEF Flow, ValueHeld
    <2> QED BY <2>1, <2>2 DEF AtHand
  <1> HIDE DEF gone, R, R2
  <1>8. Temps(h)
    BY DEF Flows, Emits
  <1>9. ReadsSettled(h, u)
    <2> SUFFICES ASSUME NEW i \in 1 .. m, NEW x \in Reads(h.lines[i]), x.is = "temp"
                 PROVE  Settled(h.lines, R2, i, x)
      BY DEF ReadsSettled, Settled, R2
    <2>1. CASE i \in 1 .. n
      <3>1. x \in Reads(g.lines[i])
        BY <1>2, <2>1
      <3>2. Settled(g.lines, R, i, x)
        BY <2>1, <3>1 DEF Flow, ReadsSettled, R
      <3> QED BY <1>6, <2>1, <3>2, SettledOn
    <2>2. CASE i \in n + 1 .. m
      <3>1. Knows(g, h, AtHand(g, s[1]), i, x)
        BY <2>2 DEF Flows, Emits
      <3>2. \A p \in n + 1 .. i : ~IsLabel(h.lines[p])
        <4>1. ~IsLabel(h.lines[i])
          BY DEF Reads, IsLabel
        <4>2. \A p \in n + 1 .. m : IsLabel(h.lines[p]) => p = m
          BY DEF Flows, Emits
        <4> QED BY <1>2, <2>2, <4>1, <4>2
      <3>3. CASE x \in AtHand(g, s[1])
        <4>1. Held(g.lines, R, {}, x)
          BY <1>7, <3>3
        <4> QED BY <1>6, <2>2, <3>2, <4>1, SettledHeld
      <3>4. ASSUME NEW j \in n + 1 .. i - 1, Defines(h.lines[j], x.v[1])
            PROVE  Settled(h.lines, R2, i, x)
        <4>1. i \in Nat /\ j \in n + 1 .. i - 1
          BY <1>2, <3>4
        <4> HIDE DEF n, m
        <4> QED BY <1>2, <3>2, <3>4, <4>1, SettledNew
      <3> QED BY <3>1, <3>3, <3>4 DEF Knows
    <2> QED BY <1>2, <2>1, <2>2
  <1>10. ASSUME Unlabelled(g, h), KnownAt(g, h, {}, h.value)
         PROVE  Held(h.lines, R2, {}, h.value)
    <2> SUFFICES ASSUME h.value.is = "temp"
                 PROVE  Held(h.lines, R2, {}, h.value)
      BY DEF Held
    <2>1. PICK j \in n + 1 .. m + 1 - 1 : Defines(h.lines[j], h.value.v[1])
      BY <1>10 DEF KnownAt, Knows
    <2>2. j \in n + 1 .. m
      BY <1>2
    <2>3. \A p \in n + 1 .. m : ~IsLabel(h.lines[p])
      BY <1>10 DEF Unlabelled
    <2> QED BY <1>2, <2>1, <2>2, <2>3, HeldNew
  <1>11. ValueHeld(h, u)
    <2> SUFFICES ASSUME u # <<>>, Takes(u[1])
                 PROVE  Held(h.lines, R2, {}, h.value)
      BY DEF ValueHeld, R2
    <2>1. CASE t # <<>>
      <3>1. 1 \in 1 .. Len(t)
        BY <1>1, <2>1
      <3>2. u[1] = t[1]
        BY <1>1, <3>1, HeadLabels
      <3> QED BY <1>10, <2>1, <3>2 DEF Flows, Gives
    <2>2. CASE t = <<>>
      <3>1. Len(t) = 0 /\ 2 \in 2 .. Len(s)
        BY <1>1, <2>2
      <3>2. u[2 + Len(t) - 1] = s[2]
        BY <1>1, <3>1, TailLabels
      <3>3. u[1] = s[2]
        BY <3>1, <3>2
      <3>4. Yields(s[2 - 1])
        BY <3>1, <3>3 DEF Flow
      <3>5. Yields(s[1])
        BY <3>4
      <3> QED BY <1>10, <2>2, <3>5 DEF Flows, Gives
    <2> QED BY <2>1, <2>2
  <1>12. ASSUME NEW k \in 1 .. Len(u)
         PROVE  HoldsHeld(h, u, k)
    <2> SUFFICES ASSUME NEW x \in Holds(u[k]), x.is = "temp"
                 PROVE  /\ \A i \in 1 .. k - 1 : Calm(u[i])
                        /\ Held(h.lines, RefsLeft(h, u, k), OwedBefore(u, k), x)
      BY DEF HoldsHeld
    <2> DEFINE refs2 == RefsLeft(h, u, k)
               inner2 == OwedBefore(u, k)
    <2>1. CASE k \in 1 .. Len(t)
      <3>1. /\ u[k] = t[k] /\ \A i \in 1 .. k : u[i] = t[i]
            /\ RefsFrom(u, k) \subseteq RefsFrom(t, k) \cup RefsFrom(s, 1)
        BY <1>1, <2>1, HeadLabels
      <3>2. HoldsOver(g, s[1], h, t, k)
        BY <2>1 DEF Flows
      <3>3. /\ x \in AtHand(g, s[1]) /\ Unlabelled(g, h) /\ h.loops = g.loops
            /\ \A i \in 1 .. k - 1 :
                   /\ Calm(t[i])
                   /\ \A l \in Owed(t[i]) : l \notin Old(g) /\ l \notin RefsFrom(t, k)
        BY <3>1, <3>2 DEF HoldsOver
      <3>4. \A i \in 1 .. k - 1 : Calm(u[i])
        BY <2>1, <3>1, <3>3
      <3>5. ASSUME NEW l \in inner2
            PROVE  l \notin refs2 /\ l \notin Targeted(g.lines)
        <4>1. PICK i \in 1 .. k - 1 : l \in Owed(u[i])
          BY InOwedBefore
        <4>2. l \notin Old(g) /\ l \notin RefsFrom(t, k)
          BY <2>1, <3>1, <3>3, <4>1
        <4>3. l \notin RefsFrom(s, 1) /\ l \notin LoopRefs(g.loops)
          BY <1>3, <4>2 DEF R, RefsLeft
        <4> QED BY <1>3, <3>1, <3>3, <4>2, <4>3 DEF RefsLeft
      <3>6. ASSUME NEW l \in Defined(g.lines), l \notin R
            PROVE  l \notin refs2
        <4>1. /\ l \notin Referred(t) /\ l \notin LoopRefs(h.loops)
              /\ l \notin RefsFrom(s, 1)
          BY <1>3, <1>5, <3>6 DEF R, RefsLeft
        <4>2. l \notin RefsFrom(t, k)
          <5>1. \A i \in k .. Len(t) : i \in 1 .. Len(t)
            BY <2>1
          <5> QED BY <4>1, <5>1, InRefsFrom, ReferredIn
        <4> QED BY <3>1, <4>1, <4>2 DEF RefsLeft
      <3>7. Held(g.lines, R, {}, x)
        BY <1>7, <3>3
      <3>8. StillOwed(g.lines, h.lines, refs2, {}, inner2)
        BY <3>3, <3>5 DEF StillOwed, Unlabelled
      <3>9. \A l \in Defined(g.lines) \cup {} : l \notin R => l \notin refs2
        BY <3>6
      <3> HIDE DEF refs2, inner2
      <3>10. Held(h.lines, refs2, inner2, x)
        BY <1>6, <3>7, <3>8, <3>9, HeldOn
      <3> QED BY <3>4, <3>10 DEF refs2, inner2
    <2>2. ASSUME NEW j \in 2 .. Len(s), k = j + Len(t) - 1, u[k] = s[j]
          PROVE  /\ \A i \in 1 .. k - 1 : Calm(u[i])
                 /\ Held(h.lines, refs2, inner2, x)
      <3> DEFINE refs == RefsLeft(g, s, j)
                 inner == OwedBefore(s, j)
      <3>1. /\ RefsFrom(u, k) \subseteq RefsFrom(s, j)
            /\ OwedBefore(u, k) \subseteq Owes(t) \cup OwedBefore(s, j)
            /\ Owed(s[1]) \subseteq OwedBefore(s, j)
        BY <1>1, <2>2, TailLabels
      <3>2. /\ \A i \in 1 .. j - 1 : Calm(s[i])
            /\ Held(g.lines, refs, inner, x)
        <4>1. HoldsHeld(g, s, j) /\ x \in Holds(s[j])
          BY <1>1, <2>2 DEF Flow
        <4> QED BY <4>1 DEF HoldsHeld
      <3>3. Calm(s[1]) /\ \A i \in 1 .. Len(t) : Calm(t[i])
        BY <3>2 DEF Flows, Linked
      <3>4. \A i \in 1 .. k - 1 : Calm(u[i])
        <4> SUFFICES ASSUME NEW i \in 1 .. k - 1
                     PROVE  Calm(u[i])
          OBVIOUS
        <4>1. i \in 1 .. Len(u)
          BY <1>1
        <4>2. \/ i \in 1 .. Len(t) /\ u[i] = t[i]
              \/ \E q \in 2 .. Len(s) : i = q + Len(t) - 1 /\ u[i] = s[q]
          BY <1>1, <4>1, SplicedFrom
        <4>3. ASSUME NEW q \in 2 .. Len(s), i = q + Len(t) - 1, u[i] = s[q]
              PROVE  Calm(u[i])
          <5>1. q \in 1 .. j - 1
            BY <1>1, <2>2, <4>3
          <5> QED BY <3>2, <4>3, <5>1
        <4> QED BY <3>3, <4>2, <4>3
      <3>5. /\ h.loops = g.loops
            /\ \A i \in n + 1 .. m :
                   IsLabel(h.lines[i]) => h.lines[i].to \in Owed(s[1]) \/ h.lines[i].to \notin Old(g)
            /\ \A l \in Owes(t) : l \in Owed(s[1]) \/ l \notin Old(g)
        BY <3>3 DEF Flows, Owing
      <3>6. refs2 \subseteq refs /\ refs \subseteq Old(g)
        <4>1. RefsFrom(s, j) \subseteq RefsFrom(s, 1)
          <5>1. \A i \in j .. Len(s) : i \in 1 .. Len(s)
            BY <1>1
          <5> QED BY <5>1, InRefsFrom
        <4> QED BY <1>3, <3>1, <3>5, <4>1 DEF RefsLeft, R
      <3>7. ASSUME NEW l, l \in inner \/ l \notin Old(g)
            PROVE  l \in inner \/ (l \notin refs2 /\ l \notin Targeted(g.lines))
        BY <1>3, <3>6, <3>7
      <3>8. StillOwed(g.lines, h.lines, refs2, inner, inner2)
        BY <3>1, <3>5, <3>7 DEF StillOwed
      <3>9. \A l \in Defined(g.lines) \cup inner : l \notin refs => l \notin refs2
        BY <3>6
      <3> HIDE DEF refs, refs2, inner, inner2
      <3>10. Held(h.lines, refs2, inner2, x)
        BY <1>6, <3>2, <3>8, <3>9, HeldOn
      <3> QED BY <3>4, <3>10
    <2>3. \/ k \in 1 .. Len(t)
          \/ \E j \in 2 .. Len(s) : k = j + Len(t) - 1 /\ u[k] = s[j]
      BY <1>1, SplicedFrom
    <2> QED BY <2>1, <2>2, <2>3
  <1>13. ASSUME NEW k \in 2 .. Len(u), Takes(u[k])
         PROVE  Yields(u[k - 1])
    <2>1. CASE k \in 1 .. Len(t)
      <3>1. u[k] = t[k] /\ u[k - 1] = t[k - 1] /\ k \in 2 .. Len(t)
        <4>1. k - 1 \in 1 .. k /\ k \in 1 .. k /\ k \in 2 .. Len(t)
          BY <2>1
        <4> QED BY <1>1, <2>1, <4>1, HeadLabels
      <3> QED BY <1>13, <3>1 DEF Flows, Linked
    <2>2. ASSUME NEW j \in 2 .. Len(s), k = j + Len(t) - 1, u[k] = s[j]
          PROVE  Yields(u[k - 1])
      <3>1. Yields(s[j - 1])
        BY <1>13, <2>2 DEF Flow
      <3>2. CASE j = 2 /\ t = <<>>
        <4>1. Len(t) = 0
          BY <3>2
        <4>2. k = 1
          BY <2>2, <3>2, <4>1
        <4> QED BY <4>2
      <3>3. CASE j = 2 /\ t # <<>>
        <4>1. k - 1 = Len(t) /\ Len(t) \in 1 .. Len(t)
          BY <1>1, <2>2, <3>3
        <4>2. u[Len(t)] = t[Len(t)]
          <5>1. Len(t) \in 1 .. Len(t)
            BY <4>1
          <5> QED BY <1>1, <5>1, HeadLabels
        <4>3. Yields(s[1])
          BY <3>1, <3>3
        <4> QED BY <3>3, <4>1, <4>2, <4>3 DEF Flows, Linked
      <3>4. CASE j # 2
        <4>1. j - 1 \in 2 .. Len(s) /\ (j - 1) + Len(t) - 1 = k - 1
          BY <1>1, <2>2, <3>4
        <4>2. u[(j - 1) + Len(t) - 1] = s[j - 1]
          BY <1>1, <4>1, TailLabels
        <4> QED BY <3>1, <4>1, <4>2
      <3> QED BY <3>2, <3>3, <3>4
    <2>3. \/ k \in 1 .. Len(t)
          \/ \E j \in 2 .. Len(s) : k = j + Len(t) - 1 /\ u[k] = s[j]
      <3>1. k \in 1 .. Len(u)
        BY <1>1
      <3> QED BY <1>1, <3>1, SplicedFrom
    <2> QED BY <2>1, <2>2, <2>3
  <1> HIDE DEF u
  <1>14. Flow(h, u)
    BY <1>8, <1>9, <1>11, <1>12, <1>13 DEF Flow
  <1> QED BY <1>14 DEF u
-----------------------------------------------------------------------------
(* What the helpers of the generator read and compute.                     *)
Goes(b, g, have, gone) ==
    /\ Emits(b, g, have, gone) /\ Unlabelled(b, g)
    /\ Generator(g) /\ g.temp \in Nat
(* g goes on to h, which leaves a value of its own.                        *)
Yielded(b, g, h, have, gone) ==
    Goes(b, h, have, gone) /\ Extends(g, h) /\ KnownAt(b, h, {}, h.value)

LEMMA ExtendsTwice ==
    ASSUME NEW b, NEW g, NEW h, Extends(b, g), Extends(g, h)
    PROVE  Extends(b, h)
PROOF
  <1>1. Len(b.lines) \in Nat /\ Len(g.lines) \in Nat /\ Len(h.lines) \in Nat
    BY SequenceFacts DEF Extends
  <1> QED BY <1>1 DEF Extends

LEMMA KnownOn ==
    ASSUME NEW b, NEW g, NEW h, NEW have, NEW x, Extends(b, g), Extends(g, h),
           KnownAt(b, g, have, x)
    PROVE  KnownAt(b, h, have, x)
PROOF
  <1>1. Len(b.lines) \in Nat /\ Len(g.lines) \in Nat /\ Len(h.lines) \in Nat
    BY SequenceFacts DEF Extends
  <1> SUFFICES ASSUME x.is = "temp", x \notin have
               PROVE  \E j \in Len(b.lines) + 1 .. Len(h.lines) + 1 - 1 :
                          Defines(h.lines[j], x.v[1])
    BY DEF KnownAt, Knows
  <1>2. PICK j \in Len(b.lines) + 1 .. Len(g.lines) + 1 - 1 : Defines(g.lines[j], x.v[1])
    BY DEF KnownAt, Knows
  <1>3. j \in 1 .. Len(g.lines) /\ j \in Len(b.lines) + 1 .. Len(h.lines) + 1 - 1
    BY <1>1, <1>2 DEF Extends
  <1>4. h.lines[j] = g.lines[j]
    BY <1>3 DEF Extends
  <1> QED BY <1>2, <1>3, <1>4

LEMMA KnownMore ==
    ASSUME NEW b, NEW g, NEW have, NEW x, KnownAt(b, g, {}, x)
    PROVE  KnownAt(b, g, have, x)
  BY DEF KnownAt, Knows
LEMMA KnownHere ==
    ASSUME NEW b, NEW g, NEW have, NEW x, x \in have \/ x.is # "temp"
    PROVE  KnownAt(b, g, have, x)
  BY DEF KnownAt, Knows

LEMMA GoesSelf ==
    ASSUME NEW g, GeneratorOk(g), Temps(g), NEW have, NEW gone
    PROVE  Goes(g, g, have, gone) /\ Extends(g, g)
PROOF
  <1>1. Extends(g, g) /\ Len(g.lines) \in Nat
    BY SequenceFacts DEF Extends, GeneratorOk
  <1>2. \A i \in Len(g.lines) + 1 .. Len(g.lines) : FALSE
    BY <1>1
  <1> QED BY <1>1, <1>2 DEF Goes, Emits, Unlabelled, GeneratorOk

(* Lines and temporaries are all that matters.                             *)
LEMMA GoesAlike ==
    ASSUME NEW b, NEW g, NEW have, NEW gone, Goes(b, g, have, gone),
           NEW h, Generator(h), h.lines = g.lines, h.temp = g.temp
    PROVE  Goes(b, h, have, gone) /\ Extends(g, h)
PROOF
  <1>1. Sequence(g.lines) /\ Len(g.lines) \in Nat
    BY SequenceFacts DEF Goes, Emits, Extends
  <1>2. Extends(g, h)
    BY <1>1 DEF Extends
  <1>3. Temps(g) /\ (Temps(g) => Temps(h))
    BY DEF Temps, Goes, Emits
  <1>4. Extends(b, h) /\ Unlabelled(b, h)
    BY DEF Goes, Emits, Extends, Unlabelled
  <1>5. Emits(b, h, have, gone)
    BY <1>3, <1>4 DEF Goes, Emits, Knows
  <1> QED BY <1>2, <1>4, <1>5 DEF Goes

LEMMA LineGoes ==
    ASSUME NEW b, NEW g, NEW have, NEW gone, Goes(b, g, have, gone),
           NEW line, Targets(line) \cap gone = {}, \A x \in Reads(line) : KnownAt(b, g, have, x),
           NEW h, Generator(h), h.lines = Append(g.lines, line),
           \/ "d" \notin DOMAIN line /\ h.temp = g.temp
           \/ Defines(line, g.temp) /\ h.temp = g.temp + 1
    PROVE  /\ Emits(b, h, have, gone) /\ Extends(g, h)
           /\ ~IsLabel(line) => Goes(b, h, have, gone)
           /\ \A x : Defines(line, x.v[1]) => KnownAt(b, h, {}, x)
PROOF
  <1> DEFINE n == Len(g.lines)
             w == Len(b.lines)
  <1>1. /\ Sequence(b.lines) /\ Sequence(g.lines) /\ w \in Nat /\ n \in Nat /\ w <= n
        /\ Sequence(h.lines) /\ Len(h.lines) = n + 1 /\ h.lines[n + 1] = line
        /\ \A i \in 1 .. n : h.lines[i] = g.lines[i]
    BY AppendIsSequence, SequenceFacts DEF Goes, Emits, Extends
  <1>2. Extends(g, h) /\ Extends(b, h)
    <2>1. Extends(g, h)
      BY <1>1 DEF Extends
    <2> QED BY <2>1, ExtendsTwice DEF Goes, Emits
  <1>3. Temps(h)
    <2>1. g.temp \in Nat /\ h.temp \in Nat /\ g.temp <= h.temp
      BY DEF Goes
    <2>2. /\ \A i \in 1 .. n : "d" \in DOMAIN g.lines[i] => g.lines[i].d \in 0 .. g.temp - 1
          /\ \A i, j \in 1 .. n :
                 "d" \in DOMAIN g.lines[i] /\ Defines(g.lines[j], g.lines[i].d) => i = j
      BY DEF Goes, Emits, Temps
    <2>3. \A i \in 1 .. n + 1 : i \in 1 .. n \/ i = n + 1
      BY <1>1
    <2>4. "d" \in DOMAIN line => line.d = g.temp /\ h.temp = g.temp + 1
      BY DEF Defines
    <2>5. ASSUME NEW i \in 1 .. n + 1, "d" \in DOMAIN h.lines[i]
          PROVE  /\ i \in 1 .. n => h.lines[i].d \in 0 .. g.temp - 1
                 /\ h.lines[i].d \in 0 .. h.temp - 1
      <3>1. CASE i \in 1 .. n
        <4>1. h.lines[i].d \in 0 .. g.temp - 1
          BY <1>1, <2>2, <2>5, <3>1
        <4> DEFINE d == h.lines[i].d
        <4>2. d \in 0 .. g.temp - 1
          BY <4>1
        <4> HIDE DEF d
        <4>3. d \in 0 .. h.temp - 1
          BY <2>1, <4>2
        <4> QED BY <4>2, <4>3 DEF d
      <3>2. CASE i = n + 1
        <4>1. h.lines[i].d = g.temp /\ h.temp = g.temp + 1
          BY <1>1, <2>4, <2>5, <3>2
        <4>2. i \notin 1 .. n
          BY <1>1, <3>2
        <4> QED BY <2>1, <4>1, <4>2
      <3> QED BY <2>3, <3>1, <3>2
    <2>6. ASSUME NEW i \in 1 .. n + 1, NEW j \in 1 .. n + 1,
                 "d" \in DOMAIN h.lines[i], "d" \in DOMAIN h.lines[j],
                 h.lines[j].d = h.lines[i].d
          PROVE  i = j
      <3>1. CASE i \in 1 .. n /\ j \in 1 .. n
        BY <1>1, <2>2, <2>6, <3>1 DEF Defines
      <3>2. CASE i = n + 1 /\ j \in 1 .. n
        <4>1. h.lines[i].d = g.temp
          BY <1>1, <2>4, <2>6, <3>2
        <4>2. h.lines[j].d \in 0 .. g.temp - 1
          BY <2>5, <2>6, <3>2
        <4> QED BY <2>1, <2>6, <4>1, <4>2
      <3>3. CASE j = n + 1 /\ i \in 1 .. n
        <4>1. h.lines[j].d = g.temp
          BY <1>1, <2>4, <2>6, <3>3
        <4>2. h.lines[i].d \in 0 .. g.temp - 1
          BY <2>5, <2>6, <3>3
        <4> QED BY <2>1, <2>6, <4>1, <4>2
      <3> QED BY <2>3, <3>1, <3>2, <3>3
    <2> HIDE DEF n
    <2> QED BY <1>1, <2>5, <2>6 DEF Temps, Defines
  <1>4. ASSUME NEW i \in w + 1 .. n + 1
        PROVE  /\ IsLabel(h.lines[i]) => i = n + 1
               /\ Targets(h.lines[i]) \cap gone = {}
               /\ \A x \in Reads(h.lines[i]) : Knows(b, h, have, i, x)
    <2>1. CASE i \in w + 1 .. n
      <3>1. i \in 1 .. n /\ h.lines[i] = g.lines[i]
        BY <1>1, <2>1
      <3>2. /\ ~IsLabel(g.lines[i]) /\ Targets(g.lines[i]) \cap gone = {}
            /\ \A x \in Reads(g.lines[i]) : Knows(b, g, have, i, x)
        BY <2>1 DEF Goes, Emits, Unlabelled
      <3>3. ASSUME NEW x, Knows(b, g, have, i, x)
            PROVE  Knows(b, h, have, i, x)
        <4>1. \A j \in w + 1 .. i - 1 : h.lines[j] = g.lines[j]
          BY <1>1, <3>1
        <4> QED BY <3>3, <4>1 DEF Knows
      <3> QED BY <3>1, <3>2, <3>3
    <2>2. CASE i = n + 1
      <3>1. ASSUME NEW x, KnownAt(b, g, have, x)
            PROVE  Knows(b, h, have, n + 1, x)
        <4>1. \A j \in w + 1 .. n + 1 - 1 : h.lines[j] = g.lines[j]
          BY <1>1
        <4> QED BY <3>1, <4>1 DEF Knows, KnownAt
      <3> QED BY <1>1, <2>2, <3>1
    <2> QED BY <1>1, <2>1, <2>2
  <1>5. Emits(b, h, have, gone)
    BY <1>1, <1>2, <1>3, <1>4 DEF Emits
  <1>6. ASSUME ~IsLabel(line) PROVE Goes(b, h, have, gone)
    <2>1. Unlabelled(b, h)
      <3> SUFFICES ASSUME NEW i \in w + 1 .. n + 1 PROVE ~IsLabel(h.lines[i])
        BY <1>1 DEF Unlabelled
      <3>1. CASE i = n + 1
        BY <1>1, <1>6, <3>1
      <3>2. CASE i # n + 1
        BY <1>4, <3>2
      <3> QED BY <3>1, <3>2
    <2>2. g.temp \in Nat /\ h.temp \in Nat
      BY DEF Goes
    <2> QED BY <1>5, <2>1, <2>2 DEF Goes
  <1>7. ASSUME NEW x, Defines(line, x.v[1]) PROVE KnownAt(b, h, {}, x)
    <2>1. n + 1 \in w + 1 .. Len(h.lines) + 1 - 1
      BY <1>1
    <2> QED BY <1>1, <1>7, <2>1 DEF KnownAt, Knows
  <1> QED BY <1>2, <1>5, <1>6, <1>7

LEMMA ComputeGoes ==
    ASSUME NEW b, NEW g, NEW have, NEW gone, Goes(b, g, have, gone),
           NEW line, "op" \in DOMAIN line, ~IsLabel(line), ~IsTerminator(line),
           \A x \in Reads(With(line, "d", g.temp)) : KnownAt(b, g, have, x), NEW t
    PROVE  Yielded(b, g, Compute(g, line, t), have, gone)
PROOF
  <1> DEFINE more == With(line, "d", g.temp)
             e == Emit(g, more)
             n == [e EXCEPT !.temp = @ + 1]
             v == Value("temp", t, <<g.temp>>)
             h == Holding(n, v)
  <1>1. more.op = line.op
    BY WithResult
  <1>2. Defines(more, g.temp)
    BY DEF Defines, With
  <1>3. \A x \in Reads(more) : KnownAt(b, g, have, x)
    OBVIOUS
  <1> HIDE DEF more
  <1>4. ~IsLabel(more) /\ Targets(more) = {}
    BY <1>1 DEF IsLabel, IsTerminator, Terminators, Targets
  <1>5. Generator(e) /\ e.lines = Append(g.lines, more) /\ e.temp = g.temp /\ g.temp \in Nat
    BY EmitFields DEF Goes
  <1> HIDE DEF e
  <1>6. Generator(n) /\ n.lines = e.lines /\ n.temp = e.temp + 1
    BY <1>5, TempFields
  <1> HIDE DEF n
  <1>7. Generator(h) /\ h.lines = n.lines /\ h.temp = n.temp /\ h.value = v
    BY <1>6, HoldingFields
  <1>8. v.v[1] = g.temp
    BY DEF Value
  <1> HIDE DEF h, v
  <1>9. h.lines = Append(g.lines, more) /\ h.temp = g.temp + 1
    BY <1>5, <1>6, <1>7
  <1>10. Targets(more) \cap gone = {}
    BY <1>4
  <1>11. /\ Goes(b, h, have, gone) /\ Extends(g, h)
         /\ \A x : Defines(more, x.v[1]) => KnownAt(b, h, {}, x)
    BY <1>2, <1>3, <1>4, <1>7, <1>9, <1>10, LineGoes
  <1>12. Yielded(b, g, h, have, gone)
    BY <1>2, <1>7, <1>8, <1>11 DEF Yielded
  <1> QED BY <1>12 DEF Compute, h, n, e, more, v

LEMMA CalcGoes ==
    ASSUME NEW b, NEW g, NEW have, NEW gone, Goes(b, g, have, gone),
           NEW f, NEW args, \A i \in 1 .. Len(args) : KnownAt(b, g, have, args[i]), NEW t
    PROVE  Yielded(b, g, Calc(g, f, args, t), have, gone)
PROOF
  <1> DEFINE line == [op |-> "calc", f |-> f, args |-> args]
  <1>1. "op" \in DOMAIN line /\ ~IsLabel(line) /\ ~IsTerminator(line)
    BY DEF IsLabel, IsTerminator, Terminators
  <1>2. LET more == With(line, "d", g.temp) IN more.op = "calc" /\ more.args = args
    BY DEF With
  <1>3. Reads(With(line, "d", g.temp)) = {args[i] : i \in 1 .. Len(args)}
    BY <1>2 DEF Reads
  <1> HIDE DEF line
  <1> QED BY <1>1, <1>3, ComputeGoes DEF Calc, line

LEMMA LoadGoes ==
    ASSUME NEW b, NEW g, NEW have, NEW gone, Goes(b, g, have, gone), NEW slot, NEW t
    PROVE  Yielded(b, g, Load(g, slot, t), have, gone)
PROOF
  <1> DEFINE line == [op |-> "load", slot |-> slot]
  <1>1. "op" \in DOMAIN line /\ ~IsLabel(line) /\ ~IsTerminator(line)
    BY DEF IsLabel, IsTerminator, Terminators
  <1>2. LET more == With(line, "d", g.temp) IN more.op = "load"
    BY DEF With
  <1>3. Reads(With(line, "d", g.temp)) = {}
    BY <1>2 DEF Reads
  <1> HIDE DEF line
  <1> QED BY <1>1, <1>3, ComputeGoes DEF Load, line

LEMMA HoldingGoes ==
    ASSUME NEW b, NEW g, NEW have, NEW gone, Goes(b, g, have, gone),
           NEW v, KnownAt(b, g, {}, v)
    PROVE  Yielded(b, g, Holding(g, v), have, gone)
PROOF
  <1> DEFINE h == Holding(g, v)
  <1>1. Generator(h) /\ h.lines = g.lines /\ h.temp = g.temp /\ h.value = v
    BY HoldingFields DEF Goes
  <1> HIDE DEF h
  <1>2. Goes(b, h, have, gone) /\ Extends(g, h)
    BY <1>1, GoesAlike
  <1>3. KnownAt(b, h, {}, v)
    BY <1>2, KnownOn DEF Goes, Emits
  <1> QED BY <1>1, <1>2, <1>3 DEF Yielded, h

LEMMA PlainLineGoes ==
    ASSUME NEW b, NEW g, NEW have, NEW gone, Goes(b, g, have, gone),
           NEW line, "d" \notin DOMAIN line, Targets(line) \cap gone = {},
           \A x \in Reads(line) : KnownAt(b, g, have, x)
    PROVE  LET h == Emit(g, line)
           IN  /\ Emits(b, h, have, gone) /\ Extends(g, h)
               /\ ~IsLabel(line) => Goes(b, h, have, gone)
PROOF
  <1> DEFINE h == Emit(g, line)
  <1>1. Generator(h) /\ h.lines = Append(g.lines, line) /\ h.temp = g.temp
    BY EmitFields DEF Goes
  <1> HIDE DEF h
  <1>2. /\ Emits(b, h, have, gone) /\ Extends(g, h)
        /\ ~IsLabel(line) => Goes(b, h, have, gone)
    BY <1>1, LineGoes
  <1> QED BY <1>2 DEF h

LEMMA CallToGoes ==
    ASSUME NEW b, NEW g, NEW have, NEW gone, Goes(b, g, have, gone),
           NEW f, NEW args, \A i \in 1 .. Len(args) : KnownAt(b, g, have, args[i]), NEW t
    PROVE  Yielded(b, g, CallTo(g, f, args, t), have, gone)
PROOF
  <1> DEFINE line == [op |-> "call", f |-> f, args |-> args, t |-> t]
  <1>1. "op" \in DOMAIN line /\ "d" \notin DOMAIN line /\ ~IsLabel(line) /\ ~IsTerminator(line)
        /\ Targets(line) = {} /\ Reads(line) = {args[i] : i \in 1 .. Len(args)}
    BY DEF IsLabel, IsTerminator, Terminators, Targets, Reads
  <1>2. CASE t = "void"
    <2> HIDE DEF line
    <2> DEFINE e == Emit(g, line)
    <2>1. Goes(b, e, have, gone) /\ Extends(g, e)
      BY <1>1, PlainLineGoes
    <2> HIDE DEF e
    <2>2. KnownAt(b, e, {}, Nothing)
      BY KnownHere DEF Nothing, Value
    <2>3. Yielded(b, e, Holding(e, Nothing), have, gone)
      BY <2>1, <2>2, HoldingGoes
    <2>4. Yielded(b, g, Holding(e, Nothing), have, gone)
      BY <2>1, <2>3, ExtendsTwice DEF Yielded
    <2> QED BY <1>2, <2>4 DEF CallTo, e, line
  <1>3. CASE t # "void"
    <2>1. LET more == With(line, "d", g.temp) IN more.op = "call" /\ more.args = args
      BY DEF With
    <2>2. Reads(With(line, "d", g.temp)) = {args[i] : i \in 1 .. Len(args)}
      BY <2>1 DEF Reads
    <2> HIDE DEF line
    <2>3. Yielded(b, g, Compute(g, line, t), have, gone)
      BY <1>1, <2>2, ComputeGoes
    <2> QED BY <1>3, <2>3 DEF CallTo, line
  <1> QED BY <1>2, <1>3

LEMMA StoreGoes ==
    ASSUME NEW b, NEW g, NEW have, NEW gone, Goes(b, g, have, gone),
           NEW slot, NEW t, KnownAt(b, g, have, g.value)
    PROVE  Goes(b, Store(g, slot, t), have, gone)
PROOF
  <1> DEFINE line == [op |-> "store", slot |-> slot, t |-> t, from |-> g.value]
  <1>1. "d" \notin DOMAIN line /\ ~IsLabel(line) /\ Targets(line) = {} /\ Reads(line) = {g.value}
    BY DEF IsLabel, Targets, Reads
  <1> HIDE DEF line
  <1>2. \A x \in Reads(line) : KnownAt(b, g, have, x)
    BY <1>1
  <1> QED BY <1>1, <1>2, PlainLineGoes DEF Store, line

(* One step after another.                                                 *)
LEMMA YieldedTwice ==
    ASSUME NEW b, NEW g, NEW h, NEW k, NEW have, NEW gone,
           Extends(g, h), Yielded(b, h, k, have, gone)
    PROVE  Yielded(b, g, k, have, gone)
  BY ExtendsTwice DEF Yielded
LEMMA StillKnown ==
    ASSUME NEW b, NEW g, NEW h, NEW have, NEW gone, Goes(b, g, have, gone),
           Yielded(b, g, h, have, gone)
    PROVE  /\ Goes(b, h, have, gone) /\ Extends(g, h) /\ KnownAt(b, h, have, h.value)
           /\ \A x : KnownAt(b, g, have, x) => KnownAt(b, h, have, x)
  BY KnownOn, KnownMore DEF Yielded, Goes, Emits
LEMMA ArgsKnown ==
    ASSUME NEW b, NEW g, NEW have
    PROVE  /\ \A x : KnownAt(b, g, have, x) =>
                  \A i \in 1 .. Len(<<x>>) : KnownAt(b, g, have, <<x>>[i])
           /\ \A x, y : KnownAt(b, g, have, x) /\ KnownAt(b, g, have, y) =>
                  \A i \in 1 .. Len(<<x, y>>) : KnownAt(b, g, have, <<x, y>>[i])
           /\ \A x, y, z : KnownAt(b, g, have, x) /\ KnownAt(b, g, have, y)
                             /\ KnownAt(b, g, have, z) =>
                  \A i \in 1 .. Len(<<x, y, z>>) : KnownAt(b, g, have, <<x, y, z>>[i])
PROOF
  <1>1. ASSUME NEW x, KnownAt(b, g, have, x), NEW i \in 1 .. Len(<<x>>)
        PROVE  KnownAt(b, g, have, <<x>>[i])
    <2>1. i = 1
      OBVIOUS
    <2> QED BY <1>1, <2>1
  <1>2. ASSUME NEW x, NEW y, KnownAt(b, g, have, x), KnownAt(b, g, have, y),
               NEW i \in 1 .. Len(<<x, y>>)
        PROVE  KnownAt(b, g, have, <<x, y>>[i])
    <2>1. i = 1 \/ i = 2
      OBVIOUS
    <2> QED BY <1>2, <2>1
  <1>3. ASSUME NEW x, NEW y, NEW z, KnownAt(b, g, have, x), KnownAt(b, g, have, y),
               KnownAt(b, g, have, z), NEW i \in 1 .. Len(<<x, y, z>>)
        PROVE  KnownAt(b, g, have, <<x, y, z>>[i])
    <2>1. i = 1 \/ i = 2 \/ i = 3
      OBVIOUS
    <2> QED BY <1>3, <2>1
  <1> QED BY <1>1, <1>2, <1>3
LEMMA ConstKnown ==
    ASSUME NEW b, NEW g, NEW have
    PROVE  /\ \A t : KnownAt(b, g, have, Zero(t)) /\ \A v : KnownAt(b, g, have, Value("const", t, v))
           /\ \A t, v : KnownAt(b, g, have, Value("param", t, v))
           /\ KnownAt(b, g, have, Nothing)
  BY KnownHere DEF Zero, Value, Nothing

LEMMA DivideGoes ==
    ASSUME NEW b, NEW g, NEW have, NEW gone, Goes(b, g, have, gone),
           NEW op, NEW l, NEW r, KnownAt(b, g, have, l), KnownAt(b, g, have, r)
    PROVE  Yielded(b, g, CgDivide(g, op, l, r), have, gone)
PROOF
  <1> DEFINE zero == Zero("int")
             one == Value("const", "int", <<1>>)
             is == Calc(g, "==", <<r, zero>>, "bool")
             safe == Calc(is, "select", <<is.value, one, r>>, "int")
             raw == Calc(safe, op, <<l, safe.value>>, "int")
             done == Calc(raw, "select", <<is.value, zero, raw.value>>, "int")
  <1>1. \A k : KnownAt(b, k, have, zero) /\ KnownAt(b, k, have, one)
    BY ConstKnown
  <1>2. CgDivide(g, op, l, r) = done
    BY DEF CgDivide
  <1> HIDE DEF zero, one
  <1>3. Yielded(b, g, is, have, gone)
    BY <1>1, ArgsKnown, CalcGoes
  <1> HIDE DEF is
  <1>4. /\ Goes(b, is, have, gone) /\ Extends(g, is) /\ KnownAt(b, is, have, is.value)
        /\ KnownAt(b, is, have, l) /\ KnownAt(b, is, have, r)
    BY <1>3, StillKnown
  <1>5. Yielded(b, is, safe, have, gone)
    BY <1>1, <1>4, ArgsKnown, CalcGoes
  <1> HIDE DEF safe
  <1>6. /\ Goes(b, safe, have, gone) /\ Extends(is, safe) /\ KnownAt(b, safe, have, safe.value)
        /\ KnownAt(b, safe, have, l) /\ KnownAt(b, safe, have, is.value)
    BY <1>4, <1>5, StillKnown
  <1>7. Yielded(b, safe, raw, have, gone)
    BY <1>6, ArgsKnown, CalcGoes
  <1> HIDE DEF raw
  <1>8. /\ Goes(b, raw, have, gone) /\ Extends(safe, raw) /\ KnownAt(b, raw, have, raw.value)
        /\ KnownAt(b, raw, have, is.value)
    BY <1>6, <1>7, StillKnown
  <1>9. Yielded(b, raw, done, have, gone)
    BY <1>1, <1>8, ArgsKnown, CalcGoes
  <1> HIDE DEF done
  <1>10. Extends(g, raw)
    BY <1>4, <1>6, <1>8, ExtendsTwice
  <1> QED BY <1>2, <1>9, <1>10, YieldedTwice

LEMMA TextGoes ==
    ASSUME NEW b, NEW g, NEW have, NEW gone, Goes(b, g, have, gone),
           NEW value, KnownAt(b, g, have, value)
    PROVE  LET h == AsText(g, value)
           IN  Goes(b, h, have, gone) /\ Extends(g, h) /\ KnownAt(b, h, have, h.value)
PROOF
  <1>1. CASE value.t = "str"
    <2> DEFINE h == Holding(g, value)
    <2>1. Generator(h) /\ h.lines = g.lines /\ h.temp = g.temp /\ h.value = value
      BY HoldingFields DEF Goes
    <2> HIDE DEF h
    <2>2. Goes(b, h, have, gone) /\ Extends(g, h)
      BY <2>1, GoesAlike
    <2>3. KnownAt(b, h, have, h.value)
      BY <2>1, <2>2, KnownOn DEF Goes, Emits
    <2> QED BY <1>1, <2>2, <2>3 DEF AsText, h
  <1>2. ASSUME NEW f, NEW h, h = CallTo(g, f, <<value>>, "str")
        PROVE  Goes(b, h, have, gone) /\ Extends(g, h) /\ KnownAt(b, h, have, h.value)
    <2>1. Yielded(b, g, h, have, gone)
      BY <1>2, ArgsKnown, CallToGoes
    <2> QED BY <2>1, StillKnown
  <1>3. CASE value.t # "str"
    BY <1>2, <1>3 DEF AsText
  <1> QED BY <1>1, <1>3

LEMMA ConcatGoes ==
    ASSUME NEW b, NEW g, NEW have, NEW gone, Goes(b, g, have, gone),
           NEW l, NEW r, KnownAt(b, g, have, l), KnownAt(b, g, have, r)
    PROVE  Yielded(b, g, Concat(g, l, r), have, gone)
PROOF
  <1> DEFINE a == AsText(g, l)
             c == AsText(a, r)
             done == CallTo(c, "concat", <<a.value, c.value>>, "str")
  <1>1. Concat(g, l, r) = done
    BY DEF Concat
  <1>2. Goes(b, a, have, gone) /\ Extends(g, a) /\ KnownAt(b, a, have, a.value)
    BY TextGoes
  <1> HIDE DEF a
  <1>3. Extends(b, g) /\ Extends(b, a)
    BY <1>2 DEF Goes, Emits
  <1>4. KnownAt(b, a, have, r)
    BY <1>2, <1>3, KnownOn
  <1>5. Goes(b, c, have, gone) /\ Extends(a, c) /\ KnownAt(b, c, have, c.value)
    BY <1>2, <1>4, TextGoes
  <1> HIDE DEF c
  <1>6. KnownAt(b, c, have, a.value)
    BY <1>2, <1>3, <1>5, KnownOn
  <1>7. Yielded(b, c, done, have, gone)
    BY <1>5, <1>6, ArgsKnown, CallToGoes
  <1> HIDE DEF done
  <1> QED BY <1>1, <1>2, <1>5, <1>7, ExtendsTwice, YieldedTwice

LEMMA EqualGoes ==
    ASSUME NEW b, NEW g, NEW have, NEW gone, Goes(b, g, have, gone),
           NEW op, NEW l, NEW r, KnownAt(b, g, have, l), KnownAt(b, g, have, r)
    PROVE  Yielded(b, g, Equal(g, op, l, r), have, gone)
PROOF
  <1> DEFINE e == CallTo(g, "StrEquals", <<l, r>>, "bool")
             done == Calc(e, "!", <<e.value>>, "bool")
             plain == Calc(g, op, <<l, r>>, "bool")
  <1>1. Equal(g, op, l, r) \in {e, done, plain}
    BY DEF Equal
  <1>2. Yielded(b, g, e, have, gone) /\ Yielded(b, g, plain, have, gone)
    BY ArgsKnown, CallToGoes, CalcGoes
  <1> HIDE DEF e, plain
  <1>3. Goes(b, e, have, gone) /\ Extends(g, e) /\ KnownAt(b, e, have, e.value)
    BY <1>2, StillKnown
  <1>4. Yielded(b, e, done, have, gone)
    BY <1>3, ArgsKnown, CalcGoes
  <1> HIDE DEF done
  <1> QED BY <1>1, <1>2, <1>3, <1>4, YieldedTwice

LEMMA OperationGoes ==
    ASSUME NEW b, NEW g, NEW have, NEW gone, Goes(b, g, have, gone),
           NEW op, NEW l, NEW r, KnownAt(b, g, have, l), KnownAt(b, g, have, r)
    PROVE  Yielded(b, g, CgOperation(g, op, l, r), have, gone)
PROOF
  <1>1. CgOperation(g, op, l, r) \in {Concat(g, l, r), Equal(g, op, l, r),
            CgDivide(g, op, l, r), Calc(g, op, <<l, r>>, Outcome(op))}
    BY DEF CgOperation
  <1>2. Yielded(b, g, Calc(g, op, <<l, r>>, Outcome(op)), have, gone)
    BY ArgsKnown, CalcGoes
  <1> QED BY <1>1, <1>2, ConcatGoes, EqualGoes, DivideGoes

LEMMA PutGoes ==
    ASSUME NEW b, NEW g, NEW have, NEW gone, Goes(b, g, have, gone),
           NEW value, KnownAt(b, g, have, value)
    PROVE  Goes(b, Put(g, value), have, gone)
PROOF
  <1>1. ASSUME NEW f PROVE Yielded(b, g, CallTo(g, f, <<value>>, "void"), have, gone)
    BY ArgsKnown, CallToGoes
  <1> QED BY <1>1, StillKnown DEF Put

LEMMA InputGoes ==
    ASSUME NEW b, NEW g, NEW have, NEW gone, Goes(b, g, have, gone)
    PROVE  Yielded(b, g, Input(g), have, gone)
PROOF
  <1> DEFINE s == [g EXCEPT !.sites = @ + 1]
             buffer == Value("const", "buffer", <<g.sites>>)
             done == CallTo(s, "input", <<buffer>>, "str")
  <1>1. Generator(s) /\ s.lines = g.lines /\ s.temp = g.temp
    BY DEF Goes, Generator
  <1>2. Input(g) = done
    BY DEF Input
  <1> HIDE DEF s
  <1>3. Goes(b, s, have, gone) /\ Extends(g, s)
    BY <1>1, GoesAlike
  <1>4. KnownAt(b, s, have, buffer)
    BY ConstKnown
  <1> HIDE DEF buffer
  <1>5. Yielded(b, s, done, have, gone)
    BY <1>3, <1>4, ArgsKnown, CallToGoes
  <1> HIDE DEF done
  <1> QED BY <1>2, <1>3, <1>5, YieldedTwice

LEMMA AbsGoes ==
    ASSUME NEW b, NEW g, NEW have, NEW gone, Goes(b, g, have, gone),
           NEW x, KnownAt(b, g, have, x)
    PROVE  Yielded(b, g, CgAbs(g, x), have, gone)
PROOF
  <1> DEFINE zero == Zero("int")
             n == Calc(g, "-", <<zero, x>>, "int")
             is == Calc(n, "<", <<x, zero>>, "bool")
             done == Calc(is, "select", <<is.value, n.value, x>>, "int")
  <1>1. \A k : KnownAt(b, k, have, zero)
    BY ConstKnown
  <1>2. CgAbs(g, x) = done
    BY DEF CgAbs
  <1> HIDE DEF zero
  <1>3. Yielded(b, g, n, have, gone)
    BY <1>1, ArgsKnown, CalcGoes
  <1> HIDE DEF n
  <1>4. /\ Goes(b, n, have, gone) /\ Extends(g, n) /\ KnownAt(b, n, have, n.value)
        /\ KnownAt(b, n, have, x)
    BY <1>3, StillKnown
  <1>5. Yielded(b, n, is, have, gone)
    BY <1>1, <1>4, ArgsKnown, CalcGoes
  <1> HIDE DEF is
  <1>6. /\ Goes(b, is, have, gone) /\ Extends(n, is) /\ KnownAt(b, is, have, is.value)
        /\ KnownAt(b, is, have, x) /\ KnownAt(b, is, have, n.value)
    BY <1>4, <1>5, StillKnown
  <1>7. Yielded(b, is, done, have, gone)
    BY <1>6, ArgsKnown, CalcGoes
  <1> HIDE DEF done
  <1> QED BY <1>2, <1>4, <1>6, <1>7, ExtendsTwice, YieldedTwice

LEMMA MaxGoes ==
    ASSUME NEW b, NEW g, NEW have, NEW gone, Goes(b, g, have, gone),
           NEW x, NEW y, KnownAt(b, g, have, x), KnownAt(b, g, have, y)
    PROVE  Yielded(b, g, CgMax(g, x, y), have, gone)
PROOF
  <1> DEFINE is == Calc(g, ">", <<x, y>>, "bool")
             done == Calc(is, "select", <<is.value, x, y>>, "int")
  <1>1. CgMax(g, x, y) = done
    BY DEF CgMax
  <1>2. Yielded(b, g, is, have, gone)
    BY ArgsKnown, CalcGoes
  <1> HIDE DEF is
  <1>3. /\ Goes(b, is, have, gone) /\ Extends(g, is) /\ KnownAt(b, is, have, is.value)
        /\ KnownAt(b, is, have, x) /\ KnownAt(b, is, have, y)
    BY <1>2, StillKnown
  <1>4. Yielded(b, is, done, have, gone)
    BY <1>3, ArgsKnown, CalcGoes
  <1> HIDE DEF done
  <1> QED BY <1>1, <1>3, <1>4, YieldedTwice

LEMMA AppliedGoes ==
    ASSUME NEW b, NEW g, NEW have, NEW gone, Goes(b, g, have, gone),
           NEW f, NEW v, Sequence(v), ~Variadic(f) => Len(v) = Len(ParamsOf(f)),
           \A i \in 1 .. Len(v) : KnownAt(b, g, have, v[i])
    PROVE  Yielded(b, g, Applied(g, f, v), have, gone)
PROOF
  <1>1. CASE f = "MathAbs"
    <2>1. ~Variadic(f) /\ Len(ParamsOf(f)) = 1
      BY <1>1 DEF Variadic, ParamsOf, IsBuiltin, Builtins, BUILTINS
    <2>2. 1 \in 1 .. Len(v)
      BY <2>1
    <2>3. Yielded(b, g, CgAbs(g, v[1]), have, gone)
      BY <2>2, AbsGoes
    <2> QED BY <1>1, <2>3 DEF Applied
  <1>2. CASE f = "MathMax"
    <2>1. ~Variadic(f) /\ Len(ParamsOf(f)) = 2
      BY <1>2 DEF Variadic, ParamsOf, IsBuiltin, Builtins, BUILTINS
    <2>2. 1 \in 1 .. Len(v) /\ 2 \in 1 .. Len(v)
      BY <2>1
    <2>3. Yielded(b, g, CgMax(g, v[1], v[2]), have, gone)
      BY <2>2, MaxGoes
    <2> QED BY <1>2, <2>3 DEF Applied
  <1>3. CASE f \notin {"MathAbs", "MathMax"}
    <2>1. Applied(g, f, v) \in {CallTo(g, "newline", <<>>, "void"), Holding(g, Nothing),
              Input(g), Calc(g, "len", v, "int"), CallTo(g, f, v, Result(typing, f))}
      BY <1>3 DEF Applied
    <2>2. \A i \in 1 .. Len(<<>>) : KnownAt(b, g, have, <<>>[i])
      OBVIOUS
    <2>3. Yielded(b, g, Holding(g, Nothing), have, gone)
      BY ConstKnown, HoldingGoes
    <2>4. Yielded(b, g, Calc(g, "len", v, "int"), have, gone)
      BY CalcGoes
    <2>5. /\ Yielded(b, g, CallTo(g, "newline", <<>>, "void"), have, gone)
          /\ Yielded(b, g, CallTo(g, f, v, Result(typing, f)), have, gone)
      BY <2>2, CallToGoes
    <2> QED BY <2>1, <2>3, <2>4, <2>5, InputGoes
  <1> QED BY <1>1, <1>2, <1>3

(* The environment, the slots and the loops have no part in it.            *)
LEMMA FieldsGoes ==
    ASSUME NEW b, NEW g, NEW have, NEW gone, Goes(b, g, have, gone)
    PROVE  /\ Goes(b, Slot(g), have, gone) /\ Slot(g).value = g.value /\ Slot(g).loops = g.loops
           /\ \A env : LET h == [g EXCEPT !.env = env]
                       IN  Goes(b, h, have, gone) /\ h.value = g.value /\ h.loops = g.loops
           /\ \A seen : LET h == [g EXCEPT !.seen = seen]
                        IN  Goes(b, h, have, gone) /\ h.value = g.value /\ h.loops = g.loops
PROOF
  <1>1. ASSUME NEW h, Generator(h), h.lines = g.lines, h.temp = g.temp
        PROVE  Goes(b, h, have, gone)
    BY <1>1, GoesAlike
  <1>2. Generator(g)
    BY DEF Goes
  <1>3. LET h == Slot(g)
        IN  Generator(h) /\ h.lines = g.lines /\ h.temp = g.temp /\ h.value = g.value
            /\ h.loops = g.loops
    BY <1>2 DEF Slot, Generator
  <1>4. ASSUME NEW env
        PROVE  LET h == [g EXCEPT !.env = env]
               IN  Generator(h) /\ h.lines = g.lines /\ h.temp = g.temp /\ h.value = g.value
                   /\ h.loops = g.loops
    BY <1>2 DEF Generator
  <1>5. ASSUME NEW seen
        PROVE  LET h == [g EXCEPT !.seen = seen]
               IN  Generator(h) /\ h.lines = g.lines /\ h.temp = g.temp /\ h.value = g.value
                   /\ h.loops = g.loops
    BY <1>2 DEF Generator
  <1>6. Goes(b, Slot(g), have, gone) /\ Slot(g).value = g.value /\ Slot(g).loops = g.loops
    BY <1>1, <1>3
  <1>7. ASSUME NEW env
        PROVE  LET h == [g EXCEPT !.env = env]
               IN  Goes(b, h, have, gone) /\ h.value = g.value /\ h.loops = g.loops
    <2> DEFINE h == [g EXCEPT !.env = env]
    <2>1. /\ Generator(h) /\ h.lines = g.lines /\ h.temp = g.temp
          /\ h.value = g.value /\ h.loops = g.loops
      BY <1>4
    <2> HIDE DEF h
    <2>2. Goes(b, h, have, gone)
      BY <1>1, <2>1
    <2> QED BY <2>1, <2>2 DEF h
  <1>8. ASSUME NEW seen
        PROVE  LET h == [g EXCEPT !.seen = seen]
               IN  Goes(b, h, have, gone) /\ h.value = g.value /\ h.loops = g.loops
    <2> DEFINE h == [g EXCEPT !.seen = seen]
    <2>1. /\ Generator(h) /\ h.lines = g.lines /\ h.temp = g.temp
          /\ h.value = g.value /\ h.loops = g.loops
      BY <1>5
    <2> HIDE DEF h
    <2>2. Goes(b, h, have, gone)
      BY <1>1, <2>1
    <2> QED BY <2>1, <2>2 DEF h
  <1> QED BY <1>6, <1>7, <1>8

LEMMA StoreLoops ==
    ASSUME NEW g, Generator(g), NEW line
    PROVE  Emit(g, line).loops = g.loops /\ Emit(g, line).value = g.value
  BY EmitFields

LEMMA DeclareGoes ==
    ASSUME NEW b, NEW g, NEW have, NEW gone, Goes(b, g, have, gone), NEW x, NEW slot, NEW t
    PROVE  LET h == Declare(g, x, slot, t) IN Goes(b, h, have, gone) /\ h.loops = g.loops
PROOF
  <1> DEFINE env == With(g.env, x, [slot |-> slot, t |-> t])
             h == [g EXCEPT !.env = env]
  <1>1. Declare(g, x, slot, t) = h
    BY DEF Declare
  <1> HIDE DEF env
  <1>2. Goes(b, h, have, gone) /\ h.loops = g.loops
    BY FieldsGoes
  <1> HIDE DEF h
  <1> QED BY <1>1, <1>2

LEMMA ParamGoes ==
    ASSUME NEW b, NEW g, NEW have, NEW gone, Goes(b, g, have, gone), NEW f, NEW i
    PROVE  LET h == CgParam(g, f, i) IN Goes(b, h, have, gone) /\ h.loops = g.loops
PROOF
  <1> DEFINE p == Find(f).params[i]
             t == typing.par[f][p.x]
             v == Value("param", t, <<i>>)
             s == Slot(g)
             h == Holding(s, v)
             k == Store(h, g.slot, t)
             done == Declare(k, p.x, g.slot, t)
  <1>1. Goes(b, s, have, gone) /\ s.loops = g.loops
    BY FieldsGoes
  <1>2. KnownAt(b, s, {}, v)
    BY ConstKnown
  <1> HIDE DEF p, t, v, s
  <1>3. Yielded(b, s, h, have, gone)
    BY <1>1, <1>2, HoldingGoes
  <1>4. Goes(b, h, have, gone) /\ KnownAt(b, h, have, h.value)
    BY <1>1, <1>3, StillKnown
  <1>5. h.loops = s.loops
    BY <1>1, HoldingFields DEF Goes
  <1> HIDE DEF h
  <1>6. Goes(b, k, have, gone)
    BY <1>4, StoreGoes
  <1>7. k.loops = h.loops
    BY <1>4, StoreLoops DEF Store, Goes
  <1> HIDE DEF k
  <1>8. Goes(b, done, have, gone) /\ done.loops = k.loops
    BY <1>6, DeclareGoes
  <1>9. CgParam(g, f, i) = done
    BY DEF CgParam, p, t, v, s, h, k
  <1> HIDE DEF done
  <1> QED BY <1>1, <1>5, <1>7, <1>8, <1>9

LEMMA JumpGoes ==
    ASSUME NEW b, NEW g, NEW have, NEW gone, Goes(b, g, have, gone), NEW l, l \notin gone
    PROVE  LET h == Jump(g, l) IN Goes(b, h, have, gone) /\ h.loops = g.loops
PROOF
  <1> DEFINE line == [op |-> "br", to |-> l]
  <1>1. "d" \notin DOMAIN line /\ ~IsLabel(line) /\ Targets(line) = {l} /\ Reads(line) = {}
    BY DEF IsLabel, Targets, Reads
  <1> HIDE DEF line
  <1>2. Targets(line) \cap gone = {}
    BY <1>1
  <1> QED BY <1>1, <1>2, PlainLineGoes, StoreLoops DEF Jump, line, Goes

LEMMA BranchGoes ==
    ASSUME NEW b, NEW g, NEW have, NEW gone, Goes(b, g, have, gone),
           NEW yes, NEW no, {yes, no} \cap gone = {}, KnownAt(b, g, have, g.value)
    PROVE  LET h == Branch(g, yes, no) IN Goes(b, h, have, gone) /\ h.loops = g.loops
PROOF
  <1> DEFINE line == [op |-> "if", on |-> g.value, yes |-> yes, no |-> no]
  <1>1. "d" \notin DOMAIN line /\ ~IsLabel(line) /\ Targets(line) = {yes, no}
        /\ Reads(line) = {g.value}
    BY DEF IsLabel, Targets, Reads
  <1> HIDE DEF line
  <1>2. /\ Targets(line) \cap gone = {}
        /\ \A x \in Reads(line) : KnownAt(b, g, have, x)
    BY <1>1
  <1> QED BY <1>1, <1>2, PlainLineGoes, StoreLoops DEF Branch, line, Goes

LEMMA RetGoes ==
    ASSUME NEW b, NEW g, NEW have, NEW gone, Goes(b, g, have, gone),
           NEW last, KnownAt(b, g, have, g.value)
    PROVE  LET h == Ret(g, last) IN Goes(b, h, have, gone) /\ h.loops = g.loops
PROOF
  <1> DEFINE line == [op |-> "ret", from |-> g.value, last |-> last]
  <1>1. "d" \notin DOMAIN line /\ ~IsLabel(line) /\ Targets(line) = {}
        /\ Reads(line) = {g.value}
    BY DEF IsLabel, Targets, Reads
  <1> HIDE DEF line
  <1>2. /\ Targets(line) \cap gone = {}
        /\ \A x \in Reads(line) : KnownAt(b, g, have, x)
    BY <1>1
  <1> QED BY <1>1, <1>2, PlainLineGoes, StoreLoops DEF Ret, line, Goes

LEMMA LabelGoes ==
    ASSUME NEW b, NEW g, NEW have, NEW gone, Goes(b, g, have, gone), NEW l
    PROVE  LET h == Label(g, l)
           IN  /\ Emits(b, h, have, gone) /\ h.loops = g.loops
               /\ h.lines = Append(g.lines, [op |-> "label", to |-> l])
PROOF
  <1> DEFINE line == [op |-> "label", to |-> l]
  <1>1. "d" \notin DOMAIN line /\ Targets(line) = {} /\ Reads(line) = {}
    BY DEF IsLabel, Targets, Reads
  <1> HIDE DEF line
  <1> QED BY <1>1, PlainLineGoes, StoreLoops, EmitFields DEF Label, line, Goes
-----------------------------------------------------------------------------
(* What the pieces of work do with values, by what makes them.             *)
Quiet(task) == ~Takes(task) /\ Holds(task) = {}

LEMMA ValuesOfExpressions ==
    /\ \A e : LET t == ToEval(e) IN Yields(t) /\ Calm(t) /\ Quiet(t)
    /\ \A op : LET t == ToUnary(op) IN Yields(t) /\ Calm(t) /\ Holds(t) = {}
    /\ \A e : LET t == ToRight(e) IN Yields(t) /\ Calm(t) /\ Holds(t) = {}
    /\ \A op, left : LET t == ToCombine(op, left) IN Yields(t) /\ Calm(t) /\ Holds(t) = {left}
    /\ \A e, slot : LET t == ToFork(e, slot) IN Yields(t) /\ Calm(t) /\ Holds(t) = {}
    /\ \A slot, ty : LET t == ToStore(slot, ty) IN Calm(t) /\ Holds(t) = {}
    /\ \A slot, ty : LET t == ToLoad(slot, ty) IN Yields(t) /\ Calm(t) /\ Quiet(t)
    /\ \A x : LET t == ToCompare(x) IN Yields(t) /\ Calm(t) /\ Holds(t) = {x}
PROOF
  <1> USE DEF Yields, Calm, Quiet, Takes, Holds
  <1>1. \A e : LET t == ToEval(e) IN Yields(t) /\ Calm(t) /\ Quiet(t)
    BY DEF ToEval
  <1>2. \A op : LET t == ToUnary(op) IN Yields(t) /\ Calm(t) /\ Holds(t) = {}
    BY DEF ToUnary
  <1>3. \A e : LET t == ToRight(e) IN Yields(t) /\ Calm(t) /\ Holds(t) = {}
    BY DEF ToRight
  <1>4. \A op, left : LET t == ToCombine(op, left) IN Yields(t) /\ Calm(t) /\ Holds(t) = {left}
    BY DEF ToCombine
  <1>5. \A e, slot : LET t == ToFork(e, slot) IN Yields(t) /\ Calm(t) /\ Holds(t) = {}
    BY DEF ToFork
  <1>6. \A slot, ty : LET t == ToStore(slot, ty) IN Calm(t) /\ Holds(t) = {}
    BY DEF ToStore
  <1>7. \A slot, ty : LET t == ToLoad(slot, ty) IN Yields(t) /\ Calm(t) /\ Quiet(t)
    BY DEF ToLoad
  <1>8. \A x : LET t == ToCompare(x) IN Yields(t) /\ Calm(t) /\ Holds(t) = {x}
    BY DEF ToCompare
  <1> QED BY <1>1, <1>2, <1>3, <1>4, <1>5, <1>6, <1>7, <1>8

LEMMA ValuesOfCalls ==
    /\ \A call, i, vals :
           LET t == ToPass(call, i, vals)
           IN  Yields(t) /\ Calm(t) /\ (i = 0 => ~Takes(t))
               /\ Holds(t) = {vals[k] : k \in 1 .. Len(vals)}
    /\ \A vals : LET t == ToPrint(vals)
                 IN  Calm(t) /\ ~Takes(t) /\ Holds(t) = {vals[k] : k \in 1 .. Len(vals)}
    /\ \A f, vals : LET t == ToApply(f, vals)
                    IN  Yields(t) /\ Calm(t) /\ ~Takes(t)
                        /\ Holds(t) = {vals[k] : k \in 1 .. Len(vals)}
PROOF
  <1> USE DEF Yields, Calm, Takes, Holds
  <1>1. \A call, i, vals :
            LET t == ToPass(call, i, vals)
            IN  Yields(t) /\ Calm(t) /\ (i = 0 => ~Takes(t))
                /\ Holds(t) = {vals[k] : k \in 1 .. Len(vals)}
    BY DEF ToPass
  <1>2. \A vals : LET t == ToPrint(vals)
                  IN  Calm(t) /\ ~Takes(t) /\ Holds(t) = {vals[k] : k \in 1 .. Len(vals)}
    BY DEF ToPrint
  <1>3. \A f, vals : LET t == ToApply(f, vals)
                     IN  Yields(t) /\ Calm(t) /\ ~Takes(t)
                         /\ Holds(t) = {vals[k] : k \in 1 .. Len(vals)}
    BY DEF ToApply
  <1> HIDE DEF Yields, Calm, Takes, Holds
  <1> QED BY <1>1, <1>2, <1>3

LEMMA ValuesOfLabels ==
    /\ \A l : Calm(ToLabel(l)) /\ Quiet(ToLabel(l))
    /\ \A l : Calm(ToJump(l)) /\ Quiet(ToJump(l))
    /\ \A yes, no : Calm(ToBranch(yes, no)) /\ Holds(ToBranch(yes, no)) = {}
    /\ \A x, arms, at, other :
           LET t == ToTests(x, arms, at, other) IN Calm(t) /\ ~Takes(t) /\ Holds(t) = {x}
    /\ \A c, yes, no : Quiet(ToTest(c, yes, no))
    /\ \A l, out, next : Quiet(ToEnter(l, out, next))
    /\ \A arms, end : Quiet(ToArms(arms, end))
    /\ \A arms, at, end : Quiet(ToBodies(arms, at, end))
PROOF
  <1> USE DEF Yields, Calm, Quiet, Takes, Holds
  <1>1. \A l : Calm(ToLabel(l)) /\ Quiet(ToLabel(l))
    BY DEF ToLabel
  <1>2. \A l : Calm(ToJump(l)) /\ Quiet(ToJump(l))
    BY DEF ToJump
  <1>3. \A yes, no : Calm(ToBranch(yes, no)) /\ Holds(ToBranch(yes, no)) = {}
    BY DEF ToBranch
  <1>4. \A x, arms, at, other :
            LET t == ToTests(x, arms, at, other) IN Calm(t) /\ ~Takes(t) /\ Holds(t) = {x}
    BY DEF ToTests
  <1>5. \A c, yes, no : Quiet(ToTest(c, yes, no))
    BY DEF ToTest
  <1>6. \A l, out, next : Quiet(ToEnter(l, out, next))
    BY DEF ToEnter
  <1>7. \A arms, end : Quiet(ToArms(arms, end))
    BY DEF ToArms
  <1>8. \A arms, at, end : Quiet(ToBodies(arms, at, end))
    BY DEF ToBodies
  <1> HIDE DEF Yields, Calm, Quiet, Takes, Holds
  <1> QED BY <1>1, <1>2, <1>3, <1>4, <1>5, <1>6, <1>7, <1>8

LEMMA ValuesOfStatements ==
    /\ Quiet(ToLeave)
    /\ \A x : Quiet(ToBind(x)) /\ Quiet(ToBlock(x)) /\ Quiet(ToMake(x)) /\ Quiet(ToScope(x))
    /\ \A st, env : Quiet(ToLoop(st, env))
    /\ \A st, slot : Holds(ToDeclare(st, slot)) = {}
    /\ \A x : Holds(ToAssign(x)) = {} /\ Holds(ToSwitch(x)) = {}
    /\ Holds(ToReturn) = {}
PROOF
  <1> USE DEF Quiet, Takes, Holds
  <1>1. Quiet(ToLeave) /\ Holds(ToReturn) = {}
    BY DEF ToLeave, ToReturn
  <1>2. \A x : Quiet(ToBind(x)) /\ Quiet(ToBlock(x)) /\ Quiet(ToMake(x)) /\ Quiet(ToScope(x))
    BY DEF ToBind, ToBlock, ToMake, ToScope
  <1>3. \A st, env : Quiet(ToLoop(st, env))
    BY DEF ToLoop
  <1>4. \A st, slot : Holds(ToDeclare(st, slot)) = {}
    BY DEF ToDeclare
  <1>5. \A x : Holds(ToAssign(x)) = {} /\ Holds(ToSwitch(x)) = {}
    BY DEF ToAssign, ToSwitch
  <1> QED BY <1>1, <1>2, <1>3, <1>4, <1>5

-----------------------------------------------------------------------------
(* The first piece of work done, in a block, and what it is replaced by.   *)
Moves(g, task, h) ==
    Goes(g, h, AtHand(g, task), Gone(g, task)) /\ h.loops = g.loops
Fresher(g, task, refs) == refs \cap Gone(g, task) = {}

LEMMA FlowsDone ==
    ASSUME NEW g, NEW task, NEW h, Moves(g, task, h),
           Yields(task) => KnownAt(g, h, {}, h.value)
    PROVE  Flows(g, task, h, <<>>)
PROOF
  <1>1. Sequence(<<>>) /\ Owes(<<>>) = {} /\ Referred(<<>>) = {} /\ Len(<<>>) = 0
    BY NoTasks
  <1>2. Emits(g, h, AtHand(g, task), Gone(g, task)) /\ Unlabelled(g, h) /\ h.loops = g.loops
    BY DEF Moves, Goes
  <1>3. (Referred(<<>>) \cup LoopRefs(h.loops)) \cap Gone(g, task) = {}
    BY <1>1, <1>2 DEF Gone
  <1>4. Linked(task, <<>>)
    BY <1>1 DEF Linked
  <1>5. Gives(g, task, h, <<>>)
    BY <1>2 DEF Gives
  <1>6. Owing(g, task, h, <<>>)
    BY <1>1, <1>2 DEF Owing, Unlabelled
  <1>7. \A n \in 1 .. Len(<<>>) : HoldsOver(g, task, h, <<>>, n)
    OBVIOUS
  <1> QED BY <1>1, <1>2, <1>3, <1>4, <1>5, <1>6, <1>7 DEF Flows

LEMMA FlowsOne ==
    ASSUME NEW g, NEW task, NEW h, Moves(g, task, h), NEW a,
           Fresher(g, task, Refs(a)), Owed(a) = {},
           Takes(a) => KnownAt(g, h, {}, h.value),
           Yields(task) => Yields(a), Calm(task) => Calm(a),
           \A x \in Holds(a) : x.is = "temp" => x \in AtHand(g, task)
    PROVE  Flows(g, task, h, <<a>>)
PROOF
  <1> DEFINE new == <<a>>
  <1>1. Sequence(new) /\ Len(new) = 1 /\ new[1] = a /\ new # <<>>
    <2>1. new \in Seq({a})
      OBVIOUS
    <2> QED BY <2>1 DEF Sequence
  <1> HIDE DEF new
  <1>2. \A i \in 1 .. 1 : i = 1
    OBVIOUS
  <1>3. Owes(new) = {} /\ Referred(new) = Refs(a)
    <2>1. \A l : l \in Owes(new) <=> l \in Owed(a)
      BY <1>1, <1>2, OwesIn
    <2>2. \A l : l \in Referred(new) <=> l \in Refs(a)
      BY <1>1, <1>2, ReferredIn
    <2> QED BY <2>1, <2>2
  <1>4. Emits(g, h, AtHand(g, task), Gone(g, task)) /\ Unlabelled(g, h) /\ h.loops = g.loops
    BY DEF Moves, Goes
  <1>5. (Referred(new) \cup LoopRefs(h.loops)) \cap Gone(g, task) = {}
    BY <1>3, <1>4 DEF Fresher, Gone
  <1>6. Linked(task, new)
    BY <1>1, <1>2 DEF Linked
  <1>7. Gives(g, task, h, new)
    BY <1>1, <1>4 DEF Gives
  <1>8. Owing(g, task, h, new)
    BY <1>3, <1>4 DEF Owing, Unlabelled
  <1>9. \A n \in 1 .. Len(new) : HoldsOver(g, task, h, new, n)
    BY <1>1, <1>2, <1>4 DEF HoldsOver
  <1>10. Flows(g, task, h, new)
    BY <1>1, <1>4, <1>5, <1>6, <1>7, <1>8, <1>9 DEF Flows
  <1> QED BY <1>10 DEF new

LEMMA FlowsTwo ==
    ASSUME NEW g, NEW task, NEW h, Moves(g, task, h), NEW a, NEW b,
           Fresher(g, task, Refs(a)), Fresher(g, task, Refs(b)),
           Owed(a) = {}, Calm(task) => Owed(b) = {},
           Takes(a) => KnownAt(g, h, {}, h.value), Takes(b) => Yields(a),
           Yields(task) => Yields(b), Calm(task) => Calm(a) /\ Calm(b),
           Holds(b) # {} => Calm(a),
           \A x \in Holds(a) \cup Holds(b) : x.is = "temp" => x \in AtHand(g, task)
    PROVE  Flows(g, task, h, <<a, b>>)
PROOF
  <1> DEFINE new == <<a, b>>
  <1>1. Sequence(new) /\ Len(new) = 2 /\ new[1] = a /\ new[2] = b /\ new # <<>>
    <2>1. new \in Seq({a, b})
      OBVIOUS
    <2> QED BY <2>1 DEF Sequence
  <1> HIDE DEF new
  <1>2. \A i \in 1 .. 2 : i = 1 \/ i = 2
    OBVIOUS
  <1>3. Owes(new) = Owed(b) /\ Referred(new) = Refs(a) \cup Refs(b)
    <2>1. \A l : l \in Owes(new) <=> l \in Owed(b)
      BY <1>1, <1>2, OwesIn
    <2>2. \A l : l \in Referred(new) <=> l \in Refs(a) \cup Refs(b)
      BY <1>1, <1>2, ReferredIn
    <2> QED BY <2>1, <2>2
  <1>4. Emits(g, h, AtHand(g, task), Gone(g, task)) /\ Unlabelled(g, h) /\ h.loops = g.loops
    BY DEF Moves, Goes
  <1>5. (Referred(new) \cup LoopRefs(h.loops)) \cap Gone(g, task) = {}
    BY <1>3, <1>4 DEF Fresher, Gone
  <1>6. Linked(task, new)
    <2>1. \A n \in 2 .. 2 : n = 2 /\ n - 1 = 1
      OBVIOUS
    <2> QED BY <1>1, <1>2, <2>1 DEF Linked
  <1>7. Gives(g, task, h, new)
    BY <1>1, <1>4 DEF Gives
  <1>8. Owing(g, task, h, new)
    BY <1>3, <1>4 DEF Owing, Unlabelled
  <1>9. ASSUME NEW n \in 1 .. Len(new), NEW x \in Holds(new[n]), x.is = "temp"
        PROVE  /\ x \in AtHand(g, task)
               /\ \A i \in 1 .. n - 1 :
                      Calm(new[i]) /\ \A l \in Owed(new[i]) : l \notin Old(g) /\ l \notin RefsFrom(new, n)
    <2>1. n = 1 \/ n = 2
      BY <1>1, <1>2
    <2>2. CASE n = 1
      BY <1>1, <1>9, <2>2
    <2>3. CASE n = 2
      <3>1. x \in Holds(b)
        BY <1>1, <1>9, <2>3
      <3>2. \A i \in 1 .. n - 1 : i = 1
        BY <2>3
      <3> QED BY <1>1, <1>9, <3>1, <3>2
    <2> QED BY <2>1, <2>2, <2>3
  <1>10. \A n \in 1 .. Len(new) : HoldsOver(g, task, h, new, n)
    BY <1>4, <1>9 DEF HoldsOver
  <1>11. Flows(g, task, h, new)
    BY <1>1, <1>4, <1>5, <1>6, <1>7, <1>8, <1>10 DEF Flows
  <1> QED BY <1>11 DEF new

(* More pieces: of statements, where nothing is held, and of expressions.  *)
LEMMA FlowsList ==
    ASSUME NEW g, NEW task, ~Calm(task),
           NEW h, Emits(g, h, AtHand(g, task), Gone(g, task)), Fresher(g, task, LoopRefs(h.loops)),
           NEW T, NEW new \in Seq(T),
           \A t \in T : Holds(t) = {} /\ Fresher(g, task, Refs(t)),
           \A n \in 1 .. Len(new) : Takes(new[n]) => n # 1 /\ Yields(new[n - 1])
    PROVE  Flows(g, task, h, new)
PROOF
  <1>1. Sequence(new) /\ Len(new) \in Nat /\ (new # <<>> => 1 \in 1 .. Len(new))
    <2>1. Sequence(new)
      BY DEF Sequence
    <2>2. Len(new) \in Nat /\ (new = <<>> <=> Len(new) = 0)
      BY <2>1, SequenceFacts
    <2> QED BY <2>1, <2>2
  <1>2. \A i \in 1 .. Len(new) : Holds(new[i]) = {} /\ Fresher(g, task, Refs(new[i]))
    BY ElementOfSeq
  <1>3. (Referred(new) \cup LoopRefs(h.loops)) \cap Gone(g, task) = {}
    <2>1. \A l \in Referred(new) : l \notin Gone(g, task)
      BY <1>2, ReferredIn DEF Fresher
    <2> QED BY <2>1 DEF Fresher
  <1>4. ~Yields(task)
    BY DEF Calm
  <1>5. Linked(task, new)
    <2>1. \A n \in 2 .. Len(new) : n \in 1 .. Len(new)
      OBVIOUS
    <2> QED BY <1>4, <2>1 DEF Linked
  <1>6. Gives(g, task, h, new)
    BY <1>1, <1>4 DEF Gives
  <1>7. Owing(g, task, h, new)
    BY DEF Owing
  <1>8. \A n \in 1 .. Len(new) : HoldsOver(g, task, h, new, n)
    BY <1>2 DEF HoldsOver
  <1> QED BY <1>1, <1>3, <1>5, <1>6, <1>7, <1>8 DEF Flows

LEMMA FlowsQuiet ==
    ASSUME NEW g, NEW task, ~Calm(task),
           NEW h, Emits(g, h, AtHand(g, task), Gone(g, task)), Fresher(g, task, LoopRefs(h.loops)),
           NEW T, NEW new \in Seq(T), \A t \in T : Quiet(t) /\ Fresher(g, task, Refs(t))
    PROVE  Flows(g, task, h, new)
PROOF
  <1>1. \A n \in 1 .. Len(new) : ~Takes(new[n])
    BY ElementOfSeq DEF Quiet
  <1> QED BY <1>1, FlowsList DEF Quiet

(* Only calm pieces: the labels they owe are new, and what is held is at   *)
(* hand, with no way back to the labels before it.                         *)
LEMMA FlowsHolding ==
    ASSUME NEW g, NEW task, NEW h, Moves(g, task, h),
           NEW T, NEW new \in Seq(T), new # <<>>, Yields(task) => Yields(new[Len(new)]),
           \A t \in T : /\ Calm(t) /\ Fresher(g, task, Refs(t)) /\ Owed(t) \cap Old(g) = {}
                        /\ \A x \in Holds(t) : x.is = "temp" => x \in AtHand(g, task),
           \A n \in 1 .. Len(new) : Takes(new[n]) => n # 1 /\ Yields(new[n - 1]),
           \A n \in 1 .. Len(new) : Holds(new[n]) # {} =>
               \A i \in 1 .. n - 1 : Owed(new[i]) \cap RefsFrom(new, n) = {}
    PROVE  Flows(g, task, h, new)
PROOF
  <1>1. Sequence(new) /\ Len(new) \in Nat /\ 1 \in 1 .. Len(new)
    <2>1. Sequence(new)
      BY DEF Sequence
    <2>2. Len(new) \in Nat /\ (new = <<>> <=> Len(new) = 0)
      BY <2>1, SequenceFacts
    <2> QED BY <2>1, <2>2
  <1>2. \A i \in 1 .. Len(new) :
            /\ Calm(new[i]) /\ Fresher(g, task, Refs(new[i])) /\ Owed(new[i]) \cap Old(g) = {}
            /\ \A x \in Holds(new[i]) : x.is = "temp" => x \in AtHand(g, task)
    BY ElementOfSeq
  <1>3. Emits(g, h, AtHand(g, task), Gone(g, task)) /\ Unlabelled(g, h) /\ h.loops = g.loops
    BY DEF Moves, Goes
  <1>4. (Referred(new) \cup LoopRefs(h.loops)) \cap Gone(g, task) = {}
    <2>1. \A l \in Referred(new) : l \notin Gone(g, task)
      BY <1>2, ReferredIn DEF Fresher
    <2> QED BY <1>3, <2>1 DEF Gone
  <1>5. Linked(task, new)
    <2>1. \A n \in 2 .. Len(new) : n \in 1 .. Len(new)
      OBVIOUS
    <2> QED BY <1>2, <2>1 DEF Linked
  <1>6. Gives(g, task, h, new)
    BY <1>1 DEF Gives
  <1>7. Owing(g, task, h, new)
    <2>1. \A l \in Owes(new) : l \notin Old(g)
      BY <1>2, OwesIn
    <2> QED BY <1>3, <2>1 DEF Owing, Unlabelled
  <1>8. ASSUME NEW n \in 1 .. Len(new), NEW x \in Holds(new[n]), x.is = "temp"
        PROVE  /\ x \in AtHand(g, task)
               /\ \A i \in 1 .. n - 1 :
                      Calm(new[i]) /\ \A l \in Owed(new[i]) : l \notin Old(g) /\ l \notin RefsFrom(new, n)
    <2>1. \A i \in 1 .. n - 1 : i \in 1 .. Len(new)
      BY <1>1
    <2>2. \A i \in 1 .. n - 1 : Owed(new[i]) \cap RefsFrom(new, n) = {}
      BY <1>8
    <2> QED BY <1>2, <1>8, <2>1, <2>2
  <1>9. \A n \in 1 .. Len(new) : HoldsOver(g, task, h, new, n)
    BY <1>3, <1>8 DEF HoldsOver
  <1> QED BY <1>1, <1>3, <1>4, <1>5, <1>6, <1>7, <1>9 DEF Flows

LEMMA FlowsCalm ==
    ASSUME NEW g, NEW task, NEW h, Moves(g, task, h),
           NEW T, NEW new \in Seq(T), new # <<>>, Yields(task) => Yields(new[Len(new)]),
           \A t \in T : /\ Calm(t) /\ Holds(t) = {} /\ Fresher(g, task, Refs(t))
                        /\ Owed(t) \cap Old(g) = {},
           \A n \in 1 .. Len(new) : Takes(new[n]) => n # 1 /\ Yields(new[n - 1])
    PROVE  Flows(g, task, h, new)
PROOF
  <1>1. \A n \in 1 .. Len(new) : Holds(new[n]) = {}
    BY ElementOfSeq
  <1>2. \A t \in T : /\ Calm(t) /\ Fresher(g, task, Refs(t)) /\ Owed(t) \cap Old(g) = {}
                     /\ \A x \in Holds(t) : x.is = "temp" => x \in AtHand(g, task)
    OBVIOUS
  <1> QED BY <1>1, <1>2, FlowsHolding

-----------------------------------------------------------------------------
(* The actions: each replaces the first piece of work as it should.        *)
Flowing == work # <<>> /\ \E h, new : Step(h, new) /\ Flows(gen, Task, h, new)
Have == AtHand(gen, Task)
Past == Gone(gen, Task)

LEMMA Starting ==
    ASSUME Fits, Temps(gen), work # <<>>
    PROVE  /\ Goes(gen, gen, Have, Past) /\ Moves(gen, Task, gen)
           /\ gen.label \in Nat /\ GeneratorOk(gen)
           /\ \A x \in Holds(Task) : KnownAt(gen, gen, Have, x)
           /\ Takes(Task) => KnownAt(gen, gen, Have, gen.value) /\ gen.value \in Have
           /\ Fresher(gen, Task, {}) /\ Fresher(gen, Task, Refs(Task))
           /\ Fresher(gen, Task, LoopRefs(gen.loops))
           /\ \A l \in Nat : l >= gen.label => l \notin Past /\ l \notin Old(gen)
PROOF
  <1>1. GeneratorOk(gen) /\ gen.label \in Nat
    BY Ahead DEF GeneratorOk
  <1>2. Goes(gen, gen, Have, Past) /\ Moves(gen, Task, gen)
    BY <1>1, GoesSelf DEF Moves, Have, Past
  <1>3. \A x \in Have : KnownAt(gen, gen, Have, x)
    BY KnownHere
  <1>4. Holds(Task) \subseteq Have /\ (Takes(Task) => gen.value \in Have)
    BY DEF Have, AtHand
  <1>5. \A l \in Nat : l >= gen.label => l \notin Past /\ l \notin Old(gen)
    BY <1>1 DEF Past, Gone, Old
  <1> QED BY <1>1, <1>2, <1>3, <1>4, <1>5 DEF Fresher, Gone

LEMMA FlowsAfter ==
    ASSUME NEW h, Onward(gen, h), Goes(gen, h, Have, Past),
           Yields(Task) => KnownAt(gen, h, {}, h.value)
    PROVE  Flows(gen, Task, h, <<>>) /\ Moves(gen, Task, h)
PROOF
  <1>1. Moves(gen, Task, h)
    BY DEF Moves, Onward, Have, Past
  <1> QED BY <1>1, FlowsDone

LEMMA PlainTask ==
    ASSUME NEW t, Neutral(t)
    PROVE  Owed(t) = {} /\ Refs(t) = {}
  BY NeutralTask

LEMMA FlowsLeaf ==
    ASSUME Fits, Temps(gen), CgLiteral \/ CgName \/ CgUnary \/ CgUnaryOperation
    PROVE  Flowing
PROOF
  <1>1. CASE CgLiteral
    <2> DEFINE v == Value("const", Task.e.t, Task.e.v)
               h == Holding(gen, v)
    <2>1. Doing("eval") /\ Step(h, <<>>)
      BY <1>1 DEF CgLiteral, Evaluating
    <2>2. work # <<>> /\ Onward(gen, h)
      BY <2>1, NeutralDoing, OnwardHolding
    <2>3. Yielded(gen, gen, h, Have, Past)
      BY <2>2, Starting, ConstKnown, HoldingGoes
    <2> HIDE DEF h
    <2> QED BY <2>1, <2>2, <2>3, FlowsAfter DEF Flowing, Yielded
  <1>2. CASE CgName
    <2> DEFINE x == Task.e.x
               h == IF x \in DOMAIN gen.env THEN Load(gen, gen.env[x].slot, gen.env[x].t)
                    ELSE Holding(gen, Zero(gen.seen[x]))
    <2>1. Doing("eval") /\ Step(h, <<>>)
      BY <1>2 DEF CgName, Evaluating
    <2>2. work # <<>> /\ Onward(gen, h)
      BY <2>1, NeutralDoing, OnwardHolding, OnwardLoad
    <2>3. Goes(gen, gen, Have, Past)
      BY <2>2, Starting
    <2>4. Yielded(gen, gen, h, Have, Past)
      BY <2>3, ConstKnown, HoldingGoes, LoadGoes
    <2> HIDE DEF h
    <2> QED BY <2>1, <2>2, <2>4, FlowsAfter DEF Flowing, Yielded
  <1>3. CASE CgUnary
    <2> DEFINE a == ToEval(Task.e.e)
               b == ToUnary(Task.e.op)
    <2>1. Doing("eval") /\ Step(gen, <<a, b>>)
      BY <1>3 DEF CgUnary, Evaluating
    <2>2. /\ Owed(a) = {} /\ Refs(a) = {} /\ Owed(b) = {} /\ Refs(b) = {}
          /\ Yields(a) /\ Calm(a) /\ Quiet(a) /\ Yields(b) /\ Calm(b) /\ Holds(b) = {}
      BY TasksNeutral, PlainTask, ValuesOfExpressions
    <2>3. work # <<>>
      BY <2>1 DEF Doing
    <2> HIDE DEF a, b
    <2>4. Flows(gen, Task, gen, <<a, b>>)
      BY <2>2, <2>3, Starting, FlowsTwo DEF Quiet
    <2> QED BY <2>1, <2>3, <2>4 DEF Flowing
  <1>4. CASE CgUnaryOperation
    <2> DEFINE h == IF Task.op = "!" THEN Calc(gen, "!", <<gen.value>>, "bool")
                    ELSE Calc(gen, "-", <<Zero("int"), gen.value>>, "int")
    <2>1. Doing("unary") /\ Step(h, <<>>) /\ Takes(Task)
      BY <1>4 DEF CgUnaryOperation, Takes, Doing
    <2>2. work # <<>> /\ Onward(gen, h)
      BY <2>1, NeutralDoing, OnwardCalc
    <2>3. Goes(gen, gen, Have, Past) /\ KnownAt(gen, gen, Have, gen.value)
      BY <2>1, <2>2, Starting
    <2>4. Yielded(gen, gen, h, Have, Past)
      BY <2>3, ConstKnown, ArgsKnown, CalcGoes
    <2> HIDE DEF h
    <2> QED BY <2>1, <2>2, <2>4, FlowsAfter DEF Flowing, Yielded
  <1> QED BY <1>1, <1>2, <1>3, <1>4

LEMMA TakeGoes ==
    ASSUME NEW b, NEW g, NEW have, NEW gone, Goes(b, g, have, gone), GeneratorOk(g), NEW n \in Nat
    PROVE  LET h == Take(g, n)
           IN  /\ Goes(b, h, have, gone) /\ h.loops = g.loops /\ h.value = g.value
               /\ \A x : KnownAt(b, g, have, x) => KnownAt(b, h, have, x)
PROOF
  <1> DEFINE h == Take(g, n)
  <1>1. /\ Generator(h) /\ h.lines = g.lines /\ h.temp = g.temp /\ h.loops = g.loops
        /\ h.value = g.value
    BY TakeFields DEF GeneratorOk
  <1> HIDE DEF h
  <1>2. Goes(b, h, have, gone)
    BY <1>1, GoesAlike
  <1>3. \A x : KnownAt(b, g, have, x) => KnownAt(b, h, have, x)
    BY <1>1 DEF KnownAt, Knows
  <1> QED BY <1>1, <1>2, <1>3 DEF h

LEMMA FlowsFork ==
    ASSUME Fits, Temps(gen), CgFork
    PROVE  Flowing
PROOF
  <1> DEFINE s == Store(gen, Task.slot, "bool")
             left == Take(s, 2)
             rhs == gen.label
             end == gen.label + 1
             h == IF Task.e.op = "&&" THEN Branch(left, rhs, end) ELSE Branch(left, end, rhs)
             t1 == ToLabel(rhs)
             t2 == ToEval(Task.e.r)
             t3 == ToStore(Task.slot, "bool")
             t4 == ToJump(end)
             t5 == ToLabel(end)
             t6 == ToLoad(Task.slot, "bool")
             T == {t1, t2, t3, t4, t5, t6}
             new == <<t1, t2, t3, t4, t5, t6>>
  <1>1. Doing("fork") /\ Task.do = "fork" /\ Step(h, new)
    BY DEF CgFork, Doing
  <1>2. work # <<>> /\ Takes(Task) /\ Ready(gen)
    BY <1>1, NeutralDoing DEF Takes
  <1>3. /\ Goes(gen, gen, Have, Past) /\ KnownAt(gen, gen, Have, gen.value)
        /\ gen.label \in Nat
        /\ \A l \in Nat : l >= gen.label => l \notin Past /\ l \notin Old(gen)
    BY <1>2, Starting
  <1>4. rhs \notin Past /\ end \notin Past /\ rhs \notin Old(gen) /\ end \notin Old(gen)
    BY <1>3
  <1>5. Goes(gen, s, Have, Past)
    BY <1>3, StoreGoes
  <1>6. Onward(gen, s)
    BY <1>2, OnwardStore
  <1>7. s.value = gen.value /\ s.loops = gen.loops
    BY <1>3, StoreLoops DEF Store, Goes
  <1> HIDE DEF s
  <1>8. KnownAt(gen, s, Have, s.value)
    BY <1>3, <1>7, KnownHere, <1>2 DEF Have, AtHand
  <1>9. /\ Goes(gen, left, Have, Past) /\ left.loops = s.loops
        /\ KnownAt(gen, left, Have, left.value)
    BY <1>5, <1>6, <1>8, TakeGoes DEF Onward, Ready
  <1> HIDE DEF left
  <1>10. Goes(gen, h, Have, Past) /\ h.loops = left.loops
    BY <1>4, <1>9, BranchGoes
  <1>11. Moves(gen, Task, h)
    BY <1>7, <1>9, <1>10 DEF Moves, Have, Past
  <1>12. \A t \in T : /\ Calm(t) /\ Holds(t) = {} /\ Fresher(gen, Task, Refs(t))
                      /\ Owed(t) \cap Old(gen) = {}
    <2>1. /\ Owed(t1) = {rhs} /\ Refs(t1) = {} /\ Owed(t2) = {} /\ Refs(t2) = {}
          /\ Owed(t3) = {} /\ Refs(t3) = {} /\ Owed(t4) = {} /\ Refs(t4) = {end}
          /\ Owed(t5) = {end} /\ Refs(t5) = {} /\ Owed(t6) = {} /\ Refs(t6) = {}
      BY TaskLabel, TaskJump, TasksNeutral, PlainTask
    <2>2. \A t \in T : Calm(t) /\ Holds(t) = {}
      BY ValuesOfExpressions, ValuesOfLabels DEF Quiet
    <2> HIDE DEF t1, t2, t3, t4, t5, t6
    <2> QED BY <1>4, <2>1, <2>2 DEF Fresher, Past
  <1>13. /\ ~Takes(t1) /\ ~Takes(t2) /\ ~Takes(t4) /\ ~Takes(t5) /\ ~Takes(t6)
         /\ Yields(t2) /\ Yields(t6)
    BY ValuesOfExpressions, ValuesOfLabels DEF Quiet
  <1> HIDE DEF t1, t2, t3, t4, t5, t6, h
  <1>14. /\ new \in Seq(T) /\ new # <<>> /\ Len(new) = 6 /\ new[6] = t6
         /\ new[1] = t1 /\ new[2] = t2 /\ new[4] = t4 /\ new[5] = t5
    OBVIOUS
  <1> HIDE DEF T, new
  <1>15. \A n \in 1 .. Len(new) : Takes(new[n]) => n # 1 /\ Yields(new[n - 1])
    <2>1. \A n \in 1 .. 6 : n = 1 \/ n = 2 \/ n = 3 \/ n = 4 \/ n = 5 \/ n = 6
      OBVIOUS
    <2>2. \A n \in 1 .. 6 : Takes(new[n]) => n = 3
      BY <1>13, <1>14, <2>1
    <2> QED BY <1>13, <1>14, <2>2
  <1>16. Flows(gen, Task, h, new)
    BY <1>11, <1>12, <1>13, <1>14, <1>15, FlowsCalm
  <1> QED BY <1>1, <1>2, <1>16 DEF Flowing

LEMMA FlowsBinary ==
    ASSUME Fits, Temps(gen), CgLogic \/ CgStore \/ CgLoad \/ CgBinary \/ CgRight \/ CgCombine
    PROVE  Flowing
PROOF
  <1>1. CASE CgLogic
    <2> DEFINE a == ToEval(Task.e.l)
               b == ToFork(Task.e, gen.slot)
               h == Slot(gen)
    <2>1. Doing("eval") /\ Step(h, <<a, b>>)
      BY <1>1 DEF CgLogic, Evaluating
    <2>2. /\ Owed(a) = {} /\ Refs(a) = {} /\ Owed(b) = {} /\ Refs(b) = {}
          /\ Yields(a) /\ Calm(a) /\ Quiet(a) /\ Yields(b) /\ Calm(b) /\ Holds(b) = {}
      BY TasksNeutral, PlainTask, ValuesOfExpressions
    <2>3. work # <<>>
      BY <2>1 DEF Doing
    <2>4. Goes(gen, gen, Have, Past) /\ Fresher(gen, Task, {})
      BY <2>3, Starting
    <2>5. Moves(gen, Task, h)
      BY <2>4, FieldsGoes DEF Moves, Have, Past
    <2> HIDE DEF a, b, h
    <2>6. Flows(gen, Task, h, <<a, b>>)
      BY <2>2, <2>4, <2>5, FlowsTwo DEF Quiet
    <2> QED BY <2>1, <2>3, <2>6 DEF Flowing
  <1>2. CASE CgStore
    <2> DEFINE h == Store(gen, Task.slot, Task.t)
    <2>1. Doing("store") /\ Step(h, <<>>) /\ Takes(Task) /\ ~Yields(Task)
      BY <1>2 DEF CgStore, Takes, Yields, Doing
    <2>2. work # <<>> /\ Onward(gen, h)
      BY <2>1, NeutralDoing, OnwardStore
    <2>3. Goes(gen, h, Have, Past)
      BY <2>1, <2>2, Starting, StoreGoes
    <2> HIDE DEF h
    <2> QED BY <2>1, <2>2, <2>3, FlowsAfter DEF Flowing
  <1>3. CASE CgLoad
    <2> DEFINE h == Load(gen, Task.slot, Task.t)
    <2>1. Doing("load") /\ Step(h, <<>>)
      BY <1>3 DEF CgLoad
    <2>2. work # <<>> /\ Onward(gen, h)
      BY <2>1, NeutralDoing, OnwardLoad
    <2>3. Yielded(gen, gen, h, Have, Past)
      BY <2>2, Starting, LoadGoes
    <2> HIDE DEF h
    <2> QED BY <2>1, <2>2, <2>3, FlowsAfter DEF Flowing, Yielded
  <1>4. CASE CgBinary
    <2> DEFINE a == ToEval(Task.e.l)
               b == ToRight(Task.e)
    <2>1. Doing("eval") /\ Step(gen, <<a, b>>)
      BY <1>4 DEF CgBinary, Evaluating
    <2>2. /\ Owed(a) = {} /\ Refs(a) = {} /\ Owed(b) = {} /\ Refs(b) = {}
          /\ Yields(a) /\ Calm(a) /\ Quiet(a) /\ Yields(b) /\ Calm(b) /\ Holds(b) = {}
      BY TasksNeutral, PlainTask, ValuesOfExpressions
    <2>3. work # <<>>
      BY <2>1 DEF Doing
    <2> HIDE DEF a, b
    <2>4. Flows(gen, Task, gen, <<a, b>>)
      BY <2>2, <2>3, Starting, FlowsTwo DEF Quiet
    <2> QED BY <2>1, <2>3, <2>4 DEF Flowing
  <1>5. CASE CgRight
    <2> DEFINE a == ToEval(Task.e.r)
               b == ToCombine(Task.e.op, gen.value)
    <2>1. Doing("right") /\ Step(gen, <<a, b>>) /\ Takes(Task)
      BY <1>5 DEF CgRight, Takes, Doing
    <2>2. /\ Owed(a) = {} /\ Refs(a) = {} /\ Owed(b) = {} /\ Refs(b) = {}
          /\ Yields(a) /\ Calm(a) /\ Quiet(a) /\ Yields(b) /\ Calm(b) /\ Holds(b) = {gen.value}
      BY TasksNeutral, PlainTask, ValuesOfExpressions
    <2>3. work # <<>>
      BY <2>1 DEF Doing
    <2> HIDE DEF a, b
    <2>4. gen.value \in AtHand(gen, Task)
      BY <2>1, <2>3, Starting DEF Have
    <2>5. Flows(gen, Task, gen, <<a, b>>)
      BY <2>2, <2>3, <2>4, Starting, FlowsTwo DEF Quiet
    <2> QED BY <2>1, <2>3, <2>5 DEF Flowing
  <1>6. CASE CgCombine
    <2> DEFINE h == CgOperation(gen, Task.op, Task.left, gen.value)
    <2>1. Doing("combine") /\ Step(h, <<>>) /\ Takes(Task) /\ Task.left \in Holds(Task)
      BY <1>6 DEF CgCombine, Takes, Holds, Doing
    <2>2. work # <<>> /\ Onward(gen, h)
      BY <2>1, NeutralDoing, OnwardOperation
    <2>3. Yielded(gen, gen, h, Have, Past)
      BY <2>1, <2>2, Starting, OperationGoes
    <2> HIDE DEF h
    <2> QED BY <2>1, <2>2, <2>3, FlowsAfter DEF Flowing, Yielded
  <1> QED BY <1>1, <1>2, <1>3, <1>4, <1>5, <1>6

LEMMA ArgumentFrom ==
    ASSUME NEW s, Sequence(s), NEW n, NEW v
    PROVE  LET new == [s EXCEPT ![n] = v]
           IN  /\ Sequence(new) /\ Len(new) = Len(s)
               /\ \A k \in 1 .. Len(s) : new[k] = s[k] \/ new[k] = v
PROOF
  <1>1. PICK V : s \in Seq(V)
    BY DEF Sequence
  <1> DEFINE W == V \cup {v}
             new == [s EXCEPT ![n] = v]
  <1>2. s \in Seq(W) /\ v \in W
    BY <1>1
  <1> HIDE DEF W
  <1>3. new \in Seq(W) /\ Len(new) = Len(s)
    BY <1>2, ExceptAnywhere
  <1>4. DOMAIN s = 1 .. Len(s)
    BY <1>1
  <1>5. \A k \in 1 .. Len(s) : new[k] = s[k] \/ new[k] = v
    BY <1>4
  <1> QED BY <1>3, <1>5 DEF Sequence

LEMMA TailFrom ==
    ASSUME NEW s, Sequence(s), s # <<>>
    PROVE  /\ 1 \in 1 .. Len(s) /\ Head(s) = s[1]
           /\ {Tail(s)[k] : k \in 1 .. Len(Tail(s))} \subseteq {s[k] : k \in 1 .. Len(s)}
PROOF
  <1>1. PICK V : s \in Seq(V)
    BY DEF Sequence
  <1>2. Len(s) \in Nat /\ Len(s) >= 1
    BY SequenceFacts
  <1>3. /\ Head(s) = s[1] /\ Len(Tail(s)) = Len(s) - 1
        /\ \A i \in 1 .. Len(Tail(s)) : Tail(s)[i] = s[i + 1]
    BY <1>1, HeadTailProperties
  <1>4. \A k \in 1 .. Len(Tail(s)) : k + 1 \in 1 .. Len(s) /\ Tail(s)[k] = s[k + 1]
    BY <1>2, <1>3
  <1> HIDE <1>3
  <1> QED BY <1>2, <1>3, <1>4

LEMMA FlowsCall ==
    ASSUME Fits, Temps(gen), NEW E, NEW S, Built(E, S), WorkBuilt(E, S, work),
           CgCall \/ CgPass \/ CgPrint \/ CgApply
    PROVE  Flowing
PROOF
  <1>1. CASE CgCall
    <2> DEFINE none == [i \in 1 .. Len(Task.e.args) |-> Nothing]
               a == ToPass(Task.e, 0, none)
    <2>1. Doing("eval") /\ Step(gen, <<a>>)
      BY <1>1 DEF CgCall, Evaluating
    <2>2. work # <<>>
      BY <2>1 DEF Doing
    <2>3. /\ Owed(a) = {} /\ Refs(a) = {} /\ Yields(a) /\ Calm(a) /\ ~Takes(a)
          /\ Holds(a) = {none[k] : k \in 1 .. Len(none)}
      BY TasksNeutral, PlainTask, ValuesOfCalls
    <2>4. \A x \in Holds(a) : x.is # "temp"
      <3>1. Task.e \in E /\ Task.e.k = "call"
        BY <1>1, <2>2, BuiltFirst DEF CgCall, Evaluating, Doing, TaskBuilt, None
      <3>2. Task.e.args \in Seq([p: STRING, e: E])
        BY <3>1 DEF Built, ExpressionBuilt
      <3>3. Len(none) = Len(Task.e.args) /\ Len(Task.e.args) \in Nat
        BY <3>2
      <3>4. \A k \in 1 .. Len(none) : none[k] = Nothing
        BY <3>3
      <3> HIDE DEF none
      <3> QED BY <2>3, <3>4 DEF Nothing, Value
    <2> HIDE DEF a
    <2>5. Flows(gen, Task, gen, <<a>>)
      BY <2>2, <2>3, <2>4, Starting, FlowsOne
    <2> QED BY <2>1, <2>2, <2>5 DEF Flowing
  <1>2. CASE CgPass
    <2> DEFINE call == Task.call
               i == Task.i
               old == Task.vals
               v == gen.value
               to == Target(call, i)
               put == [old EXCEPT ![to] = v]
               vals == IF i = 0 THEN old ELSE put
               a == ToEval(call.args[i + 1].e)
               b == ToPass(call, i + 1, vals)
               p == ToPrint(vals)
               q == ToApply(call.f, <<>>)
               r == ToApply(call.f, vals)
    <2>1. /\ Doing("pass") /\ Task.do = "pass"
          /\ Step(gen, <<a, b>>) \/ Step(gen, <<p, q>>) \/ Step(gen, <<r>>)
      BY <1>2 DEF CgPass, CgArgument, Doing
    <2>2. work # <<>> /\ Sequence(old)
      BY <2>1, BuiltFirst DEF Doing, TaskBuilt
    <2>3. Holds(Task) = {old[k] : k \in 1 .. Len(old)} /\ (i # 0 => Takes(Task))
      BY <2>1 DEF Holds, Takes
    <2>4. Holds(Task) \subseteq AtHand(gen, Task) /\ (Takes(Task) => v \in AtHand(gen, Task))
      BY DEF AtHand
    <2>5. \A x \in {vals[k] : k \in 1 .. Len(vals)} : x \in AtHand(gen, Task)
      <3> HIDE DEF old, v, to, i
      <3>1. i = 0 => vals = old
        OBVIOUS
      <3>2. i # 0 => vals = put
        OBVIOUS
      <3>3. /\ Len(put) = Len(old)
            /\ \A k \in 1 .. Len(old) : put[k] = old[k] \/ put[k] = v
        BY <2>2, ArgumentFrom
      <3> HIDE DEF vals, put
      <3> QED BY <2>3, <2>4, <3>1, <3>2, <3>3
    <2> HIDE DEF vals
    <2>6. /\ Owed(a) = {} /\ Refs(a) = {} /\ Owed(b) = {} /\ Refs(b) = {}
          /\ Owed(p) = {} /\ Refs(p) = {} /\ Owed(q) = {} /\ Refs(q) = {}
          /\ Owed(r) = {} /\ Refs(r) = {}
      BY TasksNeutral, PlainTask
    <2>7. Yields(a) /\ Calm(a) /\ Quiet(a)
      BY ValuesOfExpressions
    <2>8. /\ Yields(b) /\ Calm(b) /\ Holds(b) = {vals[k] : k \in 1 .. Len(vals)}
          /\ Calm(p) /\ ~Takes(p) /\ Holds(p) = {vals[k] : k \in 1 .. Len(vals)}
          /\ Yields(r) /\ Calm(r) /\ ~Takes(r) /\ Holds(r) = {vals[k] : k \in 1 .. Len(vals)}
      BY ValuesOfCalls
    <2>9. Yields(q) /\ Calm(q) /\ ~Takes(q) /\ Holds(q) = {}
      <3>1. Holds(q) = {<<>>[k] : k \in 1 .. Len(<<>>)}
        BY ValuesOfCalls
      <3> QED BY <3>1, ValuesOfCalls
    <2> HIDE DEF a, b, p, q, r
    <2>10. Flows(gen, Task, gen, <<a, b>>)
      BY <2>2, <2>5, <2>6, <2>7, <2>8, Starting, FlowsTwo DEF Quiet
    <2>11. Flows(gen, Task, gen, <<p, q>>)
      BY <2>2, <2>5, <2>6, <2>8, <2>9, Starting, FlowsTwo
    <2>12. Flows(gen, Task, gen, <<r>>)
      BY <2>2, <2>5, <2>6, <2>8, Starting, FlowsOne
    <2> QED BY <2>1, <2>2, <2>10, <2>11, <2>12 DEF Flowing
  <1>3. CASE CgPrint
    <2> DEFINE vals == Task.vals
               x == Head(vals)
               h == Put(gen, x)
               a == ToPrint(Tail(vals))
    <2>1. /\ Doing("print") /\ Task.do = "print"
          /\ Step(gen, <<>>) \/ (vals # <<>> /\ Step(h, <<a>>))
      BY <1>3 DEF CgPrint, Doing
    <2>2. work # <<>> /\ Sequence(vals)
      BY <2>1, BuiltFirst DEF Doing, TaskBuilt
    <2>3. Holds(Task) = {vals[k] : k \in 1 .. Len(vals)} /\ ~Yields(Task)
      BY <2>1 DEF Holds, Yields
    <2>4. Flows(gen, Task, gen, <<>>)
      BY <2>2, <2>3, Starting, FlowsDone
    <2>5. ASSUME vals # <<>>
          PROVE  Flows(gen, Task, h, <<a>>)
      <3>1. /\ Owed(a) = {} /\ Refs(a) = {} /\ Calm(a) /\ ~Takes(a)
            /\ Holds(a) = {Tail(vals)[k] : k \in 1 .. Len(Tail(vals))}
        BY TasksNeutral, PlainTask, ValuesOfCalls
      <3> HIDE DEF vals
      <3>2. x \in Holds(Task) /\ Holds(a) \subseteq Holds(Task)
        BY <2>2, <2>3, <2>5, <3>1, TailFrom
      <3>3. Onward(gen, h)
        BY <2>1, NeutralDoing, OnwardPut
      <3>4. Goes(gen, h, Have, Past)
        BY <2>2, <3>2, Starting, PutGoes
      <3>5. Moves(gen, Task, h)
        BY <3>3, <3>4 DEF Moves, Onward, Have, Past
      <3>6. Holds(a) \subseteq AtHand(gen, Task)
        BY <3>2 DEF AtHand
      <3> HIDE DEF a, h, x
      <3> QED BY <2>2, <2>3, <3>1, <3>5, <3>6, Starting, FlowsOne
    <2> QED BY <2>1, <2>2, <2>4, <2>5 DEF Flowing
  <1>4. CASE CgApply
    <2> DEFINE v == Task.vals
               h == Applied(gen, Task.f, v)
    <2>1. Doing("apply") /\ Task.do = "apply" /\ Step(h, <<>>)
      BY <1>4 DEF CgApply, Doing
    <2>2. work # <<>> /\ Onward(gen, h)
      BY <2>1, NeutralDoing, OnwardApplied
    <2>3. Sequence(v) /\ (~Variadic(Task.f) => Len(v) = Len(ParamsOf(Task.f)))
      BY <2>1, <2>2, BuiltFirst DEF TaskBuilt
    <2>4. Holds(Task) = {v[k] : k \in 1 .. Len(v)}
      BY <2>1 DEF Holds
    <2>5. Goes(gen, gen, Have, Past) /\ \A k \in 1 .. Len(v) : KnownAt(gen, gen, Have, v[k])
      BY <2>2, <2>4, Starting
    <2> HIDE DEF v
    <2>6. Yielded(gen, gen, h, Have, Past)
      BY <2>3, <2>5, AppliedGoes
    <2> HIDE DEF h
    <2> QED BY <2>1, <2>2, <2>6, FlowsAfter DEF Flowing, Yielded
  <1> QED BY <1>1, <1>2, <1>3, <1>4

(* A label that was owed.                                                  *)
LEMMA FlowsLabel ==
    ASSUME Fits, Temps(gen), CgLabel
    PROVE  Flowing
PROOF
  <1> DEFINE h == Label(gen, Task.to)
             line == [op |-> "label", to |-> Task.to]
  <1>1. Doing("label") /\ Step(h, <<>>) /\ ~Yields(Task) /\ Owed(Task) = {Task.to}
    BY DEF CgLabel, Yields, Owed, Doing
  <1>2. work # <<>>
    BY <1>1 DEF Doing
  <1>3. /\ Goes(gen, gen, Have, Past) /\ Fresher(gen, Task, LoopRefs(gen.loops))
        /\ Sequence(gen.lines)
    BY <1>2, Starting DEF GeneratorOk
  <1>4. /\ Emits(gen, h, Have, Past) /\ h.loops = gen.loops
        /\ h.lines = Append(gen.lines, line)
    BY <1>3, LabelGoes
  <1> HIDE DEF h
  <1>5. \A i \in Len(gen.lines) + 1 .. Len(h.lines) : h.lines[i].to \in Owed(Task)
    <2>1. /\ Len(gen.lines) \in Nat /\ Len(h.lines) = Len(gen.lines) + 1
          /\ h.lines[Len(gen.lines) + 1] = line
      BY <1>3, <1>4, AppendIsSequence
    <2>2. \A i \in Len(gen.lines) + 1 .. Len(h.lines) : i = Len(gen.lines) + 1
      BY <2>1
    <2>3. line.to = Task.to
      OBVIOUS
    <2> HIDE DEF line
    <2> QED BY <1>1, <2>1, <2>2, <2>3
  <1>6. Sequence(<<>>) /\ Owes(<<>>) = {} /\ Referred(<<>>) = {} /\ Len(<<>>) = 0
    BY NoTasks
  <1>7. (Referred(<<>>) \cup LoopRefs(h.loops)) \cap Gone(gen, Task) = {}
    BY <1>3, <1>4, <1>6 DEF Fresher
  <1>8. Linked(Task, <<>>) /\ Gives(gen, Task, h, <<>>)
    BY <1>1, <1>6 DEF Linked, Gives
  <1>9. Owing(gen, Task, h, <<>>)
    BY <1>4, <1>5, <1>6 DEF Owing
  <1>10. \A n \in 1 .. Len(<<>>) : HoldsOver(gen, Task, h, <<>>, n)
    OBVIOUS
  <1>11. Flows(gen, Task, h, <<>>)
    BY <1>4, <1>6, <1>7, <1>8, <1>9, <1>10 DEF Flows, Have, Past
  <1> QED BY <1>1, <1>2, <1>11 DEF Flowing

(* A terminator that was to come.                                          *)
LEMMA FlowsEnd ==
    ASSUME Fits, Temps(gen), CgJump \/ CgBranch \/ CgTest
    PROVE  Flowing
PROOF
  <1>1. CASE CgJump
    <2> DEFINE h == Jump(gen, Task.to)
    <2>1. work # <<>> /\ Step(h, <<>>) /\ ~Yields(Task) /\ Refs(Task) = {Task.to}
      BY <1>1 DEF CgJump, Yields, Refs, Doing
    <2>2. Goes(gen, gen, Have, Past) /\ Task.to \notin Past
      BY <2>1, Starting DEF Fresher, Past
    <2>3. Moves(gen, Task, h)
      BY <2>2, JumpGoes DEF Moves, Have, Past
    <2> HIDE DEF h
    <2> QED BY <2>1, <2>3, FlowsDone DEF Flowing
  <1>2. CASE CgBranch
    <2> DEFINE h == Branch(gen, Task.yes, Task.no)
    <2>1. /\ work # <<>> /\ Step(h, <<>>) /\ ~Yields(Task) /\ Takes(Task)
          /\ Refs(Task) = {Task.yes, Task.no}
      BY <1>2 DEF CgBranch, Yields, Takes, Refs, Doing
    <2>2. /\ Goes(gen, gen, Have, Past) /\ {Task.yes, Task.no} \cap Past = {}
          /\ KnownAt(gen, gen, Have, gen.value)
      BY <2>1, Starting DEF Fresher, Past
    <2>3. Moves(gen, Task, h)
      BY <2>2, BranchGoes DEF Moves, Have, Past
    <2> HIDE DEF h
    <2> QED BY <2>1, <2>3, FlowsDone DEF Flowing
  <1>3. CASE CgTest
    <2> DEFINE h == Jump(gen, Task.yes)
               a == ToEval(Task.c)
               b == ToBranch(Task.yes, Task.no)
    <2>1. /\ work # <<>> /\ ~Yields(Task) /\ ~Calm(Task) /\ Refs(Task) = {Task.yes, Task.no}
          /\ Step(h, <<>>) \/ Step(gen, <<a, b>>)
      BY <1>3 DEF CgTest, Yields, Calm, Refs, Doing
    <2>2. Goes(gen, gen, Have, Past) /\ Task.yes \notin Past /\ Moves(gen, Task, gen)
      BY <2>1, Starting DEF Fresher, Past
    <2>3. Moves(gen, Task, h)
      BY <2>2, JumpGoes DEF Moves, Have, Past
    <2>4. /\ Owed(a) = {} /\ Refs(a) = {} /\ Yields(a) /\ Quiet(a)
          /\ Refs(b) = Refs(Task) /\ Holds(b) = {}
      BY <2>1, TasksNeutral, PlainTask, ValuesOfExpressions, ValuesOfLabels, TaskBranch
    <2> HIDE DEF a, b, h
    <2>5. Flows(gen, Task, h, <<>>)
      BY <2>1, <2>3, FlowsDone
    <2>6. Fresher(gen, Task, Refs(a)) /\ Fresher(gen, Task, Refs(b))
      BY <2>1, <2>4, Starting
    <2>7. Flows(gen, Task, gen, <<a, b>>)
      BY <2>1, <2>2, <2>4, <2>6, FlowsTwo DEF Quiet
    <2> QED BY <2>1, <2>5, <2>7 DEF Flowing
  <1> QED BY <1>1, <1>2, <1>3

(* The loop stack has no part in it either.                                *)
LEMMA EmitsAlike ==
    ASSUME NEW b, NEW g, NEW have, NEW gone, Emits(b, g, have, gone),
           NEW h, h.lines = g.lines, h.temp = g.temp
    PROVE  Emits(b, h, have, gone)
PROOF
  <1>1. Extends(b, h)
    BY DEF Emits, Extends
  <1>2. Temps(h)
    BY DEF Emits, Temps
  <1>3. \A i, x : Knows(b, g, have, i, x) => Knows(b, h, have, i, x)
    BY DEF Knows
  <1> QED BY <1>1, <1>2, <1>3 DEF Emits

LEMMA FlowsGone ==
    ASSUME NEW g, NEW task, ~Calm(task),
           NEW h, Emits(g, h, AtHand(g, task), Gone(g, task)), Fresher(g, task, LoopRefs(h.loops))
    PROVE  Flows(g, task, h, <<>>)
PROOF
  <1> DEFINE T == {}
             new == <<>>
  <1>1. new \in Seq(T) /\ \A t \in T : Quiet(t) /\ Fresher(g, task, Refs(t))
    OBVIOUS
  <1> HIDE DEF T, new
  <1>2. Flows(g, task, h, new)
    BY <1>1, FlowsQuiet
  <1> QED BY <1>2 DEF new

LEMMA FlowsFrame ==
    ASSUME Fits, Temps(gen), CgEnter \/ CgLeave
    PROVE  Flowing
PROOF
  <1>1. CASE CgEnter
    <2> DEFINE k == Label(gen, Task.to)
               h == LoopPush(k, Task.out, Task.next)
    <2>1. /\ work # <<>> /\ ~Calm(Task) /\ Refs(Task) = {Task.out, Task.next}
          /\ Step(h, <<>>)
      BY <1>1 DEF CgEnter, Yields, Calm, Refs, Doing
    <2>2. /\ Goes(gen, gen, Have, Past) /\ GeneratorOk(gen)
          /\ Fresher(gen, Task, Refs(Task)) /\ Fresher(gen, Task, LoopRefs(gen.loops))
          /\ Refs(Task) \subseteq Nat
      BY <2>1, Starting, Ahead
    <2>3. Emits(gen, k, Have, Past) /\ k.loops = gen.loops
      BY <2>2, LabelGoes
    <2>4. Generator(k)
      BY <2>2, EmitFields DEF Label, GeneratorOk
    <2> HIDE DEF k
    <2>5. /\ h.lines = k.lines /\ h.temp = k.temp
          /\ LoopRefs(h.loops) \subseteq LoopRefs(gen.loops) \cup Refs(Task)
      <3>1. k.loops \in Seq(Frames) /\ Task.out \in Nat /\ Task.next \in Nat
        BY <2>1, <2>2, <2>3 DEF GeneratorOk
      <3> HIDE DEF h
      <3>2. LET pushed == LoopPush(k, Task.out, Task.next)
            IN  /\ pushed.lines = k.lines /\ pushed.temp = k.temp
                /\ LoopRefs(pushed.loops) \subseteq LoopRefs(k.loops) \cup {Task.out, Task.next}
        BY <2>4, <3>1, PushFields
      <3>3. /\ h.lines = k.lines /\ h.temp = k.temp
            /\ LoopRefs(h.loops) \subseteq LoopRefs(k.loops) \cup {Task.out, Task.next}
        BY <3>2, Zenon DEF h
      <3> QED BY <2>1, <2>3, <3>3
    <2> HIDE DEF h
    <2>6. Emits(gen, h, AtHand(gen, Task), Gone(gen, Task))
      BY <2>3, <2>5, EmitsAlike DEF Have, Past
    <2>7. Fresher(gen, Task, LoopRefs(h.loops))
      BY <2>2, <2>5 DEF Fresher
    <2>8. Flows(gen, Task, h, <<>>)
      BY <2>1, <2>6, <2>7, FlowsGone
    <2> QED BY <2>1, <2>8 DEF Flowing
  <1>2. CASE CgLeave
    <2> DEFINE h == LoopPop(gen)
    <2>1. work # <<>> /\ ~Calm(Task) /\ Step(h, <<>>)
      BY <1>2 DEF CgLeave, Yields, Calm, Doing
    <2>2. /\ Emits(gen, gen, Have, Past) /\ GeneratorOk(gen)
          /\ Fresher(gen, Task, LoopRefs(gen.loops))
      BY <2>1, Starting DEF Goes
    <2>3. /\ h.lines = gen.lines /\ h.temp = gen.temp
          /\ LoopRefs(h.loops) \subseteq LoopRefs(gen.loops)
      BY <2>2, PopFields DEF GeneratorOk
    <2> HIDE DEF h
    <2>4. Emits(gen, h, AtHand(gen, Task), Gone(gen, Task))
      BY <2>2, <2>3, EmitsAlike DEF Have, Past
    <2>5. Fresher(gen, Task, LoopRefs(h.loops))
      BY <2>2, <2>3 DEF Fresher
    <2>6. Flows(gen, Task, h, <<>>)
      BY <2>1, <2>4, <2>5, FlowsGone
    <2> QED BY <2>1, <2>6 DEF Flowing
  <1> QED BY <1>1, <1>2

LEMMA FlowsSimple ==
    ASSUME Fits, Temps(gen), CgBind \/ CgBlock \/ CgScope \/ CgDo \/ CgFor \/ CgSwitch \/ CgCompare
    PROVE  Flowing
PROOF
  <1>1. CASE CgBind
    <2> DEFINE h == CgParam(gen, Unit.name, Task.i)
               a == ToBind(Task.i + 1)
    <2>1. /\ work # <<>> /\ ~Calm(Task) /\ ~Yields(Task)
          /\ Step(gen, <<>>) \/ Step(h, <<a>>)
      BY <1>1 DEF CgBind, Calm, Yields, Doing
    <2>2. Owed(a) = {} /\ Refs(a) = {} /\ ~Takes(a) /\ Holds(a) = {}
      BY TasksNeutral, PlainTask, ValuesOfStatements DEF Quiet
    <2>3. Goes(gen, gen, Have, Past) /\ Moves(gen, Task, gen) /\ Fresher(gen, Task, {})
      BY <2>1, Starting
    <2>4. Moves(gen, Task, h)
      BY <2>3, ParamGoes DEF Moves, Have, Past
    <2> HIDE DEF a, h
    <2>5. Flows(gen, Task, gen, <<>>)
      BY <2>1, <2>3, FlowsDone
    <2>6. Flows(gen, Task, h, <<a>>)
      BY <2>1, <2>2, <2>3, <2>4, FlowsOne
    <2> QED BY <2>1, <2>5, <2>6 DEF Flowing
  <1>2. CASE CgBlock
    <2> DEFINE a == ToMake(Head(Task.block))
               b == ToBlock(Tail(Task.block))
    <2>1. /\ work # <<>> /\ ~Calm(Task) /\ ~Yields(Task)
          /\ Step(gen, <<>>) \/ Step(gen, <<a, b>>)
      BY <1>2 DEF CgBlock, Calm, Yields, Doing
    <2>2. /\ Owed(a) = {} /\ Refs(a) = {} /\ Quiet(a)
          /\ Owed(b) = {} /\ Refs(b) = {} /\ Quiet(b)
      BY TasksNeutral, PlainTask, ValuesOfStatements
    <2>3. Moves(gen, Task, gen) /\ Fresher(gen, Task, {})
      BY <2>1, Starting
    <2> HIDE DEF a, b
    <2>4. Flows(gen, Task, gen, <<>>)
      BY <2>1, <2>3, FlowsDone
    <2>5. Flows(gen, Task, gen, <<a, b>>)
      BY <2>1, <2>2, <2>3, FlowsTwo DEF Quiet
    <2> QED BY <2>1, <2>4, <2>5 DEF Flowing
  <1>3. CASE CgScope
    <2> DEFINE h == [gen EXCEPT !.env = Task.env]
    <2>1. work # <<>> /\ ~Yields(Task) /\ Step(h, <<>>)
      BY <1>3 DEF CgScope, Yields, Doing
    <2>2. Goes(gen, gen, Have, Past)
      BY <2>1, Starting
    <2>3. Moves(gen, Task, h)
      BY <2>2, FieldsGoes DEF Moves, Have, Past
    <2> HIDE DEF h
    <2> QED BY <2>1, <2>3, FlowsDone DEF Flowing
  <1>4. CASE CgDo
    <2> DEFINE a == ToEval(Task.st.e)
    <2>1. work # <<>> /\ ~Calm(Task) /\ ~Yields(Task) /\ Step(gen, <<a>>)
      BY <1>4 DEF CgDo, Making, Calm, Yields, Doing
    <2>2. Owed(a) = {} /\ Refs(a) = {} /\ Quiet(a)
      BY TasksNeutral, PlainTask, ValuesOfExpressions
    <2>3. Moves(gen, Task, gen) /\ Fresher(gen, Task, {})
      BY <2>1, Starting
    <2> HIDE DEF a
    <2>4. Flows(gen, Task, gen, <<a>>)
      BY <2>1, <2>2, <2>3, FlowsOne DEF Quiet
    <2> QED BY <2>1, <2>4 DEF Flowing
  <1>5. CASE CgFor
    <2> DEFINE a == ToBlock(Task.st.init)
               b == ToLoop(Task.st, gen.env)
    <2>1. work # <<>> /\ ~Calm(Task) /\ ~Yields(Task) /\ Step(gen, <<a, b>>)
      BY <1>5 DEF CgFor, Making, Calm, Yields, Doing
    <2>2. /\ Owed(a) = {} /\ Refs(a) = {} /\ Quiet(a)
          /\ Owed(b) = {} /\ Refs(b) = {} /\ Quiet(b)
      BY TasksNeutral, PlainTask, ValuesOfStatements
    <2>3. Moves(gen, Task, gen) /\ Fresher(gen, Task, {})
      BY <2>1, Starting
    <2> HIDE DEF a, b
    <2>4. Flows(gen, Task, gen, <<a, b>>)
      BY <2>1, <2>2, <2>3, FlowsTwo DEF Quiet
    <2> QED BY <2>1, <2>4 DEF Flowing
  <1>6. CASE CgSwitch
    <2> DEFINE a == ToEval(Task.st.e)
               b == ToSwitch(Task.st.arms)
    <2>1. work # <<>> /\ ~Calm(Task) /\ ~Yields(Task) /\ Step(gen, <<a, b>>)
      BY <1>6 DEF CgSwitch, Making, Calm, Yields, Doing
    <2>2. /\ Owed(a) = {} /\ Refs(a) = {} /\ Quiet(a) /\ Yields(a)
          /\ Owed(b) = {} /\ Refs(b) = {} /\ Holds(b) = {}
      BY TasksNeutral, PlainTask, ValuesOfExpressions, ValuesOfStatements
    <2>3. Moves(gen, Task, gen) /\ Fresher(gen, Task, {})
      BY <2>1, Starting
    <2> HIDE DEF a, b
    <2>4. Flows(gen, Task, gen, <<a, b>>)
      BY <2>1, <2>2, <2>3, FlowsTwo DEF Quiet
    <2> QED BY <2>1, <2>4 DEF Flowing
  <1>7. CASE CgCompare
    <2> DEFINE h == Equal(gen, "==", Task.subject, gen.value)
    <2>1. Doing("compare") /\ Step(h, <<>>) /\ Takes(Task) /\ Task.subject \in Holds(Task)
      BY <1>7 DEF CgCompare, Takes, Holds, Doing
    <2>2. work # <<>> /\ Onward(gen, h)
      BY <2>1, NeutralDoing, OnwardEqual
    <2>3. Yielded(gen, gen, h, Have, Past)
      BY <2>1, <2>2, Starting, EqualGoes
    <2> HIDE DEF h
    <2> QED BY <2>1, <2>2, <2>3, FlowsAfter DEF Flowing, Yielded
  <1> QED BY <1>1, <1>2, <1>3, <1>4, <1>5, <1>6, <1>7

LEMMA FlowsVariable ==
    ASSUME Fits, Temps(gen), CgVar \/ CgDeclare \/ CgAssign \/ CgAssigned
    PROVE  Flowing
PROOF
  <1>1. CASE CgVar
    <2> DEFINE s == Slot(gen)
               h == Holding(s, Zero(Task.st.t))
               a == ToEval(Task.st.e)
               b == ToDeclare(Task.st, gen.slot)
    <2>1. /\ work # <<>> /\ ~Calm(Task) /\ ~Yields(Task) /\ Ready(gen)
          /\ Step(h, <<b>>) \/ Step(s, <<a, b>>)
      BY <1>1, NeutralDoing DEF CgVar, Making, Calm, Yields, Doing
    <2>2. /\ Owed(a) = {} /\ Refs(a) = {} /\ Quiet(a) /\ Yields(a)
          /\ Owed(b) = {} /\ Refs(b) = {} /\ Holds(b) = {}
      BY TasksNeutral, PlainTask, ValuesOfExpressions, ValuesOfStatements
    <2>3. Goes(gen, gen, Have, Past) /\ Fresher(gen, Task, {})
      BY <2>1, Starting
    <2>4. Goes(gen, s, Have, Past) /\ s.loops = gen.loops
      BY <2>3, FieldsGoes
    <2> HIDE DEF s
    <2>5. Yielded(gen, s, h, Have, Past) /\ h.loops = s.loops
      <3>1. Yielded(gen, s, h, Have, Past)
        BY <2>4, ConstKnown, HoldingGoes
      <3>2. h.loops = s.loops
        BY <2>4, HoldingFields DEF Goes
      <3> QED BY <3>1, <3>2
    <2> HIDE DEF a, b, h
    <2>6. Moves(gen, Task, s) /\ Moves(gen, Task, h) /\ KnownAt(gen, h, {}, h.value)
      BY <2>4, <2>5 DEF Moves, Yielded, Have, Past
    <2>7. Flows(gen, Task, h, <<b>>)
      BY <2>1, <2>2, <2>3, <2>6, FlowsOne
    <2>8. Flows(gen, Task, s, <<a, b>>)
      BY <2>1, <2>2, <2>3, <2>6, FlowsTwo DEF Quiet
    <2> QED BY <2>1, <2>7, <2>8 DEF Flowing
  <1>2. CASE CgDeclare
    <2> DEFINE st == Task.st
               a == Store(gen, Task.slot, st.t)
               b == Declare(a, st.x, Task.slot, st.t)
               h == [b EXCEPT !.seen = With(@, st.x, st.t)]
    <2>1. work # <<>> /\ ~Yields(Task) /\ Takes(Task) /\ Step(h, <<>>)
      BY <1>2 DEF CgDeclare, Takes, Yields, Doing
    <2>2. Goes(gen, gen, Have, Past) /\ KnownAt(gen, gen, Have, gen.value) /\ Generator(gen)
      BY <2>1, Starting DEF GeneratorOk
    <2>3. Goes(gen, a, Have, Past) /\ a.loops = gen.loops
      BY <2>2, StoreGoes, StoreLoops DEF Store
    <2> HIDE DEF a
    <2>4. Goes(gen, b, Have, Past) /\ b.loops = a.loops
      BY <2>3, DeclareGoes
    <2> HIDE DEF b
    <2>5. Goes(gen, h, Have, Past) /\ h.loops = b.loops
      BY <2>4, FieldsGoes
    <2> HIDE DEF h
    <2>6. Moves(gen, Task, h)
      BY <2>3, <2>4, <2>5 DEF Moves, Have, Past
    <2> QED BY <2>1, <2>6, FlowsDone DEF Flowing
  <1>3. CASE CgAssign
    <2> DEFINE a == ToEval(Task.st.e)
               b == ToAssign(Task.st.x)
    <2>1. work # <<>> /\ ~Calm(Task) /\ ~Yields(Task) /\ Step(gen, <<a, b>>)
      BY <1>3 DEF CgAssign, Making, Calm, Yields, Doing
    <2>2. /\ Owed(a) = {} /\ Refs(a) = {} /\ Quiet(a) /\ Yields(a)
          /\ Owed(b) = {} /\ Refs(b) = {} /\ Holds(b) = {}
      BY TasksNeutral, PlainTask, ValuesOfExpressions, ValuesOfStatements
    <2>3. Moves(gen, Task, gen) /\ Fresher(gen, Task, {})
      BY <2>1, Starting
    <2> HIDE DEF a, b
    <2>4. Flows(gen, Task, gen, <<a, b>>)
      BY <2>1, <2>2, <2>3, FlowsTwo DEF Quiet
    <2> QED BY <2>1, <2>4 DEF Flowing
  <1>4. CASE CgAssigned
    <2> DEFINE var == gen.env[Task.x]
               h == Store(gen, var.slot, var.t)
    <2>1. work # <<>> /\ ~Yields(Task) /\ Takes(Task) /\ Step(h, <<>>)
      BY <1>4 DEF CgAssigned, Takes, Yields, Doing
    <2>2. Goes(gen, gen, Have, Past) /\ KnownAt(gen, gen, Have, gen.value) /\ Generator(gen)
      BY <2>1, Starting DEF GeneratorOk
    <2>3. Moves(gen, Task, h)
      BY <2>2, StoreGoes, StoreLoops DEF Store, Moves, Have, Past
    <2> HIDE DEF h
    <2> QED BY <2>1, <2>3, FlowsDone DEF Flowing
  <1> QED BY <1>1, <1>2, <1>3, <1>4

LEMMA DeadGoes ==
    ASSUME NEW b, NEW g, NEW have, NEW gone, Goes(b, g, have, gone), GeneratorOk(g)
    PROVE  LET h == StartDeadBlock(g)
           IN  Emits(b, h, have, gone) /\ h.loops = g.loops
PROOF
  <1> DEFINE k == Take(g, 1)
  <1>1. Goes(b, k, have, gone) /\ k.loops = g.loops
    BY TakeGoes
  <1> HIDE DEF k
  <1>2. Emits(b, Label(k, g.label), have, gone) /\ Label(k, g.label).loops = k.loops
    BY <1>1, LabelGoes
  <1> QED BY <1>1, <1>2 DEF StartDeadBlock, k

LEMMA FlowsReturn ==
    ASSUME Fits, Temps(gen), CgReturn \/ CgReturned \/ CgExit
    PROVE  Flowing
PROOF
  <1>1. CASE CgReturn
    <2> DEFINE v == Missing(ResultOf(Unit.name))
               h == Holding(gen, v)
               a == ToEval(Task.st.e)
               b == ToReturn
    <2>1. /\ work # <<>> /\ ~Calm(Task) /\ ~Yields(Task) /\ Ready(gen)
          /\ Step(h, <<b>>) \/ Step(gen, <<a, b>>)
      BY <1>1, NeutralDoing DEF CgReturn, Making, Calm, Yields, Doing
    <2>2. /\ Owed(a) = {} /\ Refs(a) = {} /\ Quiet(a) /\ Yields(a)
          /\ Owed(b) = {} /\ Refs(b) = {} /\ Holds(b) = {}
      BY TasksNeutral, PlainTask, ValuesOfExpressions, ValuesOfStatements
    <2>3. Goes(gen, gen, Have, Past) /\ Moves(gen, Task, gen) /\ Fresher(gen, Task, {})
      BY <2>1, Starting
    <2>4. KnownAt(gen, gen, {}, v)
      BY ConstKnown DEF Missing
    <2> HIDE DEF v
    <2>5. Yielded(gen, gen, h, Have, Past) /\ Onward(gen, h)
      BY <2>1, <2>3, <2>4, HoldingGoes, OnwardHolding
    <2> HIDE DEF a, b, h
    <2>6. Moves(gen, Task, h) /\ KnownAt(gen, h, {}, h.value)
      BY <2>5 DEF Moves, Yielded, Onward, Have, Past
    <2>7. Flows(gen, Task, h, <<b>>)
      BY <2>1, <2>2, <2>3, <2>6, FlowsOne
    <2>8. Flows(gen, Task, gen, <<a, b>>)
      BY <2>1, <2>2, <2>3, FlowsTwo DEF Quiet
    <2> QED BY <2>1, <2>7, <2>8 DEF Flowing
  <1>2. CASE CgReturned
    <2> DEFINE k == Ret(gen, FALSE)
               h == StartDeadBlock(k)
    <2>1. /\ work # <<>> /\ ~Calm(Task) /\ Takes(Task) /\ Ready(gen) /\ Step(h, <<>>)
      BY <1>2, NeutralDoing DEF CgReturned, Calm, Yields, Takes, Doing
    <2>2. /\ Goes(gen, gen, Have, Past) /\ KnownAt(gen, gen, Have, gen.value)
          /\ Fresher(gen, Task, LoopRefs(gen.loops))
      BY <2>1, Starting
    <2>3. Goes(gen, k, Have, Past) /\ k.loops = gen.loops
      BY <2>2, RetGoes
    <2>4. GeneratorOk(k)
      BY <2>1, EmitTerminator DEF Ret, IsTerminator, Terminators
    <2> HIDE DEF k
    <2>5. Emits(gen, h, Have, Past) /\ h.loops = k.loops
      BY <2>3, <2>4, DeadGoes
    <2> HIDE DEF h
    <2>6. Flows(gen, Task, h, <<>>)
      BY <2>1, <2>2, <2>3, <2>5, FlowsGone DEF Have, Past
    <2> QED BY <2>1, <2>6 DEF Flowing
  <1>3. CASE CgExit
    <2> DEFINE n == Len(gen.loops)
               frame == gen.loops[n]
               to == IF Task.st.k = "break" THEN frame.out ELSE frame.next
               k == Jump(gen, to)
               h == StartDeadBlock(k)
    <2>1. /\ work # <<>> /\ ~Calm(Task) /\ ~Yields(Task) /\ Ready(gen)
          /\ Step(gen, <<>>) \/ (gen.loops # <<>> /\ Step(h, <<>>))
      BY <1>3, NeutralDoing DEF CgExit, Making, Calm, Yields, Doing
    <2>2. /\ Goes(gen, gen, Have, Past) /\ Moves(gen, Task, gen)
          /\ Fresher(gen, Task, LoopRefs(gen.loops))
      BY <2>1, Starting
    <2>3. ASSUME gen.loops # <<>>
          PROVE  to \in LoopRefs(gen.loops)
      <3>1. gen.loops \in Seq(Frames)
        BY <2>1 DEF Ready, GeneratorOk
      <3>2. n \in 1 .. Len(gen.loops)
        BY <3>1, <2>3, SequenceFacts DEF Sequence
      <3> HIDE DEF n
      <3> QED BY <3>2 DEF LoopRefs
    <2> HIDE DEF to
    <2>4. Flows(gen, Task, gen, <<>>)
      BY <2>1, <2>2, FlowsDone
    <2>5. ASSUME gen.loops # <<>>
          PROVE  Flows(gen, Task, h, <<>>)
      <3>1. to \notin Past
        BY <2>2, <2>3, <2>5 DEF Fresher, Past
      <3>2. Goes(gen, k, Have, Past) /\ k.loops = gen.loops
        BY <2>2, <3>1, JumpGoes
      <3>3. GeneratorOk(k)
        BY <2>1, EmitJump
      <3> HIDE DEF k
      <3>4. Emits(gen, h, Have, Past) /\ h.loops = k.loops
        BY <3>2, <3>3, DeadGoes
      <3> HIDE DEF h
      <3> QED BY <2>1, <2>2, <3>2, <3>4, FlowsGone DEF Have, Past
    <2> QED BY <2>1, <2>4, <2>5 DEF Flowing
  <1> QED BY <1>1, <1>2, <1>3

LEMMA LoopGoes ==
    ASSUME Fits, Temps(gen), work # <<>>, NEW n \in Nat
    PROVE  LET h == Label(Jump(Take(gen, n), gen.label), gen.label)
           IN  Emits(gen, h, AtHand(gen, Task), Gone(gen, Task)) /\ h.loops = gen.loops
PROOF
  <1> DEFINE a == Take(gen, n)
             b == Jump(a, gen.label)
  <1>1. /\ Goes(gen, gen, Have, Past) /\ GeneratorOk(gen) /\ gen.label \in Nat
        /\ \A l \in Nat : l >= gen.label => l \notin Past
    BY Starting
  <1>2. gen.label \notin Past
    BY <1>1
  <1>3. Goes(gen, a, Have, Past) /\ a.loops = gen.loops
    BY <1>1, TakeGoes
  <1> HIDE DEF a
  <1>4. Goes(gen, b, Have, Past) /\ b.loops = a.loops
    BY <1>2, <1>3, JumpGoes
  <1> HIDE DEF b
  <1>5. LET h == Label(b, gen.label) IN Emits(gen, h, Have, Past) /\ h.loops = b.loops
    BY <1>4, LabelGoes
  <1> QED BY <1>3, <1>4, <1>5 DEF a, b, Have, Past

LEMMA FlowsLoop ==
    ASSUME Fits, Temps(gen), CgWhile \/ CgLoop
    PROVE  Flowing
PROOF
  <1>1. CASE CgWhile
    <2> DEFINE cond == gen.label
               body == cond + 1
               end == cond + 2
               h == Label(Jump(Take(gen, 3), cond), cond)
               t1 == ToTest(Task.st.c, body, end)
               t2 == ToEnter(body, end, cond)
               t3 == ToBlock(Task.st.body)
               t4 == ToLeave
               t5 == ToScope(gen.env)
               t6 == ToJump(cond)
               t7 == ToLabel(end)
               T == {t1, t2, t3, t4, t5, t6, t7}
               new == <<t1, t2, t3, t4, t5, t6, t7>>
    <2>1. work # <<>> /\ ~Calm(Task) /\ Step(h, new)
      BY <1>1 DEF CgWhile, Making, Calm, Yields, Doing
    <2>2. /\ gen.label \in Nat /\ Fresher(gen, Task, LoopRefs(gen.loops))
          /\ \A l \in Nat : l >= gen.label => l \notin Past
      BY <2>1, Starting
    <2>3. cond \notin Past /\ body \notin Past /\ end \notin Past
      BY <2>2
    <2>4. Emits(gen, h, AtHand(gen, Task), Gone(gen, Task)) /\ h.loops = gen.loops
      BY <2>1, LoopGoes
    <2> HIDE DEF h, cond, body, end
    <2>5. \A t \in T : Quiet(t)
      BY ValuesOfLabels, ValuesOfStatements
    <2>6. /\ Refs(t1) = {body, end} /\ Refs(t2) = {end, cond} /\ Refs(t6) = {cond}
          /\ Refs(t7) = {} /\ Refs(t3) = {} /\ Refs(t4) = {} /\ Refs(t5) = {}
      BY TaskTest, TaskEnter, TaskJump, TaskLabel, TasksNeutral, PlainTask
    <2> HIDE DEF t1, t2, t3, t4, t5, t6, t7
    <2>7. \A t \in T : Fresher(gen, Task, Refs(t))
      BY <2>3, <2>6 DEF Fresher, Past
    <2>8. new \in Seq(T)
      OBVIOUS
    <2> HIDE DEF T, new
    <2>9. Flows(gen, Task, h, new)
      BY <2>1, <2>2, <2>4, <2>5, <2>7, <2>8, FlowsQuiet
    <2> QED BY <2>1, <2>9 DEF Flowing
  <1>2. CASE CgLoop
    <2> DEFINE cond == gen.label
               body == cond + 1
               step == cond + 2
               end == cond + 3
               h == Label(Jump(Take(gen, 4), cond), cond)
               t1 == ToTest(Task.st.c, body, end)
               t2 == ToEnter(body, end, step)
               t3 == ToBlock(Task.st.body)
               t4 == ToLeave
               t5 == ToScope(gen.env)
               t6 == ToJump(step)
               t7 == ToLabel(step)
               t8 == ToBlock(Task.st.step)
               t9 == ToJump(cond)
               t10 == ToLabel(end)
               t11 == ToScope(Task.env)
               T == {t1, t2, t3, t4, t5, t6, t7, t8, t9, t10, t11}
               new == <<t1, t2, t3, t4, t5, t6, t7, t8, t9, t10, t11>>
    <2>1. work # <<>> /\ ~Calm(Task) /\ Step(h, new)
      BY <1>2 DEF CgLoop, Calm, Yields, Doing
    <2>2. /\ gen.label \in Nat /\ Fresher(gen, Task, LoopRefs(gen.loops))
          /\ \A l \in Nat : l >= gen.label => l \notin Past
      BY <2>1, Starting
    <2>3. cond \notin Past /\ body \notin Past /\ step \notin Past /\ end \notin Past
      BY <2>2
    <2>4. Emits(gen, h, AtHand(gen, Task), Gone(gen, Task)) /\ h.loops = gen.loops
      BY <2>1, LoopGoes
    <2> HIDE DEF h, cond, body, step, end
    <2>5. \A t \in T : Quiet(t)
      BY ValuesOfLabels, ValuesOfStatements
    <2>6. /\ Refs(t1) = {body, end} /\ Refs(t2) = {end, step} /\ Refs(t6) = {step}
          /\ Refs(t9) = {cond} /\ Refs(t7) = {} /\ Refs(t10) = {}
      BY TaskTest, TaskEnter, TaskJump, TaskLabel
    <2>7. /\ Refs(t3) = {} /\ Refs(t4) = {} /\ Refs(t5) = {}
          /\ Refs(t8) = {} /\ Refs(t11) = {}
      BY TasksNeutral, PlainTask
    <2> HIDE DEF t1, t2, t3, t4, t5, t6, t7, t8, t9, t10, t11
    <2>8. \A t \in T : Fresher(gen, Task, Refs(t))
      BY <2>3, <2>6, <2>7 DEF Fresher, Past
    <2>9. new \in Seq(T)
      OBVIOUS
    <2> HIDE DEF T, new
    <2>10. Flows(gen, Task, h, new)
      BY <2>1, <2>2, <2>4, <2>5, <2>8, <2>9, FlowsQuiet
    <2> QED BY <2>1, <2>10 DEF Flowing
  <1> QED BY <1>1, <1>2

LEMMA FlowsIf ==
    ASSUME Fits, Temps(gen), CgIf \/ CgArms
    PROVE  Flowing
PROOF
  <1>1. CASE CgIf
    <2> DEFINE end == gen.label
               h == Take(gen, 1)
               t1 == ToArms(Task.st.arms, end)
               t2 == ToJump(end)
               t3 == ToLabel(end)
               T == {t1, t2, t3}
               new == <<t1, t2, t3>>
    <2>1. work # <<>> /\ ~Calm(Task) /\ Step(h, new)
      BY <1>1 DEF CgIf, Making, Calm, Yields, Doing
    <2>2. /\ Goes(gen, gen, Have, Past) /\ GeneratorOk(gen)
          /\ gen.label \in Nat /\ Fresher(gen, Task, LoopRefs(gen.loops))
          /\ \A l \in Nat : l >= gen.label => l \notin Past
      BY <2>1, Starting
    <2>3. end \notin Past
      BY <2>2
    <2>4. Goes(gen, h, Have, Past) /\ h.loops = gen.loops
      BY <2>2, TakeGoes
    <2> HIDE DEF h, end
    <2>5. \A t \in T : Quiet(t)
      BY ValuesOfLabels
    <2>6. Refs(t1) = {end} /\ Refs(t2) = {end} /\ Refs(t3) = {}
      BY TaskArms, TaskJump, TaskLabel
    <2> HIDE DEF t1, t2, t3
    <2>7. \A t \in T : Fresher(gen, Task, Refs(t))
      BY <2>3, <2>6 DEF Fresher, Past
    <2>8. new \in Seq(T)
      OBVIOUS
    <2> HIDE DEF T, new
    <2>9. Flows(gen, Task, h, new)
      BY <2>1, <2>2, <2>4, <2>5, <2>7, <2>8, FlowsQuiet DEF Goes, Have, Past
    <2> QED BY <2>1, <2>9 DEF Flowing
  <1>2. CASE CgArms
    <2> DEFINE arm == Head(Task.arms)
               then == gen.label
               next == gen.label + 1
               h == Take(gen, 2)
               t1 == ToEval(arm.c)
               t2 == ToBranch(then, next)
               t3 == ToLabel(then)
               t4 == ToBlock(arm.body)
               t5 == ToScope(gen.env)
               t6 == ToJump(Task.end)
               t7 == ToLabel(next)
               t8 == ToArms(Tail(Task.arms), Task.end)
               T == {t1, t2, t3, t4, t5, t6, t7, t8}
               new == <<t1, t2, t3, t4, t5, t6, t7, t8>>
    <2>1. /\ work # <<>> /\ ~Calm(Task) /\ ~Yields(Task) /\ Refs(Task) = {Task.end}
          /\ Step(gen, <<>>) \/ Step(gen, <<t4, t5>>) \/ Step(h, new)
      BY <1>2 DEF CgArms, Calm, Yields, Refs, Doing
    <2>2. /\ Goes(gen, gen, Have, Past) /\ GeneratorOk(gen) /\ Moves(gen, Task, gen)
          /\ gen.label \in Nat /\ Fresher(gen, Task, LoopRefs(gen.loops))
          /\ Fresher(gen, Task, Refs(Task)) /\ Fresher(gen, Task, {})
          /\ \A l \in Nat : l >= gen.label => l \notin Past
      BY <2>1, Starting
    <2>3. then \notin Past /\ next \notin Past
      BY <2>2
    <2>4. Goes(gen, h, Have, Past) /\ h.loops = gen.loops
      BY <2>2, TakeGoes
    <2> HIDE DEF h, then, next, arm
    <2>5. /\ Quiet(t1) /\ Yields(t1) /\ Holds(t2) = {} /\ Quiet(t3) /\ Quiet(t4) /\ Quiet(t5)
          /\ Quiet(t6) /\ Quiet(t7) /\ Quiet(t8)
      BY ValuesOfExpressions, ValuesOfLabels, ValuesOfStatements
    <2>6. /\ Refs(t2) = {then, next} /\ Refs(t3) = {} /\ Refs(t6) = {Task.end}
          /\ Refs(t7) = {} /\ Refs(t8) = {Task.end}
      BY TaskArms, TaskBranch, TaskJump, TaskLabel
    <2>7. /\ Refs(t1) = {} /\ Refs(t4) = {} /\ Refs(t5) = {}
          /\ Owed(t4) = {} /\ Owed(t5) = {}
      BY TasksNeutral, PlainTask
    <2> HIDE DEF t1, t2, t3, t4, t5, t6, t7, t8
    <2>8. \A t \in T : Holds(t) = {} /\ Fresher(gen, Task, Refs(t))
      BY <2>1, <2>2, <2>3, <2>5, <2>6, <2>7 DEF Fresher, Past, Quiet
    <2>9. /\ new \in Seq(T) /\ Len(new) = 8 /\ new[1] = t1 /\ new[3] = t3 /\ new[4] = t4
          /\ new[5] = t5 /\ new[6] = t6 /\ new[7] = t7 /\ new[8] = t8
      OBVIOUS
    <2> HIDE DEF T, new
    <2>10. \A n \in 1 .. Len(new) : Takes(new[n]) => n # 1 /\ Yields(new[n - 1])
      <3>1. \A n \in 1 .. 8 : \/ n = 1 \/ n = 2 \/ n = 3 \/ n = 4 \/ n = 5 \/ n = 6
                              \/ n = 7 \/ n = 8
        OBVIOUS
      <3>2. \A n \in 1 .. 8 : Takes(new[n]) => n = 2
        BY <2>5, <2>9, <3>1 DEF Quiet
      <3> QED BY <2>5, <2>9, <3>2
    <2>11. Flows(gen, Task, gen, <<>>)
      BY <2>1, <2>2, FlowsDone
    <2>12. Flows(gen, Task, gen, <<t4, t5>>)
      BY <2>1, <2>2, <2>5, <2>7, FlowsTwo DEF Quiet
    <2>13. Flows(gen, Task, h, new)
      BY <2>1, <2>2, <2>4, <2>8, <2>9, <2>10, FlowsList DEF Goes, Have, Past
    <2> QED BY <2>1, <2>11, <2>12, <2>13 DEF Flowing
  <1> QED BY <1>1, <1>2

LEMMA FlowsCases ==
    ASSUME Fits, Temps(gen), NEW E, NEW S, WorkBuilt(E, S, work), CgCases
    PROVE  Flowing
PROOF
  <1> DEFINE arms == Task.arms
             end == gen.label
             DefaultAt(i) == arms[i].c.k = "none"
             other == IF \E i \in 1 .. Len(arms) : DefaultAt(i)
                      THEN end + (CHOOSE i \in 1 .. Len(arms) : DefaultAt(i)) ELSE end
             h == Take(gen, Len(arms) + 1)
             a == ToTests(gen.value, arms, end + 1, other)
             b == ToBodies(arms, end + 1, end)
  <1>1. work # <<>> /\ ~Calm(Task) /\ ~Yields(Task) /\ Takes(Task) /\ Step(h, <<a, b>>)
    BY DEF CgCases, Calm, Yields, Takes, Doing
  <1>2. /\ Goes(gen, gen, Have, Past) /\ GeneratorOk(gen) /\ gen.label \in Nat
        /\ \A l \in Nat : l >= gen.label => l \notin Past
        /\ gen.value \in Have
    BY <1>1, Starting
  <1>3. Len(arms) \in Nat
    <2>1. arms \in Arms(E, S)
      BY <1>1, BuiltFirst DEF CgCases, Doing, TaskBuilt
    <2> QED BY <2>1, ArmsTail
  <1>4. Moves(gen, Task, h)
    <2>1. Len(arms) + 1 \in Nat
      BY <1>3
    <2> HIDE DEF arms
    <2> QED BY <1>2, <2>1, TakeGoes DEF Moves, Have, Past
  <1>5. other \in Nat /\ other >= end
    <2>1. CASE \E i \in 1 .. Len(arms) : DefaultAt(i)
      <3>1. (CHOOSE i \in 1 .. Len(arms) : DefaultAt(i)) \in 1 .. Len(arms)
        BY <2>1
      <3> QED BY <2>1, <3>1, <1>2, <1>3
    <2>2. CASE ~ \E i \in 1 .. Len(arms) : DefaultAt(i)
      BY <2>2, <1>2
    <2> QED BY <2>1, <2>2
  <1> HIDE DEF other, h
  <1>6. /\ Owed(a) = {} /\ Refs(a) = {other} \cup (end + 1) .. (end + 1) + Len(arms) - 1
        /\ Refs(b) = {end}
    BY TaskTests, TaskBodies
  <1>7. Fresher(gen, Task, Refs(a)) /\ Fresher(gen, Task, Refs(b))
    <2> HIDE DEF a, b, arms
    <2>1. \A l \in Refs(a) \cup Refs(b) : l \in Nat /\ l >= gen.label
      BY <1>2, <1>3, <1>5, <1>6
    <2> QED BY <1>2, <2>1 DEF Fresher, Past
  <1>8. ~Takes(a) /\ Holds(a) = {gen.value} /\ Quiet(b)
    BY ValuesOfLabels
  <1> HIDE DEF a, b, arms
  <1>9. Flows(gen, Task, h, <<a, b>>)
    BY <1>1, <1>2, <1>4, <1>6, <1>7, <1>8, FlowsTwo DEF Quiet, Have
  <1> QED BY <1>1, <1>9 DEF Flowing

LEMMA FlowsTests ==
    ASSUME Fits, Temps(gen), NEW E, NEW S, WorkBuilt(E, S, work), CgTests
    PROVE  Flowing
PROOF
  <1> DEFINE arms == Task.arms
             next == gen.label
             subject == Task.subject
             j == Jump(gen, Task.other)
             h == Take(gen, 1)
             t1 == ToEval(Head(arms).c)
             t2 == ToCompare(subject)
             t3 == ToBranch(Task.at, next)
             t4 == ToLabel(next)
             t5 == ToTests(subject, Tail(arms), Task.at + 1, Task.other)
             t6 == ToBranch(Task.at, Task.other)
  <1>1. /\ work # <<>> /\ Task.do = "tests"
        /\ \/ Step(j, <<>>)
           \/ arms # <<>> /\ Step(gen, <<t5>>)
           \/ arms # <<>> /\ Step(gen, <<t1, t2, t6>>)
           \/ arms # <<>> /\ Step(h, <<t1, t2, t3>> \o <<t4, t5>>)
    BY DEF CgTests, Doing
  <1>2. /\ Calm(Task) /\ ~Yields(Task) /\ Holds(Task) = {subject}
        /\ Refs(Task) = {Task.other} \cup Task.at .. Task.at + Len(arms) - 1
    BY <1>1 DEF Calm, Yields, Holds, Refs
  <1>3. /\ Goes(gen, gen, Have, Past) /\ Moves(gen, Task, gen) /\ GeneratorOk(gen)
        /\ gen.label \in Nat /\ Fresher(gen, Task, {}) /\ Fresher(gen, Task, Refs(Task))
        /\ \A l \in Nat : l >= gen.label => l \notin Past /\ l \notin Old(gen)
        /\ Refs(Task) \subseteq 0 .. gen.label - 1
    BY <1>1, Starting, Ahead
  <1>4. next \notin Past /\ next \notin Old(gen) /\ next \notin Refs(Task)
    BY <1>3
  <1>5. subject \in AtHand(gen, Task)
    BY <1>2 DEF AtHand
  <1>6. arms \in Arms(E, S) /\ Task.at \in Nat
    BY <1>1, BuiltFirst DEF TaskBuilt
  <1>7. /\ Len(arms) \in Nat
        /\ arms # <<>> => Len(Tail(arms)) \in Nat /\ Len(arms) = Len(Tail(arms)) + 1
    BY <1>6, ArmsTail
  <1>8. /\ Refs(t3) = {Task.at, next} /\ Owed(t3) = {}
        /\ Refs(t6) = {Task.at, Task.other} /\ Owed(t6) = {}
        /\ Refs(t4) = {} /\ Owed(t4) = {next}
        /\ Refs(t5) = {Task.other} \cup (Task.at + 1) .. (Task.at + 1) + Len(Tail(arms)) - 1
        /\ Owed(t5) = {}
    <2> HIDE DEF arms, next, subject
    <2>1. /\ Refs(t3) = {Task.at, next} /\ Owed(t3) = {}
          /\ Refs(t6) = {Task.at, Task.other} /\ Owed(t6) = {}
      BY TaskBranch
    <2>2. Refs(t4) = {} /\ Owed(t4) = {next}
      BY TaskLabel
    <2>3. /\ Refs(t5) = {Task.other} \cup (Task.at + 1) .. (Task.at + 1) + Len(Tail(arms)) - 1
          /\ Owed(t5) = {}
      BY TaskTests
    <2> QED BY <2>1, <2>2, <2>3
  <1>9. Refs(t1) = {} /\ Owed(t1) = {} /\ Refs(t2) = {} /\ Owed(t2) = {}
    BY TasksNeutral, PlainTask
  <1>10. /\ Calm(t1) /\ Yields(t1) /\ Quiet(t1) /\ Calm(t2) /\ Yields(t2) /\ Holds(t2) = {subject}
         /\ Calm(t3) /\ Holds(t3) = {} /\ Calm(t4) /\ Quiet(t4)
         /\ Calm(t5) /\ ~Takes(t5) /\ Holds(t5) = {subject} /\ Calm(t6) /\ Holds(t6) = {}
    BY ValuesOfExpressions, ValuesOfLabels
  <1>11. Flows(gen, Task, j, <<>>)
    <2>1. Task.other \notin Past
      BY <1>2, <1>3 DEF Fresher, Past
    <2>2. Moves(gen, Task, j)
      BY <1>3, <2>1, JumpGoes DEF Moves, Have, Past
    <2> HIDE DEF j
    <2> QED BY <1>2, <2>2, FlowsDone
  <1>12. Moves(gen, Task, h)
    BY <1>3, TakeGoes DEF Moves, Have, Past
  <1> HIDE DEF t1, t2, t3, t4, t5, t6, h, j
  <1>13. arms # <<>> => Task.at \in Refs(Task) /\ Refs(t5) \subseteq Refs(Task)
    <2> HIDE DEF arms
    <2> QED BY <1>2, <1>6, <1>7, <1>8
  <1> HIDE DEF arms, next, subject
  <1>14. ASSUME arms # <<>>
         PROVE  \A t \in {t1, t2, t3, t4, t5, t6} :
                    /\ Calm(t) /\ Fresher(gen, Task, Refs(t)) /\ Owed(t) \cap Old(gen) = {}
                    /\ \A x \in Holds(t) : x.is = "temp" => x \in AtHand(gen, Task)
    <2>1. \A t \in {t1, t2, t3, t4, t5, t6} :
              /\ Refs(t) \subseteq Refs(Task) \cup {next} /\ Owed(t) \subseteq {next}
              /\ Calm(t) /\ Holds(t) \subseteq {subject}
      BY <1>2, <1>8, <1>9, <1>10, <1>13, <1>14 DEF Quiet
    <2> QED BY <1>3, <1>4, <1>5, <2>1 DEF Fresher, Past
  <1>15. ASSUME arms # <<>>
         PROVE  Flows(gen, Task, gen, <<t5>>)
    BY <1>2, <1>3, <1>8, <1>10, <1>14, <1>15, FlowsOne
  <1>16. ASSUME arms # <<>>
         PROVE  Flows(gen, Task, gen, <<t1, t2, t6>>)
    <2> DEFINE new == <<t1, t2, t6>>
               T == {t1, t2, t6}
    <2>1. new \in Seq(T) /\ new # <<>> /\ Len(new) = 3 /\ new[1] = t1 /\ new[2] = t2 /\ new[3] = t6
      OBVIOUS
    <2>2. \A t \in T :
              /\ Calm(t) /\ Fresher(gen, Task, Refs(t)) /\ Owed(t) \cap Old(gen) = {}
              /\ \A x \in Holds(t) : x.is = "temp" => x \in AtHand(gen, Task)
      BY <1>14, <1>16
    <2> HIDE DEF new, T
    <2>3. \A n \in 1 .. 3 : \/ n = 1
                            \/ n = 2 /\ n - 1 = 1
                            \/ n = 3 /\ n - 1 = 2
      OBVIOUS
    <2>4. \A n \in 1 .. Len(new) : Takes(new[n]) => n # 1 /\ Yields(new[n - 1])
      BY <1>10, <2>1, <2>3 DEF Quiet
    <2>5. \A n \in 1 .. Len(new) : Owed(new[n]) = {}
      BY <1>8, <1>9, <2>1, <2>3
    <2>6. \A n \in 1 .. Len(new) : \A i \in 1 .. n - 1 : i \in 1 .. Len(new)
      BY <2>1
    <2>7. \A n \in 1 .. Len(new) : Holds(new[n]) # {} =>
              \A i \in 1 .. n - 1 : Owed(new[i]) \cap RefsFrom(new, n) = {}
      BY <2>5, <2>6
    <2>8. Flows(gen, Task, gen, new)
      BY <1>2, <1>3, <2>1, <2>2, <2>4, <2>7, FlowsHolding
    <2> QED BY <2>8 DEF new
  <1>17. ASSUME arms # <<>>
         PROVE  Flows(gen, Task, h, <<t1, t2, t3>> \o <<t4, t5>>)
    <2> DEFINE new == <<t1, t2, t3, t4, t5>>
               T == {t1, t2, t3, t4, t5}
    <2>1. /\ new \in Seq(T) /\ new # <<>> /\ Len(new) = 5 /\ new[1] = t1 /\ new[2] = t2
          /\ new[3] = t3 /\ new[4] = t4 /\ new[5] = t5
      OBVIOUS
    <2>2. \A t \in T :
              /\ Calm(t) /\ Fresher(gen, Task, Refs(t)) /\ Owed(t) \cap Old(gen) = {}
              /\ \A x \in Holds(t) : x.is = "temp" => x \in AtHand(gen, Task)
      BY <1>14, <1>17
    <2> HIDE DEF new, T
    <2>3. \A n \in 1 .. 5 : \/ n = 1
                            \/ n = 2 /\ n - 1 = 1
                            \/ n = 3 /\ n - 1 = 2
                            \/ n = 4
                            \/ n = 5
      OBVIOUS
    <2>4. \A n \in 1 .. Len(new) : Takes(new[n]) => n # 1 /\ Yields(new[n - 1])
      BY <1>10, <2>1, <2>3 DEF Quiet
    <2>5. \A n \in 1 .. Len(new) : /\ Owed(new[n]) # {} => n = 4 /\ Owed(new[n]) = {next}
                                   /\ Holds(new[n]) # {} => n = 2 \/ n = 5
      BY <1>8, <1>9, <1>10, <2>1, <2>3 DEF Quiet
    <2>6. next \notin RefsFrom(new, 5)
      <3>1. \A i \in 5 .. Len(new) : i = 5
        BY <2>1
      <3>2. \A i \in 5 .. Len(new) : Refs(new[i]) \subseteq Refs(Task)
        BY <1>13, <1>17, <2>1, <3>1
      <3> QED BY <1>4, <3>2 DEF RefsFrom
    <2>7. ASSUME NEW n \in 1 .. Len(new), Holds(new[n]) # {}, NEW i \in 1 .. n - 1
          PROVE  Owed(new[i]) \cap RefsFrom(new, n) = {}
      <3>1. i \in 1 .. Len(new) /\ i < n
        BY <2>1
      <3>2. CASE Owed(new[i]) = {}
        BY <3>2
      <3>3. CASE Owed(new[i]) # {}
        <4>1. i = 4 /\ Owed(new[i]) = {next} /\ (n = 2 \/ n = 5)
          BY <2>5, <2>7, <3>1, <3>3
        <4>2. n = 5
          BY <3>1, <4>1
        <4> QED BY <2>6, <4>1, <4>2
      <3> QED BY <3>2, <3>3
    <2>8. Flows(gen, Task, h, new)
      BY <1>2, <1>12, <2>1, <2>2, <2>4, <2>7, FlowsHolding
    <2>9. <<t1, t2, t3>> \o <<t4, t5>> = new
      BY ThreeAndTwo DEF new
    <2> QED BY <2>8, <2>9
  <1> QED BY <1>1, <1>11, <1>15, <1>16, <1>17 DEF Flowing

LEMMA FlowsBodies ==
    ASSUME Fits, Temps(gen), CgBodies
    PROVE  Flowing
PROOF
  <1> DEFINE arms == Task.arms
             j == Label(gen, Task.end)
             h == Label(gen, Task.at)
             t1 == ToBlock(Head(arms).body)
             t2 == ToScope(gen.env)
             t3 == ToJump(Task.end)
             t4 == ToBodies(Tail(arms), Task.at + 1, Task.end)
             T == {t1, t2, t3, t4}
             new == <<t1, t2, t3, t4>>
  <1>1. /\ work # <<>> /\ ~Calm(Task) /\ Refs(Task) = {Task.end}
        /\ Step(j, <<>>) \/ Step(h, new)
    BY DEF CgBodies, Calm, Yields, Refs, Doing
  <1>2. /\ Goes(gen, gen, Have, Past) /\ Fresher(gen, Task, LoopRefs(gen.loops))
        /\ Fresher(gen, Task, Refs(Task)) /\ Fresher(gen, Task, {})
    BY <1>1, Starting
  <1>3. /\ Emits(gen, j, Have, Past) /\ j.loops = gen.loops
        /\ Emits(gen, h, Have, Past) /\ h.loops = gen.loops
    BY <1>2, LabelGoes
  <1>4. Quiet(t1) /\ Quiet(t2) /\ Quiet(t3) /\ Quiet(t4)
    BY ValuesOfLabels, ValuesOfStatements
  <1>5. Refs(t1) = {} /\ Refs(t2) = {} /\ Refs(t3) = {Task.end} /\ Refs(t4) = {Task.end}
    BY TasksNeutral, PlainTask, TaskJump, TaskBodies
  <1> HIDE DEF t1, t2, t3, t4, h, j
  <1>6. \A t \in T : Quiet(t) /\ Fresher(gen, Task, Refs(t))
    BY <1>1, <1>2, <1>4, <1>5
  <1>7. new \in Seq(T)
    OBVIOUS
  <1> HIDE DEF T, new
  <1>8. Flows(gen, Task, j, <<>>)
    BY <1>1, <1>2, <1>3, FlowsGone DEF Have, Past
  <1>9. Flows(gen, Task, h, new)
    BY <1>1, <1>2, <1>3, <1>6, <1>7, FlowsQuiet DEF Have, Past
  <1> QED BY <1>1, <1>8, <1>9 DEF Flowing
-----------------------------------------------------------------------------
(* A step of the generator keeps the values read and held right.           *)
LEMMA FlowStep ==
    ASSUME Fits, Flow(gen, work), Flowing
    PROVE  Flow(gen', work')
PROOF
  <1>1. work # <<>> /\ Task = work[1]
    BY Ahead DEF Flowing
  <1>2. PICK h, new : Step(h, new) /\ Flows(gen, Task, h, new)
    BY DEF Flowing
  <1>3. gen' = h /\ work' = new \o Tail(work)
    BY <1>2 DEF Step
  <1> HIDE DEF Task
  <1>4. Flow(h, new \o Tail(work))
    BY <1>1, <1>2, FlowSplice DEF Fits
  <1> QED BY <1>3, <1>4

(* A function begins with nothing read and nothing held.                   *)
LEMMA FlowFresh ==
    ASSUME NEW sites, NEW body
    PROVE  Flow(Fresh(sites), <<ToBind(1), ToBlock(body)>>)
PROOF
  <1> DEFINE g == Fresh(sites)
             a == ToBind(1)
             b == ToBlock(body)
             tasks == <<a, b>>
  <1>1. g.lines = <<>> /\ Len(g.lines) = 0
    BY DEF Fresh
  <1>2. Quiet(a) /\ Quiet(b)
    BY ValuesOfStatements
  <1> HIDE DEF g, a, b
  <1>3. \A n \in 1 .. Len(tasks) : Quiet(tasks[n])
    <2>1. Len(tasks) = 2 /\ tasks[1] = a /\ tasks[2] = b
      OBVIOUS
    <2>2. \A n \in 1 .. 2 : n = 1 \/ n = 2
      OBVIOUS
    <2> HIDE DEF tasks
    <2> QED BY <1>2, <2>1, <2>2
  <1>4. Len(tasks) \in Nat /\ (tasks # <<>> => 1 \in 1 .. Len(tasks))
    OBVIOUS
  <1> HIDE DEF tasks
  <1>5. Temps(g) /\ ReadsSettled(g, tasks)
    BY <1>1 DEF Temps, ReadsSettled
  <1>6. ValueHeld(g, tasks)
    BY <1>3, <1>4 DEF ValueHeld, Quiet
  <1>7. \A n \in 1 .. Len(tasks) : HoldsHeld(g, tasks, n)
    BY <1>3 DEF HoldsHeld, Quiet
  <1>8. \A n \in 2 .. Len(tasks) : ~Takes(tasks[n])
    <2>1. \A n \in 2 .. Len(tasks) : n \in 1 .. Len(tasks)
      OBVIOUS
    <2> QED BY <1>3, <2>1 DEF Quiet
  <1>9. Flow(g, tasks)
    BY <1>5, <1>6, <1>7, <1>8 DEF Flow
  <1> QED BY <1>9 DEF g, tasks, a, b

(* Once nothing is left to do, what is read was computed on every path.    *)
LEMMA SettledEnclosed ==
    ASSUME NEW lines, NEW refs, Len(lines) \in Nat, NEW i \in 1 .. Len(lines), NEW x,
           x.is = "temp", Settled(lines, refs, i, x)
    PROVE  \E j \in 1 .. i - 1 : Defines(lines[j], x.v[1]) /\ Enclosed(lines, j, i)
PROOF
  <1>1. PICK j \in 1 .. i - 1 :
            /\ Defines(lines[j], x.v[1])
            /\ \A p \in j + 1 .. i :
                   IsLabel(lines[p]) =>
                       /\ lines[p].to \notin refs
                       /\ \A k \in 1 .. Len(lines) :
                              lines[p].to \in Targets(lines[k]) => k \in j .. i - 1
    BY DEF Settled
  <1>2. Enclosed(lines, j, i)
    BY <1>1 DEF Enclosed, IsLabel
  <1> QED BY <1>1, <1>2

LEMMA Finished ==
    ASSUME Fits, Flow(gen, work), work = <<>>
    PROVE  ValuesDominate(Ended.lines)
PROOF
  <1> DEFINE n == Len(gen.lines)
             v == Missing(ResultOf(Unit.name))
             g == Holding(gen, v)
             h == Ended
             lines == h.lines
             refs == RefsLeft(gen, work, 1)
  <1>1. GeneratorOk(gen) /\ Temps(gen) /\ ReadsSettled(gen, work) /\ Ready(gen)
    <2>1. Ready(gen)
      BY NoTasks DEF Fits, Shape, Ready
    <2> QED BY <2>1 DEF Fits, Shape, Flow
  <1>2. Goes(gen, gen, {}, {}) /\ Sequence(gen.lines) /\ n \in Nat
    BY <1>1, GoesSelf, SequenceFacts DEF GeneratorOk
  <1>3. v.is # "temp"
    BY ConstKnown DEF Missing, Nothing, Zero, Value
  <1>4. KnownAt(gen, gen, {}, v)
    BY <1>3, KnownHere
  <1>5. Goes(gen, g, {}, {}) /\ g.value = v /\ g.lines = gen.lines
    <2> HIDE DEF v
    <2>1. g.lines = gen.lines /\ g.value = v
      BY <1>1 DEF Holding, GeneratorOk, Generator
    <2> QED BY <1>2, <1>4, <2>1, HoldingGoes DEF Yielded
  <1>6. h = Ret(g, TRUE)
    BY DEF Ended
  <1> HIDE DEF v, g
  <1>7. Goes(gen, h, {}, {})
    BY <1>3, <1>5, <1>6, RetGoes, KnownHere
  <1> DEFINE line == [op |-> "ret", from |-> g.value, last |-> TRUE]
  <1>8. lines = Append(gen.lines, line)
    BY <1>5, <1>6, EmitFields DEF Ret, Goes
  <1>9. Targets(line) = {} /\ Reads(line) = {v}
    BY <1>5 DEF Targets, Reads
  <1> HIDE DEF line, h, lines
  <1>10. /\ Len(lines) = n + 1 /\ lines[n + 1] = line
         /\ \A i \in 1 .. n : lines[i] = gen.lines[i]
    BY <1>2, <1>8, AppendIsSequence
  <1>11. Longer(gen.lines, lines) /\ StillClear(gen.lines, lines, refs, refs)
    <2>1. \A k \in n + 1 .. n + 1 : k = n + 1
      BY <1>2
    <2> HIDE DEF refs
    <2> QED BY <1>2, <1>9, <1>10, <2>1 DEF Longer, StillClear
  <1>12. ASSUME NEW i \in 1 .. Len(lines), NEW x \in Reads(lines[i]), x.is = "temp"
         PROVE  \E j \in 1 .. i - 1 : Defines(lines[j], x.v[1]) /\ Enclosed(lines, j, i)
    <2>1. i # n + 1
      BY <1>3, <1>9, <1>10, <1>12
    <2>2. i \in 1 .. n /\ Len(lines) \in Nat
      BY <1>2, <1>10, <2>1
    <2>3. Settled(gen.lines, refs, i, x)
      BY <1>1, <1>10, <2>2 DEF ReadsSettled
    <2> HIDE DEF refs
    <2>4. Settled(lines, refs, i, x)
      BY <1>11, <2>2, <2>3, SettledOn
    <2> QED BY <1>12, <2>2, <2>4, SettledEnclosed
  <1>13. Temps(h)
    BY <1>7 DEF Goes, Emits
  <1>14. ValuesDominate(lines)
    <2>1. \A i, j \in 1 .. Len(lines) :
              "d" \in DOMAIN lines[i] /\ Defines(lines[j], lines[i].d) => i = j
      BY <1>13 DEF Temps, lines
    <2> QED BY <1>12, <2>1 DEF ValuesDominate
  <1> QED BY <1>14 DEF lines, h

-----------------------------------------------------------------------------
(* The inductive invariant: besides what the blocks need, what is written  *)
(* of the function under way, and what is left to do, read only values     *)
(* that were computed before, and so does every function written.          *)
Dominated == \A f \in DOMAIN code : ValuesDominate(code[f])
Valued ==
    /\ stage = "generating" => Flow(gen, work) /\ Dominated
    /\ stage = "written" => Dominated
GeneratesValues == \E E, S : Generating(E, S) /\ Valued

LEMMA DominatedMore ==
    ASSUME Dominated, NEW f, NEW lines, ValuesDominate(lines), code' = With(code, f, lines)
    PROVE  Dominated'
  BY DEF Dominated, With

LEMMA WorkingValues ==
    ASSUME NEW E, NEW S, Generating(E, S), Valued,
           \/ CgBind
           \/ CgLiteral \/ CgName \/ CgUnary \/ CgUnaryOperation
           \/ CgLogic \/ CgFork \/ CgStore \/ CgLoad \/ CgBinary \/ CgRight \/ CgCombine
           \/ CgCall \/ CgPass \/ CgPrint \/ CgApply
           \/ CgLabel \/ CgJump \/ CgBranch \/ CgTest \/ CgEnter \/ CgLeave
           \/ CgBlock \/ CgScope \/ CgVar \/ CgDeclare \/ CgAssign \/ CgAssigned
           \/ CgDo \/ CgWhile \/ CgFor \/ CgLoop \/ CgIf \/ CgArms
           \/ CgSwitch \/ CgCases \/ CgTests \/ CgCompare \/ CgBodies
           \/ CgReturn \/ CgReturned \/ CgExit
    PROVE  Valued'
PROOF
  <1>1. /\ stage = "generating"
        /\ UNCHANGED <<program, stage, typing, code, unit>>
    BY DEF CgBind, CgLiteral, CgName, CgUnary, CgUnaryOperation, CgLogic, CgFork, CgStore,
           CgLoad, CgBinary, CgRight, CgCombine, CgCall, CgPass, CgPrint, CgApply, CgLabel,
           CgJump, CgBranch, CgTest, CgEnter, CgLeave, CgBlock, CgScope, CgVar, CgDeclare,
           CgAssign, CgAssigned, CgDo, CgWhile, CgFor, CgLoop, CgIf, CgArms, CgSwitch,
           CgCases, CgTests, CgCompare, CgBodies, CgReturn, CgReturned, CgExit,
           Evaluating, Making, Doing, Step
  <1>2. Built(E, S) /\ Fits /\ WorkBuilt(E, S, work) /\ Flow(gen, work) /\ Dominated
    BY <1>1 DEF Generating, Valued
  <1>3. Temps(gen)
    BY <1>2 DEF Flow
  <1>4. Flowing
    BY <1>2, <1>3, FlowsLeaf, FlowsFork, FlowsBinary, FlowsCall, FlowsLabel, FlowsEnd,
       FlowsFrame, FlowsSimple, FlowsVariable, FlowsReturn, FlowsLoop, FlowsIf, FlowsCases,
       FlowsTests, FlowsBodies
  <1>5. Flow(gen', work')
    BY <1>2, <1>4, FlowStep
  <1>6. Dominated'
    BY <1>1, <1>2 DEF Dominated
  <1>7. stage' = stage
    BY <1>1
  <1> QED BY <1>1, <1>5, <1>6, <1>7 DEF Valued

LEMMA PassingValues ==
    ASSUME NEW E, NEW S, Generating(E, S), Valued,
           CgBegin \/ CgFunction \/ CgEntry \/ CgCrash
    PROVE  Valued'
PROOF
  <1>1. ASSUME NEW i, NEW sites, OpenUnit(i, sites)
        PROVE  Flow(gen', work')
    BY <1>1, FlowFresh DEF OpenUnit
  <1>2. CASE CgBegin
    <2>1. code' = <<>> /\ OpenUnit(1, 1) /\ stage' = "generating"
      BY <1>2 DEF CgBegin
    <2>2. Dominated'
      BY <2>1 DEF Dominated
    <2>3. Flow(gen', work')
      BY <1>1, <2>1
    <2> QED BY <2>1, <2>2, <2>3 DEF Valued
  <1>3. ASSUME CgFunction \/ CgEntry
        PROVE  Dominated'
    <2>1. /\ stage = "generating" /\ work = <<>>
          /\ code' = With(code, Unit.name, Ended.lines)
      BY <1>3 DEF CgFunction, CgEntry
    <2>2. Fits /\ Flow(gen, work) /\ Dominated
      BY <2>1 DEF Generating, Valued
    <2>3. ValuesDominate(Ended.lines)
      BY <2>1, <2>2, Finished
    <2>4. PICK f, lines : f = Unit.name /\ lines = Ended.lines
      OBVIOUS
    <2> QED BY <2>1, <2>2, <2>3, <2>4, DominatedMore
  <1>4. CASE CgFunction
    <2>1. OpenUnit(unit + 1, gen.sites) /\ stage' = stage /\ stage = "generating"
      BY <1>4 DEF CgFunction
    <2>2. PICK i, sites : i = unit + 1 /\ sites = gen.sites
      OBVIOUS
    <2>3. Flow(gen', work')
      BY <1>1, <2>1, <2>2
    <2> QED BY <1>3, <1>4, <2>1, <2>3 DEF Valued
  <1>5. CASE CgEntry
    <2>1. stage' \in {"written", "unwritable"}
      BY <1>5 DEF CgEntry
    <2> QED BY <1>3, <1>5, <2>1 DEF Valued
  <1>6. CASE CgCrash
    BY <1>6 DEF CgCrash, Valued
  <1> QED BY <1>2, <1>4, <1>5, <1>6

(* Whatever program the generator is handed: no value is computed twice in *)
(* a function, and whatever an instruction reads has been computed before  *)
(* it on every path that comes there, through the branches of && and ||,   *)
(* the tests of a switch, the loops, and what follows a return.            *)
THEOREM ValuesAreAccepted == CodegenSpec => []ValuesAccepted
PROOF
  <1>1. CodegenInit => GeneratesValues
    BY DEF CodegenInit, GeneratesValues, Generating, Valued
  <1>2. ASSUME GeneratesValues, [CgNext]_<<program, stage, typing, codegenVars>>
        PROVE  GeneratesValues'
    <2>1. PICK E, S : Generating(E, S) /\ Valued
      BY <1>2 DEF GeneratesValues
    <2>2. Generating(E, S)'
      BY <1>2, <2>1, Generates
    <2>3. CASE CgNext
      <3>1. Valued'
        BY <2>1, <2>3, WorkingValues, PassingValues DEF CgNext
      <3> QED BY <2>2, <3>1 DEF GeneratesValues
    <2>4. CASE UNCHANGED <<program, stage, typing, codegenVars>>
      <3>1. stage' = stage /\ code' = code /\ gen' = gen /\ work' = work
        BY <2>4 DEF codegenVars
      <3>2. Dominated => Dominated'
        BY <3>1 DEF Dominated
      <3>3. Valued'
        BY <2>1, <3>1, <3>2 DEF Valued
      <3> QED BY <2>2, <3>3 DEF GeneratesValues
    <2> QED BY <1>2, <2>3, <2>4
  <1>3. GeneratesValues => ValuesAccepted
    BY DEF GeneratesValues, Valued, Dominated, ValuesAccepted
  <1> QED BY <1>1, <1>2, <1>3, PTL DEF CodegenSpec
=============================================================================
