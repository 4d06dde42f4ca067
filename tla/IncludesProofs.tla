--------------------------- MODULE IncludesProofs ---------------------------
(***************************************************************************)
(* No line is copied twice, an accepted expansion has met no cycle, and    *)
(* what a directive names lies before the text that follows it, for every  *)
(* set of source trees.                                                    *)
(***************************************************************************)
EXTENDS Includes, SequenceTheorems, TLAPS

(* What holds of the open paths, the files remembered and the lines copied *)
(* while the expansion is at work: a file is open once; every file above   *)
(* the root is remembered; a file that has lines copied is remembered or   *)
(* still open; and what was copied of an open file lies before its current *)
(* line.                                                                   *)
Held(frames, path) == \E i \in 1 .. Len(frames) : frames[i].path = path

OpenOnce(frames) ==
    \A i, j \in 1 .. Len(frames) :
        frames[i].path = frames[j].path /\ frames[i].path \in Files => i = j
Marked(frames, seen) ==
    \A i \in 2 .. Len(frames) : frames[i].path \in Files => frames[i].path \in seen
Accounted(frames, seen, out) ==
    \A i \in 1 .. Len(out) : out[i][1] \in seen \/ Held(frames, out[i][1])
Ahead(frames, out) ==
    \A i \in 1 .. Len(out), j \in 1 .. Len(frames) :
        frames[j].path = out[i][1] => out[i][2] < frames[j].at

Sound(frames, seen, out) ==
    /\ OpenOnce(frames) /\ Marked(frames, seen)
    /\ Accounted(frames, seen, out) /\ Ahead(frames, out)

IncludeInv ==
    /\ IncludeTypeOK
    /\ OnceEach
    /\ outcome = "start" => stack = <<>> /\ output = <<>>
    /\ outcome = "busy" => Sound(stack, expanded, output)

(* The same paths, each at its line or further on.                         *)
Onward(frames, next) ==
    /\ next \in Seq(Frame) /\ Len(next) = Len(frames)
    /\ \A i \in 1 .. Len(frames) :
           next[i].path = frames[i].path /\ next[i].at >= frames[i].at

-----------------------------------------------------------------------------
LEMMA FrameFields ==
    ASSUME NEW frames \in Seq(Frame), NEW i \in 1 .. Len(frames)
    PROVE  /\ frames[i] \in Frame /\ frames[i].path \in Files \cup Dirs
           /\ frames[i].at \in Nat \ {0}
PROOF
  <1>1. frames[i] \in Frame
    BY LenProperties
  <1>2. frames[i].path \in Files \cup Dirs
    BY <1>1 DEF Frame
  <1>3. frames[i].at \in Nat \ {0}
    BY <1>1 DEF Frame
  <1> QED BY <1>1, <1>2, <1>3

LEMMA LineFields ==
    ASSUME NEW out \in Seq(Files \X Nat), NEW i \in 1 .. Len(out)
    PROVE  /\ out[i] \in Files \X Nat /\ out[i][1] \in Files /\ out[i][2] \in Nat
           /\ out[i] = <<out[i][1], out[i][2]>>
  BY LenProperties

LEMMA BelowTop ==
    ASSUME stack \in Seq(Frame), stack # <<>>
    PROVE  /\ Below \in Seq(Frame) /\ Len(Below) = Len(stack) - 1
           /\ \A i \in 1 .. Len(stack) - 1 : Below[i] = stack[i]
           /\ Len(stack) \in Nat \ {0} /\ Top \in Frame
PROOF
  <1>1. Len(stack) \in Nat \ {0}
    BY LenProperties, EmptySeq
  <1>2. \A i \in 1 .. Len(stack) : stack[i] \in Frame
    BY FrameFields
  <1> DEFINE n == Len(stack) - 1
  <1>3. n \in Nat /\ 1 \in Int /\ \A i \in 1 .. n : stack[i] \in Frame
    BY <1>1, <1>2
  <1>4. Below = SubSeq(stack, 1, n)
    BY DEF Below
  <1> HIDE DEF n
  <1>5. /\ Below \in Seq(Frame)
        /\ Len(Below) = IF 1 <= n THEN n - 1 + 1 ELSE 0
        /\ \A i \in 1 .. n - 1 + 1 : Below[i] = stack[1 + i - 1]
    BY <1>3, <1>4, SubSeqProperties
  <1>6. n - 1 + 1 = n /\ (~(1 <= n) => n = 0) /\ \A i \in 1 .. n : 1 + i - 1 = i
    BY <1>3
  <1>7. Len(Below) = n /\ \A i \in 1 .. n : Below[i] = stack[i]
    BY <1>5, <1>6
  <1>8. Top \in Frame
    BY <1>1, <1>2 DEF Top
  <1> QED BY <1>1, <1>5, <1>7, <1>8 DEF n

(* Past the current line.                                                  *)
LEMMA SteppedOnward ==
    ASSUME stack \in Seq(Frame), stack # <<>>
    PROVE  /\ Onward(stack, Stepped)
           /\ Stepped[Len(stack)].at = Top.at + 1
PROOF
  <1> DEFINE frame == [Top EXCEPT !.at = @ + 1]
             n == Len(stack)
  <1>1. /\ Below \in Seq(Frame) /\ Len(Below) = n - 1 /\ n \in Nat \ {0}
        /\ \A i \in 1 .. n - 1 : Below[i] = stack[i]
        /\ Top \in Frame /\ Top = stack[n]
    BY BelowTop DEF Top
  <1>2. /\ frame \in Frame /\ frame.path = Top.path /\ frame.at = Top.at + 1
        /\ Top.at \in Nat
    <2> DEFINE top == Top
    <2>1. top \in [path: Files \cup Dirs, at: Nat \ {0}]
      BY <1>1 DEF Frame
    <2> HIDE DEF top
    <2>2. /\ [top EXCEPT !.at = @ + 1] \in [path: Files \cup Dirs, at: Nat \ {0}]
          /\ [top EXCEPT !.at = @ + 1].path = top.path
          /\ [top EXCEPT !.at = @ + 1].at = top.at + 1
          /\ top.at \in Nat
      BY <2>1
    <2> QED BY <2>2 DEF top, Frame
  <1> HIDE DEF frame, n
  <1>3. /\ Stepped = Append(Below, frame)
    BY <1>1, <1>2, AppendIsConcat DEF Stepped, frame
  <1>4. /\ Stepped \in Seq(Frame) /\ Len(Stepped) = n
        /\ \A i \in 1 .. n - 1 : Stepped[i] = stack[i]
        /\ Stepped[n] = frame
    BY <1>1, <1>2, <1>3, AppendProperties
  <1>5. \A i \in 1 .. n : Stepped[i].path = stack[i].path /\ Stepped[i].at >= stack[i].at
    <2> SUFFICES ASSUME NEW i \in 1 .. n
                 PROVE  Stepped[i].path = stack[i].path /\ Stepped[i].at >= stack[i].at
      OBVIOUS
    <2>1. CASE i = n
      BY <2>1, <1>1, <1>2, <1>4
    <2>2. CASE i # n
      <3>1. i \in 1 .. n - 1
        BY <2>2, <1>1
      <3>2. stack[i].at \in Nat
        BY FrameFields DEF n
      <3> QED BY <3>1, <3>2, <1>4
    <2> QED BY <2>1, <2>2
  <1> QED BY <1>2, <1>4, <1>5 DEF Onward, n

-----------------------------------------------------------------------------
LEMMA OnwardSound ==
    ASSUME NEW frames \in Seq(Frame), NEW next, Onward(frames, next),
           NEW seen, NEW out \in Seq(Files \X Nat), Sound(frames, seen, out)
    PROVE  Sound(next, seen, out)
PROOF
  <1>1. /\ Len(next) = Len(frames)
        /\ \A i \in 1 .. Len(frames) :
              next[i].path = frames[i].path /\ next[i].at >= frames[i].at
    BY DEF Onward
  <1>2. OpenOnce(next)
    BY <1>1 DEF Sound, OpenOnce
  <1>3. Marked(next, seen)
    <2>1. \A i \in 2 .. Len(frames) : i \in 1 .. Len(frames)
      BY LenProperties
    <2> QED BY <1>1, <2>1 DEF Sound, Marked
  <1>4. Accounted(next, seen, out)
    BY <1>1 DEF Sound, Accounted, Held
  <1>5. ASSUME NEW i \in 1 .. Len(out), NEW j \in 1 .. Len(next), next[j].path = out[i][1]
        PROVE  out[i][2] < next[j].at
    <2>1. out[i][2] < frames[j].at /\ next[j].at >= frames[j].at
      BY <1>1, <1>5 DEF Sound, Ahead
    <2>2. frames[j].at \in Nat /\ next[j].at \in Nat /\ out[i][2] \in Nat
      BY <1>1, FrameFields, LineFields DEF Onward
    <2> QED BY <2>1, <2>2
  <1>6. Ahead(next, out)
    BY <1>5 DEF Ahead
  <1> QED BY <1>2, <1>3, <1>4, <1>6 DEF Sound

(* A path that is taken up is on top.                                      *)
LEMMA EnteredOnTop ==
    ASSUME NEW frames \in Seq(Frame), NEW path \in Files \cup Dirs
    PROVE  /\ Entered(path, frames) \in Seq(Frame)
           /\ Len(Entered(path, frames)) = Len(frames) + 1 /\ Len(frames) \in Nat
           /\ \A i \in 1 .. Len(frames) : Entered(path, frames)[i] = frames[i]
           /\ Entered(path, frames)[Len(frames) + 1].path = path
           /\ Entered(path, frames)[Len(frames) + 1].at = 1
           /\ Entered(path, frames) # <<>>
PROOF
  <1> DEFINE frame == [path |-> path, at |-> 1]
  <1>1. frame \in Frame /\ frame.path = path /\ frame.at = 1
    BY DEF Frame
  <1>2. Entered(path, frames) = Append(frames, frame)
    BY DEF Entered
  <1> HIDE DEF frame
  <1> QED BY <1>1, <1>2, AppendProperties, LenProperties

(* A file is taken up when it is neither remembered nor open.              *)
LEMMA EnteredSound ==
    ASSUME NEW frames \in Seq(Frame), NEW path \in Files \cup Dirs,
           NEW seen, NEW more, seen \subseteq more,
           NEW out \in Seq(Files \X Nat), Sound(frames, seen, out),
           path \in Files => path \notin seen /\ ~Held(frames, path) /\ path \in more
    PROVE  Sound(Entered(path, frames), more, out)
PROOF
  <1> DEFINE n == Len(frames)
             next == Entered(path, frames)
  <1>1. /\ n \in Nat /\ Len(next) = n + 1 /\ next[n + 1].path = path /\ next[n + 1].at = 1
        /\ \A i \in 1 .. n : next[i] = frames[i]
    BY EnteredOnTop
  <1>2. \A i \in 1 .. n : path \in Files => frames[i].path # path
    BY DEF Held
  <1>3. /\ \A i, j \in 1 .. n :
              frames[i].path = frames[j].path /\ frames[i].path \in Files => i = j
        /\ \A i \in 2 .. n : frames[i].path \in Files => frames[i].path \in seen
        /\ \A i \in 1 .. Len(out) : out[i][1] \in seen \/ Held(frames, out[i][1])
        /\ \A i \in 1 .. Len(out), j \in 1 .. n :
              frames[j].path = out[i][1] => out[i][2] < frames[j].at
    BY DEF Sound, OpenOnce, Marked, Accounted, Ahead
  <1> HIDE DEF n, next
  <1>4. ASSUME NEW i \in 1 .. Len(next) PROVE i \in 1 .. n \/ i = n + 1
    BY <1>1
  <1>5. OpenOnce(next)
    <2> SUFFICES ASSUME NEW i \in 1 .. Len(next), NEW j \in 1 .. Len(next),
                        next[i].path = next[j].path, next[i].path \in Files
                 PROVE  i = j
      BY DEF OpenOnce
    <2> QED BY <1>1, <1>2, <1>3, <1>4
  <1>6. Marked(next, more)
    <2> SUFFICES ASSUME NEW i \in 2 .. Len(next), next[i].path \in Files
                 PROVE  next[i].path \in more
      BY DEF Marked
    <2>1. CASE i = n + 1
      BY <2>1, <1>1
    <2>2. CASE i # n + 1
      <3>1. i \in 2 .. n /\ i \in 1 .. n
        BY <2>2, <1>1
      <3> QED BY <3>1, <1>1, <1>3
    <2> QED BY <2>1, <2>2
  <1>7. Accounted(next, more, out)
    <2> SUFFICES ASSUME NEW i \in 1 .. Len(out)
                 PROVE  out[i][1] \in more \/ Held(next, out[i][1])
      BY DEF Accounted
    <2>1. CASE out[i][1] \in seen
      BY <2>1
    <2>2. CASE Held(frames, out[i][1])
      <3>1. PICK j \in 1 .. n : frames[j].path = out[i][1]
        BY <2>2 DEF Held, n
      <3>2. j \in 1 .. Len(next) /\ next[j].path = out[i][1]
        BY <3>1, <1>1
      <3> QED BY <3>2 DEF Held
    <2> QED BY <2>1, <2>2, <1>3
  <1>8. Ahead(next, out)
    <2> SUFFICES ASSUME NEW i \in 1 .. Len(out), NEW j \in 1 .. Len(next),
                        next[j].path = out[i][1]
                 PROVE  out[i][2] < next[j].at
      BY DEF Ahead
    <2>1. CASE j \in 1 .. n
      BY <2>1, <1>1, <1>3
    <2>2. CASE j = n + 1
      <3>1. out[i][1] = path /\ out[i][1] \in Files
        BY <2>2, <1>1, LineFields
      <3> QED BY <3>1, <1>3
    <2> QED BY <2>1, <2>2, <1>4
  <1> QED BY <1>5, <1>6, <1>7, <1>8 DEF Sound, next

(* The root is taken up when nothing is open and nothing is copied.        *)
LEMMA RootSound ==
    ASSUME NEW path \in Files \cup Dirs, NEW seen
    PROVE  Sound(Entered(path, <<>>), seen, <<>>)
PROOF
  <1> DEFINE next == Entered(path, <<>>)
  <1>1. <<>> \in Seq(Frame) /\ Len(<<>>) = 0
    BY EmptySeq
  <1>2. Len(next) = 1
    <2>1. ASSUME NEW frames \in Seq(Frame), Len(frames) = 0
          PROVE  Len(Entered(path, frames)) = 1
      <3>1. Len(Entered(path, frames)) = Len(frames) + 1
        BY EnteredOnTop
      <3> QED BY <2>1, <3>1
    <2> QED BY <1>1, <2>1
  <1> HIDE DEF next
  <1>3. OpenOnce(next) /\ Marked(next, seen)
    BY <1>2 DEF OpenOnce, Marked
  <1>4. Accounted(next, seen, <<>>) /\ Ahead(next, <<>>)
    BY <1>1 DEF Accounted, Ahead
  <1> QED BY <1>3, <1>4 DEF Sound, next

(* What is done with is remembered, unless it is the root.                 *)
LEMMA BelowSound ==
    ASSUME stack \in Seq(Frame), stack # <<>>, Len(stack) # 1,
           NEW out \in Seq(Files \X Nat), Sound(stack, expanded, out)
    PROVE  Sound(Below, expanded, out) /\ Below # <<>>
PROOF
  <1> DEFINE n == Len(stack)
  <1>1. /\ n \in Nat /\ n > 1 /\ Len(Below) = n - 1
        /\ \A i \in 1 .. n - 1 : Below[i] = stack[i]
    BY BelowTop
  <1>2. /\ \A i, j \in 1 .. n :
              stack[i].path = stack[j].path /\ stack[i].path \in Files => i = j
        /\ \A i \in 2 .. n : stack[i].path \in Files => stack[i].path \in expanded
        /\ \A i \in 1 .. Len(out) : out[i][1] \in expanded \/ Held(stack, out[i][1])
        /\ \A i \in 1 .. Len(out), j \in 1 .. n :
              stack[j].path = out[i][1] => out[i][2] < stack[j].at
    BY DEF Sound, OpenOnce, Marked, Accounted, Ahead
  <1> DEFINE next == Below
  <1>3. Len(next) = n - 1 /\ \A i \in 1 .. n - 1 : next[i] = stack[i]
    BY <1>1
  <1> HIDE DEF n, next
  <1>4. \A i \in 1 .. n - 1 : i \in 1 .. n
    BY <1>1
  <1>5. OpenOnce(next)
    BY <1>2, <1>3, <1>4 DEF OpenOnce
  <1>6. Marked(next, expanded)
    <2>1. \A i \in 2 .. n - 1 : i \in 2 .. n /\ i \in 1 .. n - 1
      BY <1>1
    <2> QED BY <2>1, <1>2, <1>3 DEF Marked
  <1>7. Accounted(next, expanded, out)
    <2> SUFFICES ASSUME NEW i \in 1 .. Len(out), out[i][1] \notin expanded
                 PROVE  Held(next, out[i][1])
      BY DEF Accounted
    <2>1. PICK j \in 1 .. n : stack[j].path = out[i][1]
      BY <1>2 DEF Held, n
    <2>2. j # n
      <3>1. n \in 2 .. n /\ out[i][1] \in Files
        BY <1>1, LineFields
      <3> QED BY <3>1, <2>1, <1>2
    <2>3. j \in 1 .. n - 1
      BY <2>2, <1>1
    <2> QED BY <2>1, <2>3, <1>3 DEF Held
  <1>8. Ahead(next, out)
    BY <1>2, <1>3, <1>4 DEF Ahead
  <1>9. next # <<>>
    <2>1. Len(next) > 0
      BY <1>1, <1>3
    <2> QED BY <2>1
  <1> QED BY <1>5, <1>6, <1>7, <1>8, <1>9 DEF Sound, next

(* A line of the file on top is copied, and the file goes on.              *)
LEMMA CopiedSound ==
    ASSUME stack \in Seq(Frame), stack # <<>>, Top.path \in Files,
           output \in Seq(Files \X Nat), OnceEach, Sound(stack, expanded, output),
           NEW out, out = Append(output, <<Top.path, Top.at>>)
    PROVE  /\ out \in Seq(Files \X Nat) /\ Sound(Stepped, expanded, out)
           /\ \A i, j \in 1 .. Len(out) : out[i] = out[j] => i = j
PROOF
  <1> DEFINE n == Len(stack)
             m == Len(output)
             line == <<Top.path, Top.at>>
             frames == Stepped
  <1>1. /\ n \in Nat \ {0} /\ n \in 1 .. n /\ Top = stack[n]
        /\ Top.at \in Nat /\ line \in Files \X Nat /\ line[1] = Top.path /\ line[2] = Top.at
    <2>1. n \in Nat \ {0} /\ n \in 1 .. n /\ Top = stack[n]
      BY BelowTop DEF Top
    <2>2. Top.at \in Nat
      BY <2>1, FrameFields
    <2> QED BY <2>1, <2>2
  <1>2. /\ frames \in Seq(Frame) /\ Len(frames) = n
        /\ \A i \in 1 .. n : frames[i].path = stack[i].path
        /\ frames[n].at = Top.at + 1 /\ Sound(frames, expanded, output)
    BY SteppedOnward, OnwardSound DEF Onward
  <1>3. /\ m \in Nat /\ out \in Seq(Files \X Nat) /\ Len(out) = m + 1
        /\ \A i \in 1 .. m : out[i] = output[i]
        /\ out[m + 1] = line
    BY <1>1, AppendProperties, LenProperties
  <1>4. \A i \in 1 .. m : output[i][1] = Top.path => output[i][2] < Top.at
    BY <1>1 DEF Sound, Ahead
  <1>5. /\ \A i, j \in 1 .. n :
              stack[i].path = stack[j].path /\ stack[i].path \in Files => i = j
    BY DEF Sound, OpenOnce
  <1>6. /\ OpenOnce(frames) /\ Marked(frames, expanded)
        /\ \A i \in 1 .. m : output[i][1] \in expanded \/ Held(frames, output[i][1])
        /\ \A i \in 1 .. m, j \in 1 .. n :
              frames[j].path = output[i][1] => output[i][2] < frames[j].at
    BY <1>2 DEF Sound, Accounted, Ahead
  <1>7. \A i \in 1 .. m : output[i] \in Files \X Nat /\ output[i][2] \in Nat
    BY LineFields
  <1> HIDE DEF n, m, line, frames
  <1>8. ASSUME NEW i \in 1 .. Len(out) PROVE i \in 1 .. m \/ i = m + 1
    BY <1>3
  <1>9. \A i \in 1 .. m : output[i] # line
    <2> SUFFICES ASSUME NEW i \in 1 .. m, output[i] = line PROVE FALSE
      OBVIOUS
    <2>1. output[i][1] = Top.path /\ output[i][2] = Top.at
      BY <1>1
    <2>2. output[i][2] < Top.at
      BY <2>1, <1>4
    <2> QED BY <2>1, <2>2, <1>1
  <1>10. \A i, j \in 1 .. Len(out) : out[i] = out[j] => i = j
    <2> SUFFICES ASSUME NEW i \in 1 .. Len(out), NEW j \in 1 .. Len(out), out[i] = out[j]
                 PROVE  i = j
      OBVIOUS
    <2>1. CASE i \in 1 .. m /\ j \in 1 .. m
      BY <2>1, <1>3 DEF OnceEach, m
    <2> QED BY <2>1, <1>3, <1>8, <1>9
  <1>11. Accounted(frames, expanded, out)
    <2> SUFFICES ASSUME NEW i \in 1 .. Len(out)
                 PROVE  out[i][1] \in expanded \/ Held(frames, out[i][1])
      BY DEF Accounted
    <2>1. CASE i \in 1 .. m
      BY <2>1, <1>3, <1>6
    <2>2. CASE i = m + 1
      <3>1. n \in 1 .. Len(frames) /\ frames[n].path = out[i][1]
        BY <2>2, <1>1, <1>2, <1>3
      <3> QED BY <3>1 DEF Held
    <2> QED BY <2>1, <2>2, <1>8
  <1>12. Ahead(frames, out)
    <2> SUFFICES ASSUME NEW i \in 1 .. Len(out), NEW j \in 1 .. Len(frames),
                        frames[j].path = out[i][1]
                 PROVE  out[i][2] < frames[j].at
      BY DEF Ahead
    <2>1. CASE i \in 1 .. m
      BY <2>1, <1>2, <1>3, <1>6
    <2>2. CASE i = m + 1
      <3>1. out[i][1] = Top.path /\ out[i][2] = Top.at
        BY <2>2, <1>1, <1>3
      <3>2. stack[j].path = stack[n].path /\ j \in 1 .. n
        BY <3>1, <1>1, <1>2
      <3>3. j = n
        BY <3>1, <3>2, <1>1, <1>5
      <3> QED BY <3>1, <3>3, <1>1, <1>2
    <2> QED BY <2>1, <2>2, <1>8
  <1> QED BY <1>3, <1>6, <1>10, <1>11, <1>12 DEF Sound, frames

-----------------------------------------------------------------------------
(* Answering a request from a stack that is sound.                         *)
LEMMA PathSound ==
    ASSUME IncludeInv, outcome = "busy", NEW path, ExpandPath(path, Stepped, FALSE)
    PROVE  IncludeInv'
PROOF
  <1>1. /\ stack \in Seq(Frame) /\ stack # <<>> /\ tree \in Trees
        /\ expanded \subseteq Files /\ output \in Seq(Files \X Nat)
        /\ OnceEach /\ Sound(stack, expanded, output)
    BY DEF IncludeInv, IncludeTypeOK
  <1> DEFINE frames == Stepped
  <1>2. /\ frames \in Seq(Frame) /\ Len(frames) = Len(stack) /\ Sound(frames, expanded, output)
        /\ \A i \in 1 .. Len(stack) : frames[i].path = stack[i].path
    BY <1>1, SteppedOnward, OnwardSound DEF Onward
  <1>3. frames # <<>>
    BY <1>1, <1>2, EmptySeq
  <1>4. ~Circular(path) => ~Held(frames, path)
    BY <1>2 DEF Circular, Open, Held
  <1>5. ExpandPath(path, frames, FALSE)
    OBVIOUS
  <1> HIDE DEF frames
  <1>6. CASE Fail
    BY <1>1, <1>6 DEF Fail, IncludeInv, IncludeTypeOK, OnceEach
  <1>7. CASE /\ stack' = frames
             /\ UNCHANGED <<tree, expanded, output, outcome>>
    BY <1>1, <1>2, <1>3, <1>7 DEF IncludeInv, IncludeTypeOK, OnceEach
  <1>8. ASSUME path \in Files \cup Dirs, Push(path, frames), expanded' \subseteq Files,
               expanded \subseteq expanded',
               path \in Files =>
                   path \notin expanded /\ ~Held(frames, path) /\ path \in expanded'
        PROVE  IncludeInv'
    <2>1. /\ stack' = Entered(path, frames) /\ outcome' = "busy"
          /\ tree' = tree /\ output' = output
      BY <1>8 DEF Push
    <2>2. Sound(Entered(path, frames), expanded', output)
      BY <1>1, <1>2, <1>8, EnteredSound
    <2>3. stack' \in Seq(Frame) /\ stack' # <<>>
      BY <1>2, <1>8, <2>1, EnteredOnTop
    <2> QED BY <1>1, <1>8, <2>1, <2>2, <2>3 DEF IncludeInv, IncludeTypeOK, OnceEach
  <1>9. CASE /\ path \in Files /\ ~Circular(path) /\ path \notin expanded
             /\ expanded' = Remembered(path, FALSE) /\ Push(path, frames)
    BY <1>1, <1>4, <1>8, <1>9 DEF Remembered
  <1>10. CASE path \in Dirs \ tree.shut /\ Push(path, frames) /\ UNCHANGED expanded
    BY <1>1, <1>8, <1>10, IncludesAssumption
  <1> QED BY <1>5, <1>6, <1>7, <1>9, <1>10 DEF ExpandPath, ExpandFile

LEMMA IncludeInvInit == IncludeInit => IncludeInv
  BY EmptySeq DEF IncludeInit, IncludeInv, IncludeTypeOK, OnceEach

LEMMA IncludeInvNext == IncludeInv /\ [IncludeNext]_includeVars => IncludeInv'
PROOF
  <1> SUFFICES ASSUME IncludeInv, [IncludeNext]_includeVars PROVE IncludeInv'
    OBVIOUS
  <1>1. /\ stack \in Seq(Frame) /\ tree \in Trees
        /\ expanded \subseteq Files /\ output \in Seq(Files \X Nat) /\ OnceEach
        /\ outcome = "busy" => stack # <<>> /\ Sound(stack, expanded, output)
        /\ outcome = "start" => stack = <<>> /\ output = <<>>
    BY DEF IncludeInv, IncludeTypeOK
  <1>2. CASE Begin
    <2>1. outcome = "start" /\ stack = <<>> /\ output = <<>> /\ ExpandPath(Root, <<>>, TRUE)
      BY <1>1, <1>2 DEF Begin
    <2>2. CASE Fail
      BY <1>1, <2>2 DEF Fail, IncludeInv, IncludeTypeOK, OnceEach
    <2>3. CASE expanded' = expanded /\ Push(Root, <<>>)
      <3>1. /\ stack' = Entered(Root, <<>>) /\ outcome' = "busy"
            /\ tree' = tree /\ output' = <<>> /\ output' = output
        BY <2>1, <2>3 DEF Push
      <3>2. Root \in Files \cup Dirs
        BY IncludesAssumption
      <3>3. stack' \in Seq(Frame) /\ stack' # <<>> /\ Sound(stack', expanded, <<>>)
        BY <3>1, <3>2, EmptySeq, EnteredOnTop, RootSound
      <3> QED BY <1>1, <2>3, <3>1, <3>3 DEF IncludeInv, IncludeTypeOK, OnceEach
    <2> QED BY <2>1, <2>2, <2>3, IncludesAssumption
            DEF ExpandPath, ExpandFile, Remembered
  <1>3. CASE CopyLine
    <2>1. /\ outcome = "busy" /\ Top.path \in Files /\ stack' = Stepped
          /\ output' = Append(output, <<Top.path, Top.at>>)
          /\ tree' = tree /\ expanded' = expanded /\ outcome' = outcome
      BY <1>3 DEF CopyLine, AtLine, InFile
    <2>2. /\ output' \in Seq(Files \X Nat) /\ Sound(Stepped, expanded, output')
          /\ \A i, j \in 1 .. Len(output') : output'[i] = output'[j] => i = j
      BY <1>1, <2>1, CopiedSound
    <2>3. Stepped \in Seq(Frame) /\ Stepped # <<>>
      <3>1. Len(Stepped) = Len(stack) /\ Stepped \in Seq(Frame)
        BY <1>1, <2>1, SteppedOnward DEF Onward
      <3> QED BY <3>1, <1>1, <2>1, EmptySeq
    <2> QED BY <1>1, <2>1, <2>2, <2>3 DEF IncludeInv, IncludeTypeOK, OnceEach
  <1>4. CASE FollowDirective
    BY <1>4, PathSound DEF FollowDirective, AtLine, InFile
  <1>5. CASE RejectDirective
    BY <1>1, <1>5 DEF RejectDirective, Fail, IncludeInv, IncludeTypeOK, OnceEach
  <1>6. CASE NextChild
    BY <1>6, PathSound DEF NextChild, InDirectory
  <1>7. CASE Finish
    <2>1. /\ outcome = "busy" /\ stack' = Below
          /\ outcome' = IF Len(stack) = 1 THEN "ok" ELSE "busy"
          /\ tree' = tree /\ expanded' = expanded /\ output' = output
      BY <1>7 DEF Finish, InFile, InDirectory
    <2>2. Below \in Seq(Frame)
      BY <1>1, <2>1, BelowTop
    <2>3. CASE Len(stack) = 1
      BY <1>1, <2>1, <2>2, <2>3 DEF IncludeInv, IncludeTypeOK, OnceEach
    <2>4. CASE Len(stack) # 1
      <3>1. Sound(Below, expanded, output) /\ Below # <<>>
        BY <1>1, <2>1, <2>4, BelowSound
      <3> QED BY <1>1, <2>1, <2>2, <2>4, <3>1 DEF IncludeInv, IncludeTypeOK, OnceEach
    <2> QED BY <2>3, <2>4
  <1>8. CASE UNCHANGED includeVars
    BY <1>8 DEF includeVars, IncludeInv, IncludeTypeOK, OnceEach
  <1> QED BY <1>2, <1>3, <1>4, <1>5, <1>6, <1>7, <1>8 DEF IncludeNext

(* The stack holds paths with lines, and what is remembered are files.     *)
THEOREM IncludeTypeCorrect == IncludeSpec => []IncludeTypeOK
PROOF
  <1>1. IncludeInv => IncludeTypeOK
    BY DEF IncludeInv
  <1> QED BY <1>1, IncludeInvInit, IncludeInvNext, PTL DEF IncludeSpec

(* Each line of each file is copied at most once, by whatever chain of     *)
(* directives and directories the file is named.                           *)
THEOREM IncludedOnce == IncludeSpec => []OnceEach
PROOF
  <1>1. IncludeInv => OnceEach
    BY DEF IncludeInv
  <1> QED BY <1>1, IncludeInvInit, IncludeInvNext, PTL DEF IncludeSpec

-----------------------------------------------------------------------------
(* What a line or a child asks for, and the files whose expansion is over.  *)
Target(path, n) == IF path \in Dirs THEN tree.listing[path][n] ELSE tree.lines[path][n].to
Size(path) == IF path \in Dirs THEN Len(tree.listing[path]) ELSE Len(tree.lines[path])
Done(frames, seen) == {file \in seen : ~Held(frames, file)}

(* A request is met when its file, or each file of its directory, is done.  *)
Met(target, done) ==
    /\ target \in Files => target \in done
    /\ target \in Dirs => Asks(target) \subseteq done

(* A file that asks for nothing beyond a set that it is not in.             *)
Escapes(file) ==
    \E set \in SUBSET (Files \cup Dirs) :
        Asks(file) \subseteq set /\ ClosedUnder(set) /\ file \notin set

Copied(file, n, out) == \E i \in 1 .. Len(out) : out[i] = <<file, n>>

Finished(file, done, out) ==
    /\ \A n \in 1 .. Size(file) : Met(Target(file, n), done)
    /\ \A n \in TextLines(file) : Copied(file, n, out)
    /\ Escapes(file)

(* The lines that an open path has passed are met and, if they are text,    *)
(* copied; the last of them may be what the path above it stands for.       *)
Passed(frames, done, out) ==
    \A j \in 1 .. Len(frames) : \A n \in 1 .. frames[j].at - 1 :
        /\ \/ Met(Target(frames[j].path, n), done)
           \/ /\ j < Len(frames) /\ n = frames[j].at - 1
              /\ Target(frames[j].path, n) = frames[j + 1].path
        /\ frames[j].path \in Files /\ n \in TextLines(frames[j].path) =>
               Copied(frames[j].path, n, out)

(* What a copied line comes after.                                          *)
InPlace(out) ==
    \A i \in 1 .. Len(out) : \A d \in 1 .. out[i][2] - 1 :
        Target(out[i][1], d) \in Files =>
            \A n \in TextLines(Target(out[i][1], d)) :
                \E k \in 1 .. i - 1 : out[k] = <<Target(out[i][1], d), n>>

Ordered(frames, seen, out) ==
    /\ frames[1].path = Root /\ Root \notin seen
    /\ \A file \in Done(frames, seen) : Finished(file, Done(frames, seen), out)
    /\ Passed(frames, Done(frames, seen), out)

OrderInv ==
    /\ outcome = "start" => expanded = {}
    /\ InPlace(output)
    /\ outcome = "busy" => Ordered(stack, expanded, output)
    /\ outcome = "ok" =>
          /\ Root \notin expanded
          /\ \A file \in {Root} \cup expanded : Finished(file, expanded, output)

-----------------------------------------------------------------------------
LEMMA TreeFields ==
    ASSUME tree \in Trees
    PROVE  /\ \A file \in Files : tree.lines[file] \in Seq(Lines)
           /\ \A d \in Dirs : tree.listing[d] \in Seq(Files)
           /\ tree.lines \in [Files -> Seq(Lines)] /\ tree.listing \in [Dirs -> Seq(Files)]
  BY IncludesAssumption DEF Tree

LEMMA Targets ==
    ASSUME tree \in Trees
    PROVE  /\ \A path \in Files \cup Dirs, n \in Nat \ {0} :
                 n <= Size(path) => Target(path, n) \in Paths
           /\ \A d \in Dirs, n \in Nat \ {0} : n <= Size(d) => Target(d, n) \in Files
           /\ \A path \in Files \cup Dirs :
                 /\ Size(path) \in Nat
                 /\ Asks(path) = {Target(path, n) : n \in 1 .. Size(path)} \ {Nowhere}
                 /\ Asks(path) \subseteq Files \cup Dirs
PROOF
  <1>1. Files \cap Dirs = {} /\ Nowhere \notin Files \cup Dirs
    BY IncludesAssumption
  <1>2. ASSUME NEW line \in Lines PROVE line.to \in Paths
    BY DEF Lines, Text, Broken, Include, Paths
  <1>3. ASSUME NEW file \in Files
        PROVE  /\ Size(file) \in Nat /\ Size(file) = Len(tree.lines[file])
               /\ \A n \in 1 .. Size(file) :
                     Target(file, n) = tree.lines[file][n].to /\ Target(file, n) \in Paths
    <2>1. file \notin Dirs /\ tree.lines[file] \in Seq(Lines)
      BY <1>1, TreeFields
    <2>2. Len(tree.lines[file]) \in Nat
          /\ \A n \in 1 .. Len(tree.lines[file]) : tree.lines[file][n] \in Lines
      BY <2>1, LenProperties
    <2> QED BY <2>1, <2>2, <1>2 DEF Size, Target
  <1>4. ASSUME NEW d \in Dirs
        PROVE  /\ Size(d) \in Nat /\ Size(d) = Len(tree.listing[d])
               /\ \A n \in 1 .. Size(d) :
                     Target(d, n) = tree.listing[d][n] /\ Target(d, n) \in Files
    <2>1. tree.listing[d] \in Seq(Files)
      BY TreeFields
    <2>2. Len(tree.listing[d]) \in Nat
          /\ \A n \in 1 .. Len(tree.listing[d]) : tree.listing[d][n] \in Files
      BY <2>1, LenProperties
    <2> QED BY <2>2 DEF Size, Target
  <1>5. ASSUME NEW file \in Files
        PROVE  Asks(file) = {Target(file, n) : n \in 1 .. Size(file)} \ {Nowhere}
    <2>1. file \notin Dirs
      BY <1>1
    <2>2. Asks(file) = {line.to : line \in {tree.lines[file][i] : i \in 1 .. Size(file)}}
                          \ {Nowhere}
      BY <2>1, <1>3 DEF Asks
    <2> QED BY <2>2, <1>3
  <1>6. ASSUME NEW d \in Dirs
        PROVE  Asks(d) = {Target(d, n) : n \in 1 .. Size(d)} \ {Nowhere}
    <2>1. Asks(d) = {tree.listing[d][i] : i \in 1 .. Size(d)}
      BY <1>4 DEF Asks
    <2> QED BY <2>1, <1>1, <1>4
  <1>7. \A path \in Files \cup Dirs, n \in Nat \ {0} :
            Size(path) \in Nat /\ n <= Size(path) => n \in 1 .. Size(path)
    OBVIOUS
  <1>8. \A path \in Files \cup Dirs :
           Asks(path) = {Target(path, n) : n \in 1 .. Size(path)} \ {Nowhere}
    BY <1>5, <1>6
  <1>9. \A path \in Files \cup Dirs : Asks(path) \subseteq Files \cup Dirs
    BY <1>3, <1>4, <1>8 DEF Paths
  <1>10. \A path \in Files \cup Dirs : Size(path) \in Nat
    BY <1>3, <1>4
  <1> QED BY <1>3, <1>4, <1>7, <1>8, <1>9, <1>10 DEF Paths

(* What is reached from a path lies in every closed set that holds what the *)
(* path asks for: the least of these sets exists.                           *)
LEMMA ReachesLeast ==
    ASSUME tree \in Trees, NEW from \in Files \cup Dirs,
           NEW set \in SUBSET (Files \cup Dirs), Asks(from) \subseteq set, ClosedUnder(set)
    PROVE  Reaches(from) \subseteq set
PROOF
  <1> DEFINE All == Files \cup Dirs
             Holds(s) == Asks(from) \subseteq s /\ ClosedUnder(s)
             Least(s) == Holds(s) /\ \A less \in SUBSET s : Holds(less) => less = s
             low == {x \in All : \A s \in SUBSET All : Holds(s) => x \in s}
  <1>1. \A path \in All : Asks(path) \subseteq All
    BY Targets
  <1>2. Holds(low)
    BY <1>1 DEF ClosedUnder
  <1>3. low \in SUBSET All /\ \A less \in SUBSET low : Holds(less) => less = low
    OBVIOUS
  <1>4. Reaches(from) = CHOOSE s \in SUBSET All : Least(s)
    BY DEF Reaches
  <1>5. \E s \in SUBSET All : Least(s)
    BY <1>2, <1>3
  <1> HIDE DEF Least
  <1>6. Reaches(from) \in SUBSET All /\ Least(Reaches(from))
    BY <1>4, <1>5
  <1> DEFINE both == Reaches(from) \cap set
  <1>7. Holds(both)
    BY <1>6 DEF Least, ClosedUnder
  <1>8. both \in SUBSET Reaches(from)
    OBVIOUS
  <1> HIDE DEF both, Holds
  <1>9. both = Reaches(from)
    BY <1>6, <1>7, <1>8 DEF Least
  <1> QED BY <1>9 DEF both

(* The files that are done and the directories whose files are done ask for *)
(* nothing else.                                                            *)
LEMMA DoneClosed ==
    ASSUME tree \in Trees, NEW done \in SUBSET Files,
           \A file \in done : \A n \in 1 .. Size(file) : Met(Target(file, n), done)
    PROVE  LET set == done \cup {d \in Dirs : Asks(d) \subseteq done}
           IN  /\ set \in SUBSET (Files \cup Dirs) /\ ClosedUnder(set)
               /\ set \cap Files = done
               /\ \A path \in Files :
                     (\A n \in 1 .. Size(path) : Met(Target(path, n), done))
                         => Asks(path) \subseteq set
PROOF
  <1> DEFINE set == done \cup {d \in Dirs : Asks(d) \subseteq done}
  <1>1. ASSUME NEW path \in Files, \A n \in 1 .. Size(path) : Met(Target(path, n), done)
        PROVE  Asks(path) \subseteq set
    <2> SUFFICES ASSUME NEW x \in Asks(path) PROVE x \in set
      OBVIOUS
    <2>1. PICK n \in 1 .. Size(path) : x = Target(path, n)
      BY Targets
    <2>2. x \in Files \cup Dirs
      BY Targets
    <2> QED BY <1>1, <2>1, <2>2 DEF Met
  <1>2. \A file \in done : Asks(file) \subseteq set
    BY <1>1
  <1>3. ClosedUnder(set)
    BY <1>2 DEF ClosedUnder
  <1>4. set \cap Files = done
    BY IncludesAssumption
  <1> QED BY <1>1, <1>3, <1>4

LEMMA MetMore ==
    ASSUME NEW done, NEW more, done \subseteq more, NEW target, Met(target, done)
    PROVE  Met(target, more)
  BY DEF Met

LEMMA FinishedMore ==
    ASSUME NEW done, NEW more, done \subseteq more, NEW file, NEW out, NEW longer,
           \A n : Copied(file, n, out) => Copied(file, n, longer),
           Finished(file, done, out)
    PROVE  Finished(file, more, longer)
  BY MetMore DEF Finished

LEMMA CopiedMore ==
    ASSUME NEW out \in Seq(Files \X Nat), NEW line \in Files \X Nat
    PROVE  \A file, n : Copied(file, n, out) => Copied(file, n, Append(out, line))
PROOF
  <1>1. /\ Len(out) \in Nat /\ Len(Append(out, line)) = Len(out) + 1
        /\ \A i \in 1 .. Len(out) : Append(out, line)[i] = out[i]
    BY AppendProperties, LenProperties
  <1>2. \A i \in 1 .. Len(out) : i \in 1 .. Len(Append(out, line))
    BY <1>1
  <1> QED BY <1>1, <1>2 DEF Copied

LEMMA SteppedSame ==
    ASSUME stack \in Seq(Frame), stack # <<>>
    PROVE  \A i \in 1 .. Len(stack) - 1 : Stepped[i] = stack[i]
PROOF
  <1> DEFINE frame == [Top EXCEPT !.at = @ + 1]
             n == Len(stack)
  <1>1. /\ Below \in Seq(Frame) /\ Len(Below) = n - 1 /\ n \in Nat \ {0}
        /\ \A i \in 1 .. n - 1 : Below[i] = stack[i]
    BY BelowTop
  <1> HIDE DEF n, frame
  <1>2. Stepped = Below \o <<frame>>
    BY DEF Stepped, frame
  <1>3. \A i \in 1 .. n - 1 : (Below \o <<frame>>)[i] = Below[i]
    BY <1>1
  <1> QED BY <1>1, <1>2, <1>3 DEF n

-----------------------------------------------------------------------------
(* Past a line that is met.                                                *)
LEMMA OrderStepped ==
    ASSUME stack \in Seq(Frame), stack # <<>>, NEW seen, NEW out, Ordered(stack, seen, out),
           Met(Target(Top.path, Top.at), Done(stack, seen)),
           Top.path \in Files /\ Top.at \in TextLines(Top.path) =>
               Copied(Top.path, Top.at, out)
    PROVE  Ordered(Stepped, seen, out)
PROOF
  <1> DEFINE n == Len(stack)
             next == Stepped
             done == Done(stack, seen)
  <1>1. /\ n \in Nat \ {0} /\ Top = stack[n] /\ Top.at \in Nat
        /\ next \in Seq(Frame) /\ Len(next) = n /\ next[n].at = Top.at + 1
        /\ \A i \in 1 .. n : next[i].path = stack[i].path
        /\ \A i \in 1 .. n - 1 : next[i] = stack[i]
    <2>1. /\ n \in Nat \ {0} /\ Top = stack[n]
      BY BelowTop DEF Top
    <2>2. Top.at \in Nat
      BY <2>1, FrameFields
    <2>3. \A i \in 1 .. n - 1 : next[i] = stack[i]
      BY SteppedSame
    <2> QED BY <2>1, <2>2, <2>3, SteppedOnward DEF Onward
  <1>2. Done(next, seen) = done
    BY <1>1 DEF Done, Held
  <1>3. /\ \A j \in 1 .. n : \A k \in 1 .. stack[j].at - 1 :
              /\ \/ Met(Target(stack[j].path, k), done)
                 \/ /\ j < n /\ k = stack[j].at - 1
                    /\ Target(stack[j].path, k) = stack[j + 1].path
              /\ stack[j].path \in Files /\ k \in TextLines(stack[j].path) =>
                     Copied(stack[j].path, k, out)
        /\ stack[1].path = Root /\ Root \notin seen
        /\ \A file \in done : Finished(file, done, out)
    BY DEF Ordered, Passed
  <1> HIDE DEF n, next, done
  <1>4. ASSUME NEW j \in 1 .. n, NEW k \in 1 .. next[j].at - 1
        PROVE  /\ \/ Met(Target(next[j].path, k), done)
                  \/ /\ j < n /\ k = next[j].at - 1
                     /\ Target(next[j].path, k) = next[j + 1].path
               /\ next[j].path \in Files /\ k \in TextLines(next[j].path) =>
                      Copied(next[j].path, k, out)
    <2>1. CASE j # n
      <3>1. j \in 1 .. n - 1 /\ j + 1 \in 1 .. n
        BY <2>1, <1>1
      <3> QED BY <3>1, <1>1, <1>3
    <2>2. CASE j = n /\ k # Top.at
      <3>1. k \in 1 .. stack[n].at - 1 /\ ~(n < n) /\ n \in 1 .. n
        BY <2>2, <1>1
      <3> QED BY <3>1, <2>2, <1>1, <1>3
    <2>3. CASE j = n /\ k = Top.at
      BY <2>3, <1>1 DEF done
    <2> QED BY <2>1, <2>2, <2>3
  <1>5. Passed(next, done, out)
    BY <1>1, <1>4 DEF Passed
  <1>6. next[1].path = Root
    BY <1>1, <1>3
  <1> QED BY <1>2, <1>3, <1>5, <1>6 DEF Ordered, next

(* The path that the current line asks for is taken up.                    *)
LEMMA OrderEntered ==
    ASSUME stack \in Seq(Frame), stack # <<>>, NEW seen, NEW more, NEW out,
           Ordered(stack, seen, out), seen \subseteq Files,
           NEW path \in Files \cup Dirs, Target(Top.path, Top.at) = path,
           more = IF path \in Files THEN seen \cup {path} ELSE seen,
           path \in Files => path \notin seen /\ ~Held(stack, path) /\ path # Root
    PROVE  Ordered(Entered(path, Stepped), more, out)
PROOF
  <1> DEFINE n == Len(stack)
             next == Entered(path, Stepped)
             done == Done(stack, seen)
  <1>1. /\ n \in Nat \ {0} /\ Top = stack[n] /\ Top.at \in Nat
        /\ Stepped \in Seq(Frame) /\ Len(Stepped) = n /\ Stepped[n].at = Top.at + 1
        /\ \A i \in 1 .. n : Stepped[i].path = stack[i].path
        /\ \A i \in 1 .. n - 1 : Stepped[i] = stack[i]
        /\ stack[n].path \in Files \cup Dirs
    <2>1. /\ n \in Nat \ {0} /\ Top = stack[n]
      BY BelowTop DEF Top
    <2>2. Top.at \in Nat /\ stack[n].path \in Files \cup Dirs
      BY <2>1, FrameFields
    <2>3. \A i \in 1 .. n - 1 : Stepped[i] = stack[i]
      BY SteppedSame
    <2> QED BY <2>1, <2>2, <2>3, SteppedOnward DEF Onward
  <1>2. /\ Len(next) = n + 1 /\ next[n + 1].path = path /\ next[n + 1].at = 1
        /\ \A i \in 1 .. n : next[i] = Stepped[i]
    <2> DEFINE frames == Stepped
    <2>1. frames \in Seq(Frame) /\ Len(frames) = n /\ next = Entered(path, frames)
      BY <1>1
    <2> HIDE DEF frames, next, n
    <2>2. /\ Len(Entered(path, frames)) = Len(frames) + 1
          /\ Entered(path, frames)[Len(frames) + 1].path = path
          /\ Entered(path, frames)[Len(frames) + 1].at = 1
          /\ \A i \in 1 .. Len(frames) : Entered(path, frames)[i] = frames[i]
      BY <2>1, EnteredOnTop
    <2>3. /\ Len(next) = n + 1 /\ next[n + 1].path = path /\ next[n + 1].at = 1
          /\ \A i \in 1 .. n : next[i] = frames[i]
      BY <2>1, <2>2
    <2> QED BY <2>3 DEF frames
  <1>3. /\ \A j \in 1 .. n : \A k \in 1 .. stack[j].at - 1 :
              /\ \/ Met(Target(stack[j].path, k), done)
                 \/ /\ j < n /\ k = stack[j].at - 1
                    /\ Target(stack[j].path, k) = stack[j + 1].path
              /\ stack[j].path \in Files /\ k \in TextLines(stack[j].path) =>
                     Copied(stack[j].path, k, out)
        /\ stack[1].path = Root /\ Root \notin seen
        /\ \A file \in done : Finished(file, done, out)
    BY DEF Ordered, Passed
  <1>4. stack[n].path \in Files => Top.at \notin TextLines(stack[n].path)
    <2> SUFFICES ASSUME stack[n].path \in Files, Top.at \in TextLines(stack[n].path)
                 PROVE  FALSE
      OBVIOUS
    <2>1. tree.lines[stack[n].path][Top.at] = Text
      BY DEF TextLines
    <2>2. Target(Top.path, Top.at) = Nowhere
      BY <2>1, <1>1, IncludesAssumption DEF Target, Text
    <2> QED BY <2>2, IncludesAssumption
  <1> HIDE DEF n, next
  <1>5. Done(next, more) = done
    <2>1. ASSUME NEW file \in more, ~Held(next, file) PROVE file \in done
      <3>1. n + 1 \in 1 .. Len(next) /\ \A i \in 1 .. n : i \in 1 .. Len(next)
        BY <1>1, <1>2
      <3>2. file # path
        BY <3>1, <2>1, <1>2 DEF Held
      <3>3. ~Held(stack, file)
        BY <3>1, <2>1, <1>1, <1>2 DEF Held, n
      <3> QED BY <3>2, <3>3 DEF Done
    <2>2. ASSUME NEW file \in seen, ~Held(stack, file), Held(next, file), file \in more
          PROVE  FALSE
      <3>1. PICK i \in 1 .. Len(next) : next[i].path = file
        BY <2>2 DEF Held
      <3>2. i \notin 1 .. n
        BY <3>1, <2>2, <1>1, <1>2 DEF Held, n
      <3>3. i = n + 1
        BY <3>2, <1>1, <1>2
      <3>4. file = path
        BY <3>1, <3>3, <1>2
      <3> QED BY <3>4, <2>2
    <2>3. seen \subseteq more
      OBVIOUS
    <2> QED BY <2>1, <2>2, <2>3 DEF Done
  <1> HIDE DEF done
  <1>6. ASSUME NEW j \in 1 .. n + 1, NEW k \in 1 .. next[j].at - 1
        PROVE  /\ \/ Met(Target(next[j].path, k), done)
                  \/ /\ j < n + 1 /\ k = next[j].at - 1
                     /\ Target(next[j].path, k) = next[j + 1].path
               /\ next[j].path \in Files /\ k \in TextLines(next[j].path) =>
                      Copied(next[j].path, k, out)
    <2>1. CASE j \in 1 .. n - 1
      <3>1. j \in 1 .. n /\ j + 1 \in 1 .. n
        BY <2>1, <1>1
      <3>2. next[j] = stack[j] /\ next[j + 1].path = stack[j + 1].path /\ j < n /\ j < n + 1
        BY <3>1, <2>1, <1>1, <1>2
      <3>3. k \in 1 .. stack[j].at - 1
        BY <3>2
      <3> QED BY <3>1, <3>2, <3>3, <1>3
    <2>2. CASE j = n /\ k # Top.at
      <3>1. k \in 1 .. stack[n].at - 1 /\ ~(n < n) /\ n \in 1 .. n
        BY <2>2, <1>1, <1>2
      <3> QED BY <3>1, <2>2, <1>1, <1>2, <1>3
    <2>3. CASE j = n /\ k = Top.at
      <3>1. n \in 1 .. n /\ n < n + 1 /\ k = next[n].at - 1
        BY <2>3, <1>1, <1>2
      <3> QED BY <3>1, <2>3, <1>1, <1>2, <1>4
    <2>4. CASE j = n + 1
      <3>1. 1 - 1 = 0 /\ k \in 1 .. 0
        BY <2>4, <1>2
      <3> QED BY <3>1
    <2>5. j \in 1 .. n - 1 \/ j = n \/ j = n + 1
      BY <1>1
    <2> QED BY <2>1, <2>2, <2>3, <2>4, <2>5
  <1>7. Passed(next, done, out)
    BY <1>2, <1>6 DEF Passed
  <1>8. next[1].path = Root /\ Root \notin more
    <2>1. 1 \in 1 .. n
      BY <1>1
    <2>2. next[1].path = Root
      BY <2>1, <1>1, <1>2, <1>3
    <2> QED BY <2>2, <1>3
  <1> QED BY <1>3, <1>5, <1>7, <1>8 DEF Ordered, next

(* A line is copied when the lines before it are met.                      *)
LEMMA OrderCopied ==
    ASSUME stack \in Seq(Frame), stack # <<>>, NEW seen, NEW out \in Seq(Files \X Nat),
           Ordered(stack, seen, out), InPlace(out), Top.path \in Files,
           Target(Top.path, Top.at) = Nowhere
    PROVE  LET longer == Append(out, <<Top.path, Top.at>>)
           IN  Ordered(Stepped, seen, longer) /\ InPlace(longer)
PROOF
  <1> DEFINE n == Len(stack)
             m == Len(out)
             line == <<Top.path, Top.at>>
             longer == Append(out, line)
             done == Done(stack, seen)
  <1>1. /\ n \in Nat \ {0} /\ n \in 1 .. n /\ Top = stack[n] /\ Top.at \in Nat
        /\ line \in Files \X Nat /\ line[1] = Top.path /\ line[2] = Top.at
    <2>1. /\ n \in Nat \ {0} /\ n \in 1 .. n /\ Top = stack[n]
      BY BelowTop DEF Top
    <2>2. Top.at \in Nat
      BY <2>1, FrameFields
    <2> QED BY <2>1, <2>2
  <1>2. /\ m \in Nat /\ Len(longer) = m + 1 /\ longer[m + 1] = line
        /\ \A i \in 1 .. m : longer[i] = out[i]
    BY <1>1, AppendProperties, LenProperties
  <1>3. \A file, k : Copied(file, k, out) => Copied(file, k, longer)
    BY <1>1, CopiedMore
  <1>4. /\ \A file \in done : Finished(file, done, out)
        /\ \A k \in 1 .. Top.at - 1 : Met(Target(Top.path, k), done)
        /\ stack[1].path = Root /\ Root \notin seen
        /\ Passed(stack, done, out)
    <2>1. ~(n < n)
      BY <1>1
    <2> QED BY <2>1, <1>1 DEF Ordered, Passed
  <1>5. Copied(Top.path, Top.at, longer)
    <2>1. m + 1 \in 1 .. Len(longer)
      BY <1>2
    <2> QED BY <2>1, <1>2 DEF Copied
  <1> HIDE DEF longer, line, n, m
  <1>6. Ordered(stack, seen, longer)
    <2>1. \A file \in done : Finished(file, done, longer)
      BY <1>3, <1>4, FinishedMore
    <2>2. Passed(stack, done, longer)
      BY <1>3, <1>4 DEF Passed
    <2> QED BY <1>4, <2>1, <2>2 DEF Ordered
  <1>7. Met(Target(Top.path, Top.at), done)
    BY IncludesAssumption DEF Met
  <1>8. Ordered(Stepped, seen, longer)
    BY <1>5, <1>6, <1>7, OrderStepped
  <1>9. ASSUME NEW i \in 1 .. Len(longer), NEW d \in 1 .. longer[i][2] - 1,
               Target(longer[i][1], d) \in Files,
               NEW k \in TextLines(Target(longer[i][1], d))
        PROVE  \E h \in 1 .. i - 1 : longer[h] = <<Target(longer[i][1], d), k>>
    <2>1. CASE i \in 1 .. m
      <3>0. longer[i] = out[i] /\ i \in 1 .. Len(out)
        BY <2>1, <1>2 DEF m
      <3>1. PICK h \in 1 .. i - 1 : out[h] = <<Target(longer[i][1], d), k>>
        BY <3>0, <1>9 DEF InPlace
      <3>2. h \in 1 .. m
        BY <2>1, <3>1, <1>2
      <3> QED BY <3>1, <3>2, <1>2
    <2>2. CASE i = m + 1
      <3>1. longer[i][1] = Top.path /\ d \in 1 .. Top.at - 1
        BY <2>2, <1>1, <1>2
      <3>2. Target(Top.path, d) \in done
        BY <3>1, <1>4, <1>9 DEF Met
      <3>3. Copied(Target(Top.path, d), k, out)
        BY <3>1, <3>2, <1>4, <1>9 DEF Finished
      <3>4. PICK h \in 1 .. m : out[h] = <<Target(Top.path, d), k>>
        BY <3>3 DEF Copied, m
      <3>5. h \in 1 .. i - 1
        BY <2>2, <1>2
      <3> QED BY <3>1, <3>4, <3>5, <1>2
    <2>3. i \in 1 .. m \/ i = m + 1
      BY <1>2
    <2> QED BY <2>1, <2>2, <2>3
  <1>10. InPlace(longer)
    BY <1>9 DEF InPlace
  <1> QED BY <1>8, <1>10 DEF longer, line

-----------------------------------------------------------------------------
(* What the top has asked for is done, when its last line is passed.       *)
LEMMA TopFinished ==
    ASSUME tree \in Trees, stack \in Seq(Frame), stack # <<>>, NEW seen \in SUBSET Files,
           NEW out, Ordered(stack, seen, out), Top.at > Size(Top.path)
    PROVE  LET done == Done(stack, seen)
           IN  /\ \A k \in 1 .. Size(Top.path) : Met(Target(Top.path, k), done)
               /\ Top.path \in Files => Finished(Top.path, done, out)
               /\ Top.path \in Dirs => Asks(Top.path) \subseteq done
PROOF
  <1> DEFINE n == Len(stack)
             path == Top.path
             done == Done(stack, seen)
  <1>1. /\ n \in Nat \ {0} /\ n \in 1 .. n /\ Top = stack[n] /\ Top.at \in Nat
        /\ path \in Files \cup Dirs /\ Size(path) \in Nat
    <2>1. /\ n \in Nat \ {0} /\ n \in 1 .. n /\ Top = stack[n]
      BY BelowTop DEF Top
    <2>2. Top.at \in Nat /\ path \in Files \cup Dirs
      BY <2>1, FrameFields
    <2> QED BY <2>1, <2>2, Targets
  <1>2. /\ \A file \in done : Finished(file, done, out)
        /\ \A k \in 1 .. Top.at - 1 :
              /\ Met(Target(path, k), done)
              /\ path \in Files /\ k \in TextLines(path) => Copied(path, k, out)
    <2>1. ~(n < n)
      BY <1>1
    <2> QED BY <2>1, <1>1 DEF Ordered, Passed
  <1>3. \A k \in 1 .. Size(path) : k \in 1 .. Top.at - 1
    BY <1>1
  <1>4. \A k \in 1 .. Size(path) : Met(Target(path, k), done)
    BY <1>2, <1>3
  <1>5. done \in SUBSET Files /\ path \notin done
    <2>1. Held(stack, path)
      BY <1>1 DEF Held, n
    <2> QED BY <2>1 DEF Done
  <1>6. ASSUME path \in Files PROVE Finished(path, done, out)
    <2>1. TextLines(path) \subseteq 1 .. Size(path)
      BY <1>6, IncludesAssumption DEF TextLines, Size
    <2>2. \A k \in TextLines(path) : Copied(path, k, out)
      BY <2>1, <1>2, <1>3, <1>6
    <2> DEFINE set == done \cup {d \in Dirs : Asks(d) \subseteq done}
    <2>3. \A file \in done : \A k \in 1 .. Size(file) : Met(Target(file, k), done)
      BY <1>2 DEF Finished
    <2>4. /\ set \in SUBSET (Files \cup Dirs) /\ ClosedUnder(set)
          /\ set \cap Files = done /\ Asks(path) \subseteq set
      BY <2>3, <1>4, <1>5, <1>6, DoneClosed
    <2>5. path \notin set
      BY <2>4, <1>5, <1>6
    <2> HIDE DEF set
    <2>6. Escapes(path)
      BY <2>4, <2>5 DEF Escapes
    <2> QED BY <2>2, <2>6, <1>4 DEF Finished
  <1>7. ASSUME path \in Dirs PROVE Asks(path) \subseteq done
    <2> SUFFICES ASSUME NEW x \in Asks(path) PROVE x \in done
      OBVIOUS
    <2>1. PICK k \in 1 .. Size(path) : x = Target(path, k)
      BY <1>1, Targets
    <2>2. x \in Files
      <3>1. k \in Nat \ {0} /\ k <= Size(path)
        BY <1>1
      <3> QED BY <3>1, <2>1, <1>7, Targets
    <2> QED BY <2>1, <2>2, <1>4 DEF Met
  <1> QED BY <1>4, <1>6, <1>7

LEMMA OrderBelow ==
    ASSUME tree \in Trees, stack \in Seq(Frame), stack # <<>>, Len(stack) # 1,
           NEW seen \in SUBSET Files, OpenOnce(stack), Marked(stack, seen),
           NEW out, Ordered(stack, seen, out), Top.at > Size(Top.path)
    PROVE  Ordered(Below, seen, out)
PROOF
  <1> DEFINE n == Len(stack)
             path == Top.path
             next == Below
             done == Done(stack, seen)
             more == Done(next, seen)
  <1>1. /\ n \in Nat /\ n > 1 /\ n \in 1 .. n /\ n \in 2 .. n /\ Top = stack[n]
        /\ Len(next) = n - 1 /\ \A i \in 1 .. n - 1 : next[i] = stack[i]
        /\ path \in Files \cup Dirs
    <2>1. /\ n \in Nat /\ n > 1 /\ n \in 1 .. n /\ n \in 2 .. n /\ Top = stack[n]
          /\ Len(next) = n - 1 /\ \A i \in 1 .. n - 1 : next[i] = stack[i]
      BY BelowTop DEF Top
    <2> QED BY <2>1, FrameFields
  <1>2. /\ \A file \in done : Finished(file, done, out)
        /\ stack[1].path = Root /\ Root \notin seen
        /\ \A j \in 1 .. n : \A k \in 1 .. stack[j].at - 1 :
              /\ \/ Met(Target(stack[j].path, k), done)
                 \/ /\ j < n /\ k = stack[j].at - 1
                    /\ Target(stack[j].path, k) = stack[j + 1].path
              /\ stack[j].path \in Files /\ k \in TextLines(stack[j].path) =>
                     Copied(stack[j].path, k, out)
    BY DEF Ordered, Passed
  <1>3. /\ path \in Files => Finished(path, done, out)
        /\ path \in Dirs => Asks(path) \subseteq done
    BY TopFinished
  <1> HIDE DEF n, next, path
  <1>4. done \subseteq more
    <2>1. ASSUME NEW file, Held(next, file) PROVE Held(stack, file)
      <3>1. PICK i \in 1 .. n - 1 : next[i].path = file
        BY <2>1, <1>1 DEF Held
      <3>2. i \in 1 .. n /\ stack[i].path = file
        BY <3>1, <1>1
      <3> QED BY <3>2 DEF Held, n
    <2> QED BY <2>1 DEF Done
  <1>5. path \in Files => path \in more
    <2>0. path \in Files => path \in seen
      BY <1>1 DEF Marked, n, path
    <2> SUFFICES ASSUME path \in Files, Held(next, path) PROVE FALSE
      BY <2>0 DEF Done
    <2>1. PICK i \in 1 .. n - 1 : next[i].path = path
      BY <1>1 DEF Held
    <2>2. i \in 1 .. n /\ stack[i].path = stack[n].path /\ stack[n].path \in Files
      BY <2>1, <1>1 DEF path
    <2>3. i = n
      BY <2>2, <1>1 DEF OpenOnce, n
    <2> QED BY <2>3, <1>1
  <1>6. \A file \in more : file \in done \/ (file = path /\ path \in Files)
    <2> SUFFICES ASSUME NEW file \in seen, Held(stack, file), ~Held(next, file)
                 PROVE  file = path /\ path \in Files
      BY DEF Done
    <2>1. PICK i \in 1 .. n : stack[i].path = file
      BY DEF Held, n
    <2>2. i = n
      <3>1. i \notin 1 .. n - 1
        BY <2>1, <1>1 DEF Held
      <3> QED BY <3>1, <1>1
    <2> QED BY <2>1, <2>2, <1>1 DEF path
  <1> HIDE DEF more, done
  <1>7. \A file \in more : Finished(file, more, out)
    BY <1>2, <1>3, <1>4, <1>6, FinishedMore
  <1>8. Met(path, more)
    BY <1>3, <1>4, <1>5 DEF Met
  <1>9. ASSUME NEW j \in 1 .. n - 1, NEW k \in 1 .. next[j].at - 1
        PROVE  /\ \/ Met(Target(next[j].path, k), more)
                  \/ /\ j < n - 1 /\ k = next[j].at - 1
                     /\ Target(next[j].path, k) = next[j + 1].path
               /\ next[j].path \in Files /\ k \in TextLines(next[j].path) =>
                      Copied(next[j].path, k, out)
    <2>1. j \in 1 .. n /\ next[j] = stack[j] /\ k \in 1 .. stack[j].at - 1
      BY <1>1
    <2>2. next[j].path \in Files /\ k \in TextLines(next[j].path) =>
              Copied(next[j].path, k, out)
      BY <2>1, <1>2
    <2>3. CASE Met(Target(stack[j].path, k), done)
      <3>1. Met(Target(next[j].path, k), more)
        BY <2>1, <2>3, <1>4, MetMore
      <3> QED BY <3>1, <2>2
    <2>4. CASE k = stack[j].at - 1 /\ Target(stack[j].path, k) = stack[j + 1].path
      <3>1. CASE j = n - 1
        <4>1. j + 1 = n
          BY <3>1, <1>1
        <4>2. Met(Target(next[j].path, k), more)
          BY <4>1, <2>1, <2>4, <1>1, <1>8 DEF path
        <4> QED BY <4>2, <2>2
      <3>2. CASE j # n - 1
        <4>1. j < n - 1 /\ j + 1 \in 1 .. n - 1
          BY <3>2, <1>1
        <4> QED BY <4>1, <2>1, <2>2, <2>4, <1>1
      <3> QED BY <3>1, <3>2
    <2> QED BY <2>1, <2>3, <2>4, <1>2
  <1>10. Passed(next, more, out)
    BY <1>1, <1>9 DEF Passed
  <1>11. next[1].path = Root
    <2>1. 1 \in 1 .. n - 1
      BY <1>1
    <2> QED BY <2>1, <1>1, <1>2
  <1> QED BY <1>2, <1>7, <1>10, <1>11 DEF Ordered, next, more

(* The root is the last path to be left.                                   *)
LEMMA OrderEnd ==
    ASSUME tree \in Trees, stack \in Seq(Frame), stack # <<>>, Len(stack) = 1,
           NEW seen \in SUBSET Files, NEW out, Ordered(stack, seen, out),
           Top.at > Size(Top.path)
    PROVE  /\ Root \notin seen
           /\ \A file \in {Root} \cup seen : Finished(file, seen, out)
PROOF
  <1>1. /\ \A file \in Done(stack, seen) : Finished(file, Done(stack, seen), out)
        /\ stack[1].path = Root /\ Root \notin seen
    BY DEF Ordered
  <1>2. Top.path = Root /\ Root \in Files
    BY <1>1, IncludesAssumption DEF Top
  <1>3. Done(stack, seen) = seen
    <2>1. \A file \in seen : ~Held(stack, file)
      BY <1>1 DEF Held
    <2> QED BY <2>1 DEF Done
  <1>4. Finished(Root, Done(stack, seen), out)
    BY <1>2, TopFinished
  <1> QED BY <1>1, <1>3, <1>4

-----------------------------------------------------------------------------
(* The invariant in the next state, of the tree that stays.                *)
LEMMA TreeStays ==
    ASSUME tree' = tree,
           outcome' = "start" => expanded' = {},
           InPlace(output'),
           outcome' = "busy" => Ordered(stack', expanded', output'),
           outcome' = "ok" =>
               /\ Root \notin expanded'
               /\ \A file \in {Root} \cup expanded' : Finished(file, expanded', output')
    PROVE  OrderInv'
PROOF
  <1>1. /\ \A file : TextLines(file)' = TextLines(file)
        /\ \A path, n : Target(path, n)' = Target(path, n)
        /\ \A path : Size(path)' = Size(path)
    BY DEF TextLines, Target, Size
  <1>2. InPlace(output)' = InPlace(output')
    BY <1>1, Zenon DEF InPlace
  <1>3. \A target, done : Met(target, done)' = Met(target, done)
    BY DEF Met, Asks
  <1>4. \A file : Escapes(file)' = Escapes(file)
    BY DEF Escapes, ClosedUnder, Asks
  <1>5. \A file, done, out : Finished(file, done, out)' = Finished(file, done, out)
    BY <1>3, <1>4, <1>1, Zenon DEF Finished, Copied
  <1>6. \A frames, done, out : Passed(frames, done, out)' = Passed(frames, done, out)
    BY DEF Passed, Met, Asks, Target, TextLines, Copied
  <1>7. Ordered(stack, expanded, output)' = Ordered(stack', expanded', output')
    BY <1>5, <1>6 DEF Ordered, Done, Held
  <1>8. (\A file \in {Root} \cup expanded : Finished(file, expanded, output))'
            = \A file \in {Root} \cup expanded' : Finished(file, expanded', output')
    BY <1>5
  <1> QED BY <1>2, <1>7, <1>8 DEF OrderInv

LEMMA OrderInit == IncludeInit => OrderInv
  BY EmptySeq DEF IncludeInit, OrderInv, InPlace

(* Answering the request of the current line or child.                     *)
LEMMA PathOrder ==
    ASSUME IncludeInv, OrderInv, outcome = "busy", Top.at <= Size(Top.path),
           NEW path, path = Target(Top.path, Top.at),
           Top.path \in Files => Top.at \notin TextLines(Top.path),
           ExpandPath(path, Stepped, FALSE)
    PROVE  OrderInv'
PROOF
  <1>1. /\ stack \in Seq(Frame) /\ stack # <<>> /\ tree \in Trees
        /\ expanded \in SUBSET Files
        /\ InPlace(output) /\ Ordered(stack, expanded, output)
    BY DEF IncludeInv, IncludeTypeOK, OrderInv
  <1>2. path \in Files /\ ~Circular(path) => ~Held(stack, path)
    BY DEF Circular, Open, Held
  <1>3. Held(stack, Root) /\ Root \notin expanded
    <2>1. 1 \in 1 .. Len(stack)
      BY <1>1, BelowTop
    <2> QED BY <1>1, <2>1 DEF Ordered, Held
  <1>4. CASE Fail
    BY <1>1, <1>4, TreeStays DEF Fail
  <1>5. ASSUME path \in Files, path \in expanded, ~Circular(path), stack' = Stepped,
               UNCHANGED <<tree, expanded, output, outcome>>
        PROVE  OrderInv'
    <2>1. Met(path, Done(stack, expanded))
      BY <1>2, <1>5, IncludesAssumption DEF Met, Done
    <2>2. Ordered(Stepped, expanded, output)
      BY <1>1, <2>1, OrderStepped
    <2> QED BY <1>1, <1>5, <2>2, TreeStays
  <1>6. ASSUME path \in Files \cup Dirs, Push(path, Stepped),
               expanded' = IF path \in Files THEN expanded \cup {path} ELSE expanded,
               path \in Files => path \notin expanded /\ ~Circular(path)
        PROVE  OrderInv'
    <2>1. path \in Files => path # Root
      BY <1>2, <1>3, <1>6
    <2>2. Ordered(Entered(path, Stepped), expanded', output)
      BY <1>1, <1>2, <1>6, <2>1, OrderEntered
    <2>3. /\ stack' = Entered(path, Stepped) /\ outcome' = "busy"
          /\ tree' = tree /\ output' = output
      BY <1>6 DEF Push
    <2> QED BY <1>1, <2>2, <2>3, TreeStays
  <1>7. CASE /\ path \in Files /\ ~Circular(path) /\ path \notin expanded
             /\ expanded' = Remembered(path, FALSE) /\ Push(path, Stepped)
    BY <1>6, <1>7 DEF Remembered
  <1>8. CASE path \in Dirs \ tree.shut /\ Push(path, Stepped) /\ UNCHANGED expanded
    BY <1>6, <1>8, IncludesAssumption
  <1> QED BY <1>4, <1>5, <1>7, <1>8 DEF ExpandPath, ExpandFile

LEMMA OrderNext == IncludeInv /\ OrderInv /\ [IncludeNext]_includeVars => OrderInv'
PROOF
  <1> SUFFICES ASSUME IncludeInv, OrderInv, [IncludeNext]_includeVars PROVE OrderInv'
    OBVIOUS
  <1>1. /\ stack \in Seq(Frame) /\ tree \in Trees
        /\ expanded \in SUBSET Files /\ output \in Seq(Files \X Nat)
        /\ outcome = "busy" => stack # <<>> /\ Ordered(stack, expanded, output)
                               /\ OpenOnce(stack) /\ Marked(stack, expanded)
        /\ outcome = "start" => stack = <<>> /\ output = <<>> /\ expanded = {}
        /\ InPlace(output)
        /\ outcome = "ok" =>
              /\ Root \notin expanded
              /\ \A file \in {Root} \cup expanded : Finished(file, expanded, output)
    BY DEF IncludeInv, IncludeTypeOK, OrderInv, Sound
  <1>2. ASSUME outcome = "busy"
        PROVE  /\ Top.path \in Files \cup Dirs /\ Top.at \in Nat \ {0}
               /\ Top.path \in Files => Size(Top.path) = Len(tree.lines[Top.path])
               /\ Top.path \in Dirs => Size(Top.path) = Len(tree.listing[Top.path])
    <2>1. Top = stack[Len(stack)] /\ Len(stack) \in 1 .. Len(stack)
      BY <1>1, <1>2, BelowTop DEF Top
    <2>2. Top.path \in Files \cup Dirs /\ Top.at \in Nat \ {0}
      BY <1>1, <2>1, FrameFields
    <2> QED BY <2>2, IncludesAssumption DEF Size
  <1>3. CASE Begin
    <2>1. outcome = "start" /\ ExpandPath(Root, <<>>, TRUE)
      BY <1>1, <1>3 DEF Begin
    <2>2. CASE Fail
      BY <1>1, <2>2, TreeStays DEF Fail
    <2>3. CASE expanded' = expanded /\ Push(Root, <<>>)
      <3>1. /\ stack' = Entered(Root, <<>>) /\ outcome' = "busy"
            /\ tree' = tree /\ output' = output
        BY <2>3 DEF Push
      <3>2. stack' = <<[path |-> Root, at |-> 1]>>
        BY <3>1 DEF Entered
      <3>3. Len(stack') = 1 /\ stack'[1].path = Root /\ stack'[1].at = 1
        BY <3>2
      <3>4. Passed(stack', {}, output)
        <4>1. \A j \in 1 .. Len(stack') : 1 .. stack'[j].at - 1 = {}
          BY <3>3
        <4> QED BY <4>1 DEF Passed
      <3>5. Done(stack', {}) = {}
        BY DEF Done
      <3>6. Ordered(stack', expanded', output')
        BY <1>1, <2>1, <2>3, <3>1, <3>3, <3>4, <3>5 DEF Ordered
      <3> QED BY <1>1, <3>1, <3>6, TreeStays
    <2> QED BY <2>1, <2>2, <2>3, IncludesAssumption
            DEF ExpandPath, ExpandFile, Remembered
  <1>4. CASE CopyLine
    <2>1. /\ outcome = "busy" /\ Top.path \in Files /\ stack' = Stepped
          /\ output' = Append(output, <<Top.path, Top.at>>)
          /\ tree' = tree /\ expanded' = expanded /\ outcome' = outcome
          /\ Top.at <= Len(tree.lines[Top.path])
          /\ tree.lines[Top.path][Top.at].is = "text"
      BY <1>4 DEF CopyLine, AtLine, InFile, Line
    <2>2. Target(Top.path, Top.at) = Nowhere
      <3>1. tree.lines[Top.path] \in Seq(Lines) /\ Top.at \in 1 .. Len(tree.lines[Top.path])
        BY <1>1, <1>2, <2>1, TreeFields
      <3>2. tree.lines[Top.path][Top.at] \in Lines
        BY <3>1, LenProperties
      <3>3. \A line \in Lines : line.is = "text" => line.to = Nowhere
        BY DEF Lines, Text, Broken, Include
      <3> QED BY <2>1, <3>2, <3>3, IncludesAssumption DEF Target
    <2>3. Ordered(Stepped, expanded, output') /\ InPlace(output')
      BY <1>1, <2>1, <2>2, OrderCopied
    <2> QED BY <2>1, <2>3, TreeStays
  <1>5. CASE FollowDirective
    <2>1. /\ outcome = "busy" /\ Top.path \in Files
          /\ Top.at <= Len(tree.lines[Top.path])
          /\ tree.lines[Top.path][Top.at].is = "include"
          /\ ExpandPath(tree.lines[Top.path][Top.at].to, Stepped, FALSE)
      BY <1>5 DEF FollowDirective, AtLine, InFile, Line
    <2>2. Target(Top.path, Top.at) = tree.lines[Top.path][Top.at].to
      BY <2>1, IncludesAssumption DEF Target
    <2>3. Top.at \notin TextLines(Top.path)
      BY <2>1 DEF TextLines, Text
    <2> QED BY <1>2, <2>1, <2>2, <2>3, PathOrder
  <1>6. CASE RejectDirective
    BY <1>1, <1>6, TreeStays DEF RejectDirective, Fail
  <1>7. CASE NextChild
    <2>1. /\ outcome = "busy" /\ Top.path \in Dirs
          /\ Top.at <= Len(tree.listing[Top.path])
          /\ ExpandPath(tree.listing[Top.path][Top.at], Stepped, FALSE)
      BY <1>7 DEF NextChild, InDirectory
    <2>2. Target(Top.path, Top.at) = tree.listing[Top.path][Top.at]
      BY <2>1 DEF Target
    <2>3. Top.path \notin Files
      BY <2>1, IncludesAssumption
    <2> QED BY <1>2, <2>1, <2>2, <2>3, PathOrder
  <1>8. CASE Finish
    <2>1. /\ outcome = "busy" /\ stack' = Below
          /\ outcome' = IF Len(stack) = 1 THEN "ok" ELSE "busy"
          /\ tree' = tree /\ expanded' = expanded /\ output' = output
          /\ \/ Top.path \in Files /\ Top.at > Len(tree.lines[Top.path])
             \/ Top.path \in Dirs /\ Top.at > Len(tree.listing[Top.path])
      BY <1>8 DEF Finish, InFile, InDirectory
    <2>2. Top.at > Size(Top.path)
      BY <1>2, <2>1
    <2>3. CASE Len(stack) = 1
      <3>1. /\ Root \notin expanded
            /\ \A file \in {Root} \cup expanded : Finished(file, expanded, output)
        BY <1>1, <2>1, <2>2, <2>3, OrderEnd
      <3> QED BY <1>1, <2>1, <2>3, <3>1, TreeStays
    <2>4. CASE Len(stack) # 1
      <3>1. Ordered(Below, expanded, output)
        BY <1>1, <2>1, <2>2, <2>4, OrderBelow
      <3> QED BY <1>1, <2>1, <2>4, <3>1, TreeStays
    <2> QED BY <2>3, <2>4
  <1>9. CASE UNCHANGED includeVars
    BY <1>1, <1>9, TreeStays DEF includeVars
  <1> QED BY <1>3, <1>4, <1>5, <1>6, <1>7, <1>8, <1>9 DEF IncludeNext

-----------------------------------------------------------------------------
(* What an accepted root reaches is the root and what is remembered.       *)
LEMMA ReachedFinished ==
    ASSUME IncludeInv, OrderInv, outcome = "ok",
           NEW file \in ({Root} \cup Reaches(Root)) \cap Files
    PROVE  Finished(file, expanded, output)
PROOF
  <1>1. /\ tree \in Trees /\ expanded \in SUBSET Files
        /\ \A path \in {Root} \cup expanded : Finished(path, expanded, output)
    BY DEF IncludeInv, IncludeTypeOK, OrderInv
  <1> DEFINE set == expanded \cup {d \in Dirs : Asks(d) \subseteq expanded}
  <1>2. \A path \in {Root} \cup expanded :
            \A n \in 1 .. Size(path) : Met(Target(path, n), expanded)
    BY <1>1 DEF Finished
  <1>3. /\ set \in SUBSET (Files \cup Dirs) /\ ClosedUnder(set)
        /\ set \cap Files = expanded /\ Asks(Root) \subseteq set
    BY <1>1, <1>2, DoneClosed, IncludesAssumption
  <1> HIDE DEF set
  <1>4. Reaches(Root) \subseteq set
    BY <1>1, <1>3, ReachesLeast, IncludesAssumption
  <1> QED BY <1>1, <1>3, <1>4

(* An accepted root does not reach a file from which that file is reached  *)
(* again: the files that are done when a file is left ask for nothing but  *)
(* one another, and that file is not among them.                           *)
THEOREM CyclesAlwaysRejected == IncludeSpec => []CyclesRejected
PROOF
  <1>1. IncludeInv /\ OrderInv => CyclesRejected
    <2> SUFFICES ASSUME IncludeInv, OrderInv, outcome = "ok",
                        NEW file \in ({Root} \cup Reaches(Root)) \cap Files
                 PROVE  file \notin Reaches(file)
      BY DEF CyclesRejected
    <2>1. PICK set \in SUBSET (Files \cup Dirs) :
              Asks(file) \subseteq set /\ ClosedUnder(set) /\ file \notin set
      BY ReachedFinished DEF Finished, Escapes
    <2>2. tree \in Trees /\ file \in Files \cup Dirs
      BY DEF IncludeInv, IncludeTypeOK
    <2>3. Reaches(file) \subseteq set
      BY <2>1, <2>2, ReachesLeast
    <2> QED BY <2>1, <2>3
  <1> QED BY <1>1, IncludeInvInit, IncludeInvNext, OrderInit, OrderNext, PTL DEF IncludeSpec

(* An accepted expansion holds every text line that the root reaches, and  *)
(* a file named by a directive in full before the text that follows it.    *)
THEOREM CopiesInOrder == IncludeSpec => []IncludedBefore
PROOF
  <1>1. IncludeInv /\ OrderInv => IncludedBefore
    <2> SUFFICES ASSUME IncludeInv, OrderInv, outcome = "ok",
                        NEW file \in ({Root} \cup Reaches(Root)) \cap Files
                 PROVE  /\ \A n \in TextLines(file) :
                              \E i \in 1 .. Len(output) : output[i] = <<file, n>>
                        /\ \A d \in 1 .. Len(tree.lines[file]) :
                              LET target == tree.lines[file][d].to
                              IN  target \in Files =>
                                     \A n \in TextLines(target), m \in TextLines(file) :
                                        m > d => Position(target, n) < Position(file, m)
      BY DEF IncludedBefore
    <2>1. \A n \in TextLines(file) : Copied(file, n, output)
      BY ReachedFinished DEF Finished
    <2>2. InPlace(output) /\ OnceEach /\ Len(output) \in Nat /\ tree \in Trees
      BY LenProperties DEF OrderInv, IncludeInv, IncludeTypeOK
    <2>3. \A i \in 1 .. Len(output) : \A path, n :
              output[i] = <<path, n>> => Position(path, n) = i
      BY <2>2 DEF Position, OnceEach
    <2>4. ASSUME NEW d \in 1 .. Len(tree.lines[file]), tree.lines[file][d].to \in Files,
                 NEW n \in TextLines(tree.lines[file][d].to), NEW m \in TextLines(file),
                 m > d
          PROVE  Position(tree.lines[file][d].to, n) < Position(file, m)
      <3> DEFINE target == tree.lines[file][d].to
      <3>1. Target(file, d) = target
        BY IncludesAssumption DEF Target
      <3>2. PICK i \in 1 .. Len(output) : output[i] = <<file, m>>
        BY <2>1 DEF Copied
      <3>3. m \in Nat /\ d \in 1 .. m - 1
        <4>1. m \in 1 .. Len(tree.lines[file]) /\ Len(tree.lines[file]) \in Nat
          BY <2>2, TreeFields, LenProperties DEF TextLines
        <4> QED BY <4>1, <2>4
      <3>4. output[i][1] = file /\ output[i][2] = m
        BY <3>2
      <3>5. PICK k \in 1 .. i - 1 : output[k] = <<target, n>>
        BY <2>2, <2>4, <3>1, <3>3, <3>4 DEF InPlace
      <3>6. k \in 1 .. Len(output) /\ k < i
        BY <3>5, <2>2
      <3>7. Position(file, m) = i /\ Position(target, n) = k
        BY <2>3, <3>2, <3>5, <3>6
      <3> QED BY <3>6, <3>7
    <2> QED BY <2>1, <2>4 DEF Copied
  <1> QED BY <1>1, IncludeInvInit, IncludeInvNext, OrderInit, OrderNext, PTL DEF IncludeSpec
=============================================================================
