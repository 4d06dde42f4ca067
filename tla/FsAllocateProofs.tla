-------------------------- MODULE FsAllocateProofs --------------------------
(***************************************************************************)
(* FsAllocate for every word size, data area, directory and request: the   *)
(* loop is a first-fit search, and its result is free space.               *)
(***************************************************************************)
EXTENDS FsAllocate, TLAPS

(* The strengthening: every sector below the candidate has been ruled out, *)
(* and the entries the inner loop has passed do not block the candidate.   *)
Ruled == needed # 0 => \A s \in DataLba .. candidate - 1 : ~Fits(s)

Scanned ==
    pc = "scan" =>
        /\ candidate + needed <= total
        /\ \A j \in 0 .. i - 1 : ~Blocks(j, candidate)

Outcome ==
    /\ result # "none" <=> pc = "done"
    /\ pc \in {"while", "scan"} => needed # 0
    /\ pc = "enter" => candidate = DataLba
    /\ result = "found" /\ needed = 0 => candidate = DataLba
    /\ result = "found" /\ needed # 0 => Fits(candidate)
    /\ result = "full" => needed # 0 /\ candidate + needed > total

IInv == TypeOK /\ DataLba <= candidate /\ Ruled /\ Scanned /\ Outcome

-----------------------------------------------------------------------------
(* 32-bit addition returns a word, the true sum when it does not wrap.     *)
LEMMA EndWord ==
    ASSUME NEW s \in U32, NEW n \in U32
    PROVE  End(s, n) \in U32 /\ (s + n < Word => End(s, n) = s + n)
BY AllocateAssumption DEF End, U32

(* Whatever an entry holds, moving the candidate behind an entry that      *)
(* blocks it moves it up.                                                  *)
LEMMA BumpAscends ==
    ASSUME NEW s \in U32, NEW n \in U32, NEW t \in U32, NEW m \in U32,
           Overlap(s, n, t, m)
    PROVE  s < End(t, m)
BY DEF Overlap

(* An entry that blocks a candidate blocks every later start up to its own *)
(* end that still fits before the limit.                                   *)
LEMMA BumpSkipsNoGap ==
    ASSUME NEW n \in U32, NEW t \in U32, NEW m \in U32, NEW limit \in U32,
           NEW c \in U32, c + n <= limit, Overlap(c, n, t, m),
           NEW s \in U32, c <= s, s < End(t, m), s + n <= limit
    PROVE  Overlap(s, n, t, m)
<1>0. c + n < Word /\ s + n < Word
  BY AllocateAssumption DEF U32
<1>1. End(c, n) = c + n /\ End(s, n) = s + n
  BY <1>0, EndWord
<1>2. t < s + n
  BY <1>1, AllocateAssumption DEF Overlap, U32
<1> QED
  BY <1>1, <1>2 DEF Overlap

(* For an extent that does not wrap, the code's test is exactly            *)
(* intersection of the two ranges of sectors.                              *)
LEMMA OverlapIsIntersection ==
    ASSUME NEW s \in U32, NEW n \in U32, NEW t \in U32, NEW m \in U32,
           s + n < Word, t + m < Word, ~Overlap(s, n, t, m)
    PROVE  \A x \in s .. s + n - 1 : x \notin t .. t + m - 1
<1>1. End(s, n) = s + n /\ End(t, m) = t + m
  BY EndWord
<1> QED
  BY <1>1, AllocateAssumption DEF Overlap, U32

-----------------------------------------------------------------------------
LEMMA InitIInv == Init => IInv
<1> SUFFICES ASSUME Init PROVE IInv
  OBVIOUS
<1> USE AllocateAssumption DEF Init, Index, U32
<1>0. Extents \subseteq Extent
  <2>1. NoExtent \in Extent
    BY DEF Extent, NoExtent
  <2>2. [file: {TRUE}, start: U32, count: U32] \subseteq Extent
    BY Zenon DEF Extent
  <2> QED
    BY <2>1, <2>2 DEF Extents
<1>1. dir \in [Index -> Extent]
  BY <1>0
<1>2. TypeOK
  BY <1>1 DEF TypeOK
<1> QED
  BY <1>2 DEF IInv, Ruled, Scanned, Outcome

LEMMA StepIInv == IInv /\ [Next]_vars => IInv'
<1> SUFFICES ASSUME IInv, [Next]_vars PROVE IInv'
  OBVIOUS
<1> USE AllocateAssumption DEF IInv, TypeOK, inputs
<1>1. CASE Enter
  BY <1>1 DEF Enter, Return, Ruled, Scanned, Outcome, Fits, Blocks, Index
<1>2. CASE While
  BY <1>2 DEF While, Return, Ruled, Scanned, Outcome, Fits, Blocks, Index, U32
<1>3. CASE Bump
  <2> DEFINE t == dir[i].start
             m == dir[i].count
  <2>1. /\ i \in Index /\ t \in U32 /\ m \in U32 /\ Overlap(candidate, needed, t, m)
        /\ i # ignored /\ dir[i].file
        /\ candidate' = End(t, m) /\ pc = "scan" /\ pc' = "while"
        /\ UNCHANGED <<dir, needed, ignored, total, i, result>>
    BY <1>3 DEF Bump, Blocks, Extent
  <2>2. candidate' \in U32 /\ candidate < candidate'
    BY <2>1, EndWord, BumpAscends
  <2>3. candidate + needed <= total /\ needed # 0 /\ total \in U32
    BY <2>1 DEF Scanned, Outcome, U32
  <2>4. TypeOK' /\ DataLba <= candidate'
    BY <2>1, <2>2 DEF U32
  <2>5. Ruled'
    <3> SUFFICES ASSUME NEW s \in DataLba .. candidate' - 1 PROVE ~Fits(s)'
      BY DEF Ruled
    <3>1. CASE s < candidate
      BY <3>1, <2>1, <2>2, <2>3 DEF Ruled, Fits, Blocks, U32
    <3>2. CASE candidate <= s
      <4>1. s \in U32 /\ s < End(t, m)
        BY <2>1, <2>2 DEF U32
      <4>2. needed \in U32 /\ candidate \in U32
        OBVIOUS
      <4>3. s + needed <= total => Overlap(s, needed, t, m)
        BY <4>1, <4>2, <3>2, <2>1, <2>3, BumpSkipsNoGap
      <4> QED
        BY <4>3, <2>1 DEF Fits, Blocks
    <3> QED
      BY <3>1, <3>2, <2>2 DEF U32
  <2>6. Scanned' /\ Outcome'
    BY <2>1, <2>3 DEF Scanned, Outcome
  <2> QED
    BY <2>4, <2>5, <2>6
<1>4. CASE PassEntry
  BY <1>4 DEF PassEntry, Ruled, Scanned, Outcome, Fits, Blocks, Index
<1>5. CASE Take
  BY <1>5 DEF Take, Return, Ruled, Scanned, Outcome, Fits, Blocks, Index
<1>6. CASE ReadError
  BY <1>6 DEF ReadError, Return, Ruled, Scanned, Outcome, Fits, Blocks, Index
<1>7. CASE UNCHANGED vars
  BY <1>7 DEF vars, Ruled, Scanned, Outcome, Fits, Blocks
<1> QED
  BY <1>1, <1>2, <1>3, <1>4, <1>5, <1>6, <1>7 DEF Next

(* Every reachable state of the call satisfies the strengthening.          *)
THEOREM Invariance == Spec => []IInv
BY InitIInv, StepIInv, PTL DEF Spec

(* The allocator's variables stay in range: no index leaves the directory, *)
(* and the candidate is a word even when an entry's extent wraps.          *)
THEOREM TypeCorrect == Spec => []TypeOK
<1>1. IInv => TypeOK
  BY DEF IInv
<1> QED
  BY <1>1, Invariance, PTL

(* The loop of fs_allocate is a first-fit search over any directory.       *)
THEOREM IsFirstFit == Spec => []FirstFit
<1>1. IInv => FirstFit
  <2> SUFFICES ASSUME IInv PROVE FirstFit
    OBVIOUS
  <2>1. ASSUME result = "full", NEW s \in DataLba .. total PROVE ~Fits(s)
    <3>1. CASE s < candidate
      BY <2>1, <3>1, AllocateAssumption DEF IInv, TypeOK, Ruled, Outcome, U32
    <3>2. CASE candidate <= s
      BY <2>1, <3>2, AllocateAssumption DEF IInv, TypeOK, Outcome, Fits, U32
    <3> QED
      BY <3>1, <3>2, AllocateAssumption DEF IInv, TypeOK, U32
  <2>2. result = "found" /\ needed # 0 =>
           Fits(candidate) /\ \A s \in DataLba .. candidate - 1 : ~Fits(s)
    BY DEF IInv, Ruled, Outcome
  <2> QED
    BY <2>1, <2>2 DEF FirstFit
<1> QED
  BY <1>1, Invariance, PTL

(* What fs_allocate returns lies in the data area and overlaps no honest   *)
(* extent.                                                                 *)
THEOREM ReturnsFreeSectors == Spec => []SectorsFree
<1>1. IInv => SectorsFree
  <2> SUFFICES ASSUME IInv, result = "found",
                      NEW x \in candidate .. candidate + needed - 1
               PROVE  /\ x \in DataLba .. total - 1
                      /\ \A j \in Index \ {ignored} :
                            dir[j].file /\ dir[j].start + dir[j].count < Word
                              => x \notin dir[j].start .. dir[j].start + dir[j].count - 1
    BY DEF SectorsFree
  <2>1. needed # 0 /\ Fits(candidate) /\ needed \in U32 /\ candidate \in U32
    BY DEF IInv, TypeOK, Outcome, U32
  <2>2. candidate + needed <= total /\ total \in U32
    BY <2>1, AllocateAssumption DEF Fits, IInv, TypeOK, U32
  <2>3. x \in DataLba .. total - 1
    BY <2>2, <2>1, AllocateAssumption DEF IInv, U32
  <2>4. ASSUME NEW j \in Index \ {ignored}, dir[j].file,
               dir[j].start + dir[j].count < Word
        PROVE  x \notin dir[j].start .. dir[j].start + dir[j].count - 1
    <3>1. dir[j].start \in U32 /\ dir[j].count \in U32
      BY <2>4 DEF IInv, TypeOK, Extent
    <3>2. ~Overlap(candidate, needed, dir[j].start, dir[j].count)
      BY <2>1, <2>4 DEF Fits, Blocks
    <3>3. candidate + needed < Word
      BY <2>2, <2>1, AllocateAssumption DEF U32
    <3> QED
      BY <3>1, <3>2, <3>3, <2>1, <2>4, OverlapIsIntersection
  <2> QED
    BY <2>3, <2>4
<1> QED
  BY <1>1, Invariance, PTL

(* The candidate only ascends; with the bound total it is the reason the   *)
(* outer loop ends.                                                        *)
THEOREM Ascends == Spec => CandidateAscends
<1>1. IInv /\ [Next]_vars => [candidate' # candidate => candidate' > candidate]_vars
  <2> SUFFICES ASSUME IInv, Bump PROVE candidate' > candidate
    BY DEF Next, Enter, While, PassEntry, Take, ReadError, vars, inputs
  <2>1. /\ dir[i].start \in U32 /\ dir[i].count \in U32
        /\ candidate < End(dir[i].start, dir[i].count)
    BY BumpAscends DEF IInv, TypeOK, Extent, Bump, Blocks, Overlap
  <2> QED
    BY <2>1, EndWord DEF Bump, IInv, TypeOK, U32
<1> QED
  BY <1>1, Invariance, PTL DEF Spec, CandidateAscends
=============================================================================
