----------------------------- MODULE BafFsProofs -----------------------------
(***************************************************************************)
(* Theorems about BafFs for any number of disks, any table and data area,  *)
(* any names and contents and any of the modelled faults.                  *)
(***************************************************************************)
EXTENDS BafFs, FiniteSetTheorems, WellFoundedInduction, TLAPS

(* A content needs a natural number of sectors.                            *)
LEMMA SectorCountNat == ASSUME NEW c \in Contents PROVE SectorCount(c) \in Nat
BY FsAssumption DEF SectorCount

LEMMA Constants ==
    /\ 0 \in Disks
    /\ DataLba \in Nat
    /\ Index \subseteq Nat
    /\ \A i \in Index : i + 1 \in DirIds
    /\ \A id \in DirIds : id - 1 \in Index
    /\ \A d \in Disks : DiskSectors[d] \in Nat
BY FsAssumption DEF Disks, DataLba, Index, DirIds

LEMMA Entries ==
    /\ FreeEntry \in Entry
    /\ \A e \in Entry : e.status \in {"free", "file", "dir"}
    /\ \A e \in Entry : e.status = "file" => e \in FileEntry
    /\ \A e \in Entry : e.status = "dir" => e \in DirEntry
    /\ \A e \in Entry : e.parent \in {Root} \cup DirIds
BY DEF Entry, FileEntry, DirEntry, FreeEntry

-----------------------------------------------------------------------------
LEMMA InitTypeOK == Init => TypeOK
<1> SUFFICES ASSUME Init PROVE TypeOK
  OBVIOUS
<1>1. \A d \in Disks : blocks[d] \in [DataSectors(d) -> Block]
  BY DEF Init, Block
<1>2. dir \in [Disks -> [Index -> Entry]]
  BY Entries DEF Init
<1> QED
  BY <1>1, <1>2, Constants DEF Init, TypeOK, BlocksOK, Reply

(* The calls that end in a directory write.                                *)
LEMMA WriteEntryType ==
    ASSUME TypeOK, NEW i \in Index, NEW e \in Entry, WriteEntry(i, e)
    PROVE  dir' \in [Disks -> [Index -> Entry]] /\ ret' \in Reply
BY DEF TypeOK, WriteEntry, Reply

LEMMA FindChildIndex ==
    \A n, kinds : \A i \in FindChild(n, kinds) :
        i # NotFound => i \in Index /\ Here[i].status \in kinds
                        /\ Here[i].parent = cwd /\ Here[i].name = n
BY DEF FindChild, FirstOf

LEMMA FindFreeIndex ==
    \A i \in FindFree : i # NotFound => i \in Index /\ ~Live(Here[i])
BY DEF FindFree, FirstOf

LEMMA AllocateStart ==
    ASSUME NEW c \in Contents, NEW ignored, TypeOK,
           NEW s \in Allocate(c, ignored), s # NoSpace
    PROVE  /\ s \in Nat /\ DataLba <= s
           /\ SectorCount(c) = 0 \/ Fits(s, c, ignored)
BY Constants DEF Allocate, NoSpace, TypeOK

LEMMA StepTypeOK == TypeOK /\ [Next]_vars => TypeOK'
<1> SUFFICES ASSUME TypeOK, [Next]_vars PROVE TypeOK'
  OBVIOUS
<1> USE DEF media, ram, Fail
<1>a. UNCHANGED blocks => BlocksOK'
  BY DEF TypeOK, BlocksOK
<1>b. None \in Reply /\ Ok \in Reply /\ Failed \in Reply
  BY DEF Reply
<1>0. ASSUME UNCHANGED <<media, ram, cut>>, ret' \in Reply PROVE TypeOK'
  BY <1>0, <1>a DEF TypeOK
<1>1. ASSUME NEW d \in 0 .. NumDisks, Select(d) PROVE TypeOK'
  BY <1>1, <1>a, <1>b DEF TypeOK, Select
<1>2. CASE FormatSuper
  <2>1. CASE Fail
    BY <2>1, <1>0, <1>b
  <2>2. CASE ~Fail
    <3>1. PICK landed, ok \in BOOLEAN :
             /\ super' = [super EXCEPT ![selected] = @ \/ landed]
             /\ IF ok THEN /\ call' = [op |-> "format", next |-> 0]
                           /\ cut' = [cut EXCEPT ![selected] = TRUE]
                           /\ UNCHANGED ret
                      ELSE ret' = Failed /\ UNCHANGED <<call, cut>>
             /\ UNCHANGED <<dir, blocks, selected, cwd>>
      BY <1>2, <2>2 DEF FormatSuper
    <3>2. super' \in [Disks -> BOOLEAN]
      BY <3>1 DEF TypeOK
    <3>3. cut' \in [Disks -> BOOLEAN] /\ ret' \in Reply
      BY <3>1, <1>b DEF TypeOK
    <3>4. call' \in {Idle} \cup WriteCall \cup FormatCall
      BY <3>1, FsAssumption DEF TypeOK, FormatCall
    <3> QED
      BY <3>1, <3>2, <3>3, <3>4, <1>a DEF TypeOK
  <2> QED
    BY <2>1, <2>2
<1>3. CASE FormatDirectory
  <2>1. PICK landed, ok \in BOOLEAN :
           /\ dir' = [dir EXCEPT ![selected] =
                        [i \in Index |-> IF landed /\ DirSector(i) = call.next
                                            THEN FreeEntry ELSE @[i]]]
           /\ IF ok /\ call.next < DirSectors - 1
                 THEN /\ call' = [call EXCEPT !.next = @ + 1]
                      /\ UNCHANGED <<cwd, ret, cut>>
                 ELSE /\ call' = Idle
                      /\ ret' = IF ok THEN Ok ELSE Failed
                      /\ cwd' = IF ok THEN Root ELSE cwd
                      /\ cut' = [cut EXCEPT ![selected] = ~ok]
           /\ UNCHANGED <<super, blocks, selected>>
    BY <1>3 DEF FormatDirectory
  <2>2. dir' \in [Disks -> [Index -> Entry]]
    BY <2>1, Entries DEF TypeOK
  <2>3. call \in FormatCall
    BY <1>3 DEF TypeOK, FormatDirectory, Idle, WriteCall
  <2>4. call' \in {Idle} \cup WriteCall \cup FormatCall
    BY <2>1, <2>3, FsAssumption DEF FormatCall
  <2> QED
    BY <2>1, <2>2, <2>4, <1>a, <1>b DEF TypeOK
<1>4. ASSUME NEW n \in DirNames, CreateDir(n) PROVE TypeOK'
  <2> DEFINE e == [FreeEntry EXCEPT !.status = "dir", !.parent = cwd, !.name = n]
  <2>1. CASE Fail
    BY <2>1, <1>0, <1>b
  <2>2. CASE ~Fail
    <3>1. PICK i \in FindFree : i # NotFound /\ n \in ValidNames /\ WriteEntry(i, e)
                                  /\ UNCHANGED <<super, blocks, ram, cut>>
      BY <1>4, <2>2 DEF CreateDir
    <3>2. e \in Entry
      BY <3>1 DEF FreeEntry, Entry, DirEntry, TypeOK
    <3>3. i \in Index
      BY <3>1, FindFreeIndex
    <3> HIDE DEF e
    <3>4. dir' \in [Disks -> [Index -> Entry]] /\ ret' \in Reply
      BY <3>1, <3>2, <3>3, WriteEntryType
    <3> QED
      BY <3>1, <3>4, <1>a DEF TypeOK
  <2> QED
    BY <2>1, <2>2
<1>5. ASSUME NEW id \in {Root} \cup DirIds, Goto(id) PROVE TypeOK'
  BY <1>5, <1>a, <1>b DEF TypeOK, Goto
<1>6. CASE LoseDirectory
  BY <1>6, <1>a, <1>b DEF TypeOK, LoseDirectory
<1>7. ASSUME NEW n \in DirNames, GotoChild(n) PROVE TypeOK'
  <2>1. Fail \/ \E i \in Index : Goto(i + 1)
    BY <1>7, FindChildIndex DEF GotoChild
  <2> QED
    BY <2>1, <1>0, <1>b, <1>5, Constants
<1>8. CASE GotoRoot \/ GotoHere \/ GotoParent \/ GetDir
  <2>1. cwd \in {Root} \cup DirIds
    BY DEF TypeOK
  <2>2. cwd # Root => Here[cwd - 1].parent \in {Root} \cup DirIds
    <3>1. cwd # Root => Here[cwd - 1] \in Entry
      BY <2>1, Constants DEF TypeOK, Here
    <3> QED
      BY <3>1, Entries
  <2>3. Fail \/ LoseDirectory \/ Goto(Root) \/ Goto(cwd)
          \/ (cwd # Root /\ Goto(Here[cwd - 1].parent))
    BY <1>8 DEF GotoRoot, GotoHere, GotoParent, GetDir
  <2> QED
    BY <2>1, <2>2, <2>3, <1>0, <1>b, <1>5, <1>6
<1>9. ASSUME NEW n \in FileNames, NEW c \in Contents, WriteBegin(n, c) PROVE TypeOK'
  <2>1. CASE Fail
    BY <2>1, <1>0, <1>b
  <2>2. CASE ~Fail
    <3>1. n \in ValidNames /\ \E i \in Index, g \in Index \cup {NotFound} : Reserve(n, c, i, g)
      BY <1>9, <2>2, FindChildIndex, FindFreeIndex DEF WriteBegin
    <3>2. PICK i \in Index, g \in Index \cup {NotFound} : Reserve(n, c, i, g)
      BY <3>1
    <3>3. PICK s \in Allocate(c, g) :
             /\ s # NoSpace
             /\ call' = [op |-> "write", index |-> i, name |-> n,
                         content |-> c, start |-> s, done |-> 0]
             /\ UNCHANGED <<media, selected, cwd, ret, cut>>
      BY <3>2, <2>2 DEF Reserve
    <3>4. call' \in WriteCall
      BY <3>1, <3>3, AllocateStart DEF WriteCall
    <3> QED
      BY <3>3, <3>4, <1>a DEF TypeOK
  <2> QED
    BY <2>1, <2>2
<1>10. ASSUME NEW n \in FileNames, Read(n) \/ Exists(n) \/ SizeCall(n) PROVE TypeOK'
  <2>1. \A i \in FindChild(n, {"file"}) : i # NotFound => Here[i].content \in Contents
    <3>1. \A i \in Index : Here[i] \in Entry
      BY DEF TypeOK, Here
    <3> QED
      BY <3>1, FindChildIndex, Entries DEF FileEntry
  <2>2. ret' \in Reply /\ UNCHANGED <<media, ram, cut>>
    BY <1>10, <2>1, <1>b, FsAssumption
       DEF Read, Exists, SizeCall, OnFile, ReadFile, FileExists, FileSize, Answer,
           Reply, Data, Size
  <2> QED
    BY <2>2, <1>0
<1>11. ASSUME NEW n \in FileNames, Remove(n) PROVE TypeOK'
  <2>1. Fail \/ \E i \in Index : WriteEntry(i, FreeEntry)
                                  /\ UNCHANGED <<super, blocks, ram, cut>>
    BY <1>11, FindChildIndex DEF Remove, OnFile, RemoveFile
  <2>2. ASSUME NEW i \in Index, WriteEntry(i, FreeEntry),
               UNCHANGED <<super, blocks, ram, cut>>
        PROVE  TypeOK'
    <3>1. dir' \in [Disks -> [Index -> Entry]] /\ ret' \in Reply
      BY <2>2, Entries, WriteEntryType
    <3> QED
      BY <2>2, <3>1, <1>a DEF TypeOK
  <2> QED
    BY <2>1, <2>2, <1>0, <1>b
<1>12. CASE WriteData
  <2>1. call \in WriteCall
    BY <1>12 DEF WriteData, TypeOK, Idle, FormatCall
  <2>2. PICK landed, ok \in BOOLEAN :
           /\ blocks' = IF landed
                           THEN [blocks EXCEPT ![selected][call.start + call.done]
                                   = <<call.content, call.done>>]
                           ELSE blocks
           /\ IF ok
                 THEN call' = [call EXCEPT !.done = @ + 1] /\ UNCHANGED ret
                 ELSE call' = Idle /\ ret' = Failed
           /\ UNCHANGED <<super, dir, selected, cwd, cut>>
    BY <1>12 DEF WriteData
  <2>3. <<call.content, call.done>> \in Block
    BY <2>1 DEF WriteCall, Block
  <2>4. BlocksOK'
    BY <2>2, <2>3, <1>a DEF BlocksOK, TypeOK
  <2>5. call' \in {Idle} \cup WriteCall \cup FormatCall
    BY <2>1, <2>2 DEF WriteCall
  <2> QED
    BY <2>2, <2>4, <2>5, <1>b DEF TypeOK
<1>13. CASE WriteCommit
  <2> DEFINE e == [status |-> "file", parent |-> cwd, name |-> call.name,
                   start |-> call.start, content |-> call.content]
  <2>1. call \in WriteCall
    BY <1>13 DEF WriteCommit, TypeOK, Idle, FormatCall
  <2>2. e \in Entry /\ call.index \in Index
    BY <2>1 DEF WriteCall, Entry, FileEntry, TypeOK
  <2>3. WriteEntry(call.index, e) \/ (ret' = Failed /\ UNCHANGED dir)
    BY <1>13 DEF WriteCommit
  <2>4. call' = Idle /\ UNCHANGED <<super, blocks, selected, cwd, cut>>
    BY <1>13 DEF WriteCommit
  <2> HIDE DEF e
  <2>5. dir' \in [Disks -> [Index -> Entry]] /\ ret' \in Reply
    BY <2>2, <2>3, <1>b, WriteEntryType DEF TypeOK
  <2> QED
    BY <2>4, <2>5, <1>a DEF TypeOK
<1>14. CASE Crash
  BY <1>14, <1>a, <1>b, Constants DEF Crash, TypeOK
<1>15. CASE UNCHANGED vars
  BY <1>15, <1>a DEF vars, TypeOK
<1> QED
  BY <1>1, <1>2, <1>3, <1>4, <1>7, <1>8, <1>9, <1>10, <1>11, <1>12, <1>13, <1>14,
     <1>15 DEF Next, Continue

(* Indices stay in the table, handles in range, sectors in the disk.       *)
THEOREM TypeCorrect == Spec => []TypeOK
BY InitTypeOK, StepTypeOK, PTL DEF Spec

-----------------------------------------------------------------------------
(* What a step can do to the directory, the data sectors and the call under *)
(* way, with the outcomes that leave the medium alone folded into Quiet.    *)
Quiet ==
    /\ UNCHANGED <<dir, blocks>>
    /\ \/ call' = call /\ selected' = selected /\ (cwd' = cwd \/ call = Idle)
       \/ call'.op # "write"

DirMade(i, n) ==
    /\ call = Idle /\ ~Live(Here[i])
    /\ \E e \in DirEntry :
          /\ e.parent = cwd /\ e.name = n
          /\ dir' = [dir EXCEPT ![selected][i] = e]
    /\ NotFound \in FindChild(n, {"file", "dir"})
    /\ UNCHANGED <<blocks, selected, cwd, call, cut>>

FileRemoved(i) ==
    /\ call = Idle /\ Here[i].status = "file" /\ Here[i].parent = cwd
    /\ dir' = [dir EXCEPT ![selected][i] = FreeEntry]
    /\ UNCHANGED <<blocks, selected, cwd, call, cut>>

Erasing ==
    /\ call.op = "format" /\ call'.op # "write"
    /\ dir' \in [Disks -> [Index -> Entry]]
    /\ \A d \in Disks, i \in Index :
          dir'[d][i] = dir[d][i] \/ (d = selected /\ dir'[d][i] = FreeEntry)
    /\ UNCHANGED <<blocks, selected>>

Reserved(n, c, i, ignored) ==
    /\ call = Idle
    /\ call' \in WriteCall
    /\ call'.index = i /\ call'.name = n /\ call'.content = c /\ call'.done = 0
    /\ DataLba <= call'.start
    /\ SectorCount(c) = 0 \/ Fits(call'.start, c, ignored)
    /\ \/ i = ignored /\ Here[i].status = "file" /\ Here[i].parent = cwd /\ Here[i].name = n
       \/ ignored = NotFound /\ ~Live(Here[i]) /\ NotFound \in FindChild(n, {"file"})
             /\ NotFound \in FindChild(n, {"dir"})
    /\ UNCHANGED <<dir, blocks, selected, cwd, cut>>

Copied ==
    /\ call \in WriteCall
    /\ call.done < SectorCount(call.content)
    /\ blocks' = [blocks EXCEPT ![selected][call.start + call.done]
                    = <<call.content, call.done>>]
    /\ \/ call' = [call EXCEPT !.done = @ + 1]
       \/ call' = Idle
    /\ UNCHANGED <<dir, selected, cwd, cut>>

Committed ==
    /\ call \in WriteCall /\ call' = Idle
    /\ call.done = SectorCount(call.content)
    /\ dir' = [dir EXCEPT ![selected][call.index] =
                  [status |-> "file", parent |-> cwd, name |-> call.name,
                   start |-> call.start, content |-> call.content]]
    /\ UNCHANGED <<blocks, selected, cwd, cut>>

LEMMA StepCases ==
    ASSUME TypeOK, [Next]_vars
    PROVE  \/ Quiet
           \/ \E i \in Index, n \in ValidNames : DirMade(i, n)
           \/ \E i \in Index : FileRemoved(i)
           \/ Erasing
           \/ \E n \in ValidNames, c \in Contents, i \in Index, g \in Index \cup {NotFound} :
                 Reserved(n, c, i, g)
           \/ Copied
           \/ Committed
<1> USE DEF media, ram, Fail
<1>0. Idle.op # "write"
  BY DEF Idle
<1>1. ASSUME NEW d \in 0 .. NumDisks, Select(d) PROVE Quiet
  BY <1>1, <1>0 DEF Select, Quiet
<1>2. CASE FormatSuper
  BY <1>2, <1>0 DEF FormatSuper, Quiet
<1>3. CASE FormatDirectory
  <2>1. PICK landed, ok \in BOOLEAN :
           /\ dir' = [dir EXCEPT ![selected] =
                        [i \in Index |-> IF landed /\ DirSector(i) = call.next
                                            THEN FreeEntry ELSE @[i]]]
           /\ IF ok /\ call.next < DirSectors - 1
                 THEN /\ call' = [call EXCEPT !.next = @ + 1]
                      /\ UNCHANGED <<cwd, ret, cut>>
                 ELSE /\ call' = Idle
                      /\ ret' = IF ok THEN Ok ELSE Failed
                      /\ cwd' = IF ok THEN Root ELSE cwd
                      /\ cut' = [cut EXCEPT ![selected] = ~ok]
           /\ UNCHANGED <<super, blocks, selected>>
    BY <1>3 DEF FormatDirectory
  <2>2. dir' \in [Disks -> [Index -> Entry]]
    BY <2>1, Entries DEF TypeOK
  <2>3. call \in FormatCall
    BY <1>3 DEF TypeOK, FormatDirectory, Idle, WriteCall
  <2>4. call'.op # "write"
    BY <2>1, <2>3, <1>0 DEF FormatCall
  <2>5. \A d \in Disks, i \in Index :
           dir'[d][i] = dir[d][i] \/ (d = selected /\ dir'[d][i] = FreeEntry)
    BY <2>1 DEF TypeOK
  <2> QED
    BY <2>1, <2>2, <2>3, <2>4, <2>5 DEF Erasing, FormatCall
<1>4. ASSUME NEW n \in DirNames, CreateDir(n)
      PROVE  Quiet \/ \E i \in Index, m \in ValidNames : DirMade(i, m)
  <2> DEFINE e == [FreeEntry EXCEPT !.status = "dir", !.parent = cwd, !.name = n]
  <2>1. CASE Fail
    BY <2>1 DEF Quiet
  <2>2. CASE ~Fail
    <3>1. PICK i \in FindFree : i # NotFound /\ n \in ValidNames /\ WriteEntry(i, e)
                                  /\ UNCHANGED <<super, blocks, ram, cut>>
                                  /\ NotFound \in FindChild(n, {"file", "dir"})
                                  /\ call = Idle
      BY <1>4, <2>2 DEF CreateDir
    <3>2. e \in DirEntry /\ e.parent = cwd /\ e.name = n
      BY <3>1 DEF FreeEntry, DirEntry, TypeOK
    <3>3. i \in Index /\ ~Live(Here[i])
      BY <3>1, FindFreeIndex
    <3> HIDE DEF e
    <3>4. dir' = dir \/ dir' = [dir EXCEPT ![selected][i] = e]
      BY <3>1 DEF WriteEntry
    <3> QED
      BY <3>1, <3>2, <3>3, <3>4 DEF Quiet, DirMade
  <2> QED
    BY <2>1, <2>2
<1>5. CASE \/ GotoRoot \/ GotoHere \/ GotoParent \/ GetDir
           \/ \E n \in DirNames : GotoChild(n)
  <2>1. call = Idle
    BY <1>5 DEF GotoRoot, GotoHere, GotoParent, GetDir, GotoChild
  <2>2. Fail \/ LoseDirectory \/ \E id : Goto(id)
    BY <1>5 DEF GotoRoot, GotoHere, GotoParent, GetDir, GotoChild
  <2>3. UNCHANGED <<dir, blocks, call, selected>>
    BY <2>2 DEF LoseDirectory, Goto
  <2>4. Quiet
    BY <2>1, <2>3 DEF Quiet
  <2> QED
    BY <2>4
<1>6. ASSUME NEW n \in FileNames, NEW c \in Contents, WriteBegin(n, c)
      PROVE  Quiet \/ \E m \in ValidNames, i \in Index, g \in Index \cup {NotFound} :
                         Reserved(m, c, i, g)
  <2>1. CASE Fail
    BY <2>1 DEF Quiet
  <2>2. CASE ~Fail
    <3>1. n \in ValidNames /\ call = Idle
      BY <1>6, <2>2 DEF WriteBegin
    <3>2. PICK i \in Index, g \in Index \cup {NotFound} :
             /\ Reserve(n, c, i, g)
             /\ \/ i = g /\ Here[i].status = "file" /\ Here[i].parent = cwd /\ Here[i].name = n
                \/ g = NotFound /\ ~Live(Here[i]) /\ NotFound \in FindChild(n, {"file"})
                     /\ NotFound \in FindChild(n, {"dir"})
      BY <1>6, <2>2, FindChildIndex, FindFreeIndex DEF WriteBegin
    <3>3. PICK s \in Allocate(c, g) :
             /\ s # NoSpace
             /\ call' = [op |-> "write", index |-> i, name |-> n,
                         content |-> c, start |-> s, done |-> 0]
             /\ UNCHANGED <<media, selected, cwd, ret, cut>>
      BY <3>2, <2>2 DEF Reserve
    <3>4. s \in Nat /\ DataLba <= s /\ (SectorCount(c) = 0 \/ Fits(s, c, g))
      BY <3>3, AllocateStart
    <3>5. call' \in WriteCall
      BY <3>1, <3>3, <3>4 DEF WriteCall
    <3>6. Reserved(n, c, i, g)
      BY <3>1, <3>2, <3>3, <3>4, <3>5 DEF Reserved
    <3> QED
      BY <3>1, <3>6
  <2> QED
    BY <2>1, <2>2
<1>7. ASSUME NEW n \in FileNames, Read(n) \/ Exists(n) \/ SizeCall(n) PROVE Quiet
  BY <1>7 DEF Read, Exists, SizeCall, OnFile, ReadFile, FileExists, FileSize, Answer, Quiet
<1>8. ASSUME NEW n \in FileNames, Remove(n)
      PROVE  Quiet \/ \E i \in Index : FileRemoved(i)
  <2>1. CASE Fail
    BY <2>1 DEF Quiet
  <2>2. CASE ~Fail
    <3>1. PICK i \in FindChild(n, {"file"}) :
             /\ i # NotFound /\ call = Idle
             /\ WriteEntry(i, FreeEntry) /\ UNCHANGED <<super, blocks, ram, cut>>
      BY <1>8, <2>2 DEF Remove, OnFile, RemoveFile
    <3>2. i \in Index /\ Here[i].status = "file" /\ Here[i].parent = cwd
      BY <3>1, FindChildIndex
    <3>3. dir' = dir \/ dir' = [dir EXCEPT ![selected][i] = FreeEntry]
      BY <3>1 DEF WriteEntry
    <3> QED
      BY <3>1, <3>2, <3>3 DEF Quiet, FileRemoved
  <2> QED
    BY <2>1, <2>2
<1>9. CASE WriteData
  <2>1. call \in WriteCall
    BY <1>9 DEF WriteData, TypeOK, Idle, FormatCall
  <2> QED
    BY <1>9, <2>1, <1>0 DEF WriteData, SectorWrite, Copied, Quiet
<1>10. CASE WriteCommit
  <2> DEFINE e == [status |-> "file", parent |-> cwd, name |-> call.name,
                   start |-> call.start, content |-> call.content]
  <2>1. call \in WriteCall
    BY <1>10 DEF WriteCommit, TypeOK, Idle, FormatCall
  <2>2. /\ call' = Idle /\ UNCHANGED <<blocks, selected, cwd, cut>>
        /\ call.done = SectorCount(call.content)
        /\ dir' = dir \/ dir' = [dir EXCEPT ![selected][call.index] = e]
    BY <1>10 DEF WriteCommit, WriteEntry
  <2> QED
    BY <2>1, <2>2, <1>0 DEF Quiet, Committed
<1>11. CASE Crash
  BY <1>11, <1>0 DEF Crash, Quiet
<1>12. CASE UNCHANGED vars
  BY <1>12 DEF vars, Quiet
<1> QED
  BY <1>1, <1>2, <1>3, <1>4, <1>5, <1>6, <1>7, <1>8, <1>9, <1>10, <1>11, <1>12
     DEF Next, Continue

-----------------------------------------------------------------------------
(* Extents.  A step that only shrinks extents keeps them apart; the sectors *)
(* a Write claims are free when it claims them and nobody else takes them.  *)
Placed == ExtentsDisjoint /\ Reservation

LEMMA Shrink ==
    ASSUME ExtentsDisjoint,
           \A d \in Disks, i \in Index : Extent(dir'[d][i]) \subseteq Extent(dir[d][i])
    PROVE  ExtentsDisjoint'
BY DEF ExtentsDisjoint

LEMMA StepPlaced == TypeOK /\ Placed /\ [Next]_vars => Placed'
<1> SUFFICES ASSUME TypeOK, Placed, [Next]_vars PROVE Placed'
  OBVIOUS
<1> USE DEF Placed
<1>a. ASSUME NEW e, e.status # "file" PROVE Extent(e) = {}
  BY <1>a DEF Extent
<1>b. FreeEntry.status # "file" /\ Idle.op # "write"
  BY DEF FreeEntry, Idle
<1>1. CASE Quiet
  <2>1. ExtentsDisjoint'
    BY <1>1, Shrink DEF Quiet
  <2>2. Reservation'
    BY <1>1 DEF Quiet, Reservation, Here
  <2> QED
    BY <2>1, <2>2
<1>2. ASSUME NEW i \in Index, NEW n \in ValidNames, DirMade(i, n) PROVE Placed'
  <2>1. PICK e \in DirEntry : dir' = [dir EXCEPT ![selected][i] = e]
    BY <1>2 DEF DirMade
  <2>2. e.status # "file"
    BY DEF DirEntry
  <2>3. \A d \in Disks, j \in Index : Extent(dir'[d][j]) \subseteq Extent(dir[d][j])
    BY <2>1, <2>2, <1>a DEF TypeOK
  <2> QED
    BY <2>3, <1>2, <1>b, Shrink DEF DirMade, Reservation
<1>3. ASSUME NEW i \in Index, FileRemoved(i) PROVE Placed'
  <2>1. \A d \in Disks, j \in Index : Extent(dir'[d][j]) \subseteq Extent(dir[d][j])
    BY <1>3, <1>a, <1>b DEF TypeOK, FileRemoved
  <2> QED
    BY <2>1, <1>3, <1>b, Shrink DEF FileRemoved, Reservation
<1>4. CASE Erasing
  <2>1. \A d \in Disks, j \in Index : Extent(dir'[d][j]) \subseteq Extent(dir[d][j])
    BY <1>4, <1>a, <1>b DEF Erasing
  <2> QED
    BY <2>1, <1>4, Shrink DEF Erasing, Reservation
<1>5. ASSUME NEW n \in ValidNames, NEW c \in Contents, NEW i \in Index,
             NEW g \in Index \cup {NotFound}, Reserved(n, c, i, g)
      PROVE  Placed'
  <2>1. ExtentsDisjoint'
    BY <1>5, Shrink DEF Reserved
  <2> DEFINE claim == Sectors(call'.start, call'.content)
  <2>2. call'.content = c /\ call'.index = i /\ call'.start \in Nat
    BY <1>5 DEF Reserved, WriteCall
  <2>3. CASE SectorCount(c) = 0
    <3>1. claim = {}
      BY <2>2, <2>3 DEF Sectors
    <3> QED
      BY <2>1, <3>1 DEF Reservation
  <2>4. CASE Fits(call'.start, c, g)
    <3>1. claim \subseteq DataSectors(selected)
      BY <1>5, <2>2, <2>4, Constants, SectorCountNat
         DEF Reserved, Fits, Sectors, DataSectors, TypeOK
    <3>2. \A j \in Index \ {i} : Extent(Here[j]) \cap claim = {}
      <4>1. \A j \in Index \ {g} : Extent(Here[j]) \cap claim = {}
        BY <2>2, <2>4 DEF Fits
      <4>2. g = i \/ g \notin Index
        BY <1>5, Constants DEF Reserved, NotFound
      <4> QED
        BY <4>1, <4>2
    <3> QED
      BY <2>1, <2>2, <3>1, <3>2, <1>5 DEF Reservation, Reserved, Here
  <2> QED
    BY <1>5, <2>3, <2>4 DEF Reserved
<1>6. CASE Copied
  <2>1. ExtentsDisjoint'
    BY <1>6, Shrink DEF Copied
  <2>2. Reservation'
    BY <1>6, <1>b DEF Copied, Reservation, WriteCall, Here
  <2> QED
    BY <2>1, <2>2
<1>7. CASE Committed
  <2> DEFINE e == [status |-> "file", parent |-> cwd, name |-> call.name,
                   start |-> call.start, content |-> call.content]
             claim == Sectors(call.start, call.content)
  <2>1. Extent(e) = claim
    BY DEF Extent
  <2>2. /\ claim \subseteq DataSectors(selected)
        /\ \A j \in Index \ {call.index} : Extent(Here[j]) \cap claim = {}
    BY <1>7 DEF Reservation, Committed, WriteCall
  <2>3. /\ selected \in Disks /\ call.index \in Index
        /\ dir' = [dir EXCEPT ![selected][call.index] = e]
    BY <1>7 DEF Committed, WriteCall, TypeOK
  <2> HIDE DEF e, claim
  <2>4. \A d \in Disks, j \in Index :
           dir'[d][j] = IF d = selected /\ j = call.index THEN e ELSE dir[d][j]
    BY <2>3 DEF TypeOK
  <2>5. ExtentsDisjoint'
    BY <2>1, <2>2, <2>3, <2>4 DEF ExtentsDisjoint, Here
  <2> QED
    BY <2>5, <1>7, <1>b DEF Committed, Reservation
<1> QED
  BY <1>1, <1>2, <1>3, <1>4, <1>5, <1>6, <1>7, StepCases

(* The extents of live files stay disjoint and inside the data area, and   *)
(* so does the claim of a Write under way, through any read or write error *)
(* and any crash.                                                          *)
THEOREM ExtentsStayDisjoint == Spec => []ExtentsDisjoint /\ []Reservation
<1>1. Init => Placed
  BY DEF Init, Placed, ExtentsDisjoint, Reservation, Extent, FreeEntry, Idle
<1>2. Placed => ExtentsDisjoint /\ Reservation
  BY DEF Placed
<1> QED
  BY <1>1, <1>2, StepPlaced, TypeCorrect, PTL DEF Spec

-----------------------------------------------------------------------------
(* Contents.  Only a Write to a file, its removal or a Format can make a    *)
(* readable file unreadable, and a Write that succeeds leaves it readable.  *)
Bystanders ==
    \A d \in Disks, i \in Index :
        dir[d][i].status = "file" /\ Intact(d, i) =>
            \/ dir'[d][i] = dir[d][i] /\ Intact(d, i)'
            \/ d = selected /\ call.op = "write" /\ call.index = i
            \/ d = selected /\ call.op = "format"
            \/ d = selected /\ call.op = "idle" /\ dir[d][i].parent = cwd
                 /\ dir'[d][i] = FreeEntry

LEMMA StepBystanders == TypeOK /\ Placed /\ [Next]_vars => Bystanders
<1> SUFFICES ASSUME TypeOK, Placed, [Next]_vars PROVE Bystanders
  OBVIOUS
<1>a. ASSUME NEW d \in Disks, NEW i \in Index,
             UNCHANGED blocks, dir'[d][i] = dir[d][i], Intact(d, i)
      PROVE  Intact(d, i)'
  BY <1>a DEF Intact
<1>1. CASE Quiet
  BY <1>1, <1>a DEF Quiet, Bystanders
<1>2. ASSUME NEW i \in Index, NEW n \in ValidNames, DirMade(i, n) PROVE Bystanders
  <2>1. dir[selected][i].status # "file"
    BY <1>2 DEF DirMade, Live, Here
  <2>2. \A d \in Disks, j \in Index :
           d # selected \/ j # i => dir'[d][j] = dir[d][j]
    BY <1>2 DEF DirMade, TypeOK
  <2> QED
    BY <2>1, <2>2, <1>2, <1>a DEF DirMade, Bystanders
<1>3. ASSUME NEW i \in Index, FileRemoved(i) PROVE Bystanders
  <2>1. \A d \in Disks, j \in Index :
           dir'[d][j] = IF d = selected /\ j = i THEN FreeEntry ELSE dir[d][j]
    BY <1>3 DEF FileRemoved, TypeOK
  <2>2. call.op = "idle" /\ dir[selected][i].parent = cwd
    BY <1>3 DEF FileRemoved, Idle, Here
  <2> QED
    BY <2>1, <2>2, <1>3, <1>a DEF FileRemoved, Bystanders
<1>4. CASE Erasing
  BY <1>4, <1>a DEF Erasing, Bystanders
<1>5. ASSUME NEW n \in ValidNames, NEW c \in Contents, NEW i \in Index,
             NEW g \in Index \cup {NotFound}, Reserved(n, c, i, g)
      PROVE  Bystanders
  BY <1>5, <1>a DEF Reserved, Bystanders
<1>6. CASE Copied
  <2> DEFINE here == call.start + call.done
  <2>0. /\ call.content \in Contents /\ call.start \in Nat /\ call.done \in Nat
        /\ call.op = "write" /\ call.index \in Index
    BY <1>6 DEF Copied, WriteCall
  <2>1. here \in Sectors(call.start, call.content)
    BY <1>6, <2>0, SectorCountNat DEF Copied, Sectors
  <2>2. SUFFICES ASSUME NEW d \in Disks, NEW i \in Index,
                        dir[d][i].status = "file", Intact(d, i),
                        d # selected \/ i # call.index
                 PROVE  dir'[d][i] = dir[d][i] /\ Intact(d, i)'
    BY <2>0 DEF Bystanders
  <2> DEFINE e == dir[d][i]
  <2>3. e.content \in Contents /\ e.start \in Nat
    <3>1. e \in Entry
      BY DEF TypeOK
    <3> QED
      BY <3>1, <2>2, Entries DEF FileEntry
  <2>4. \A k \in 0 .. SectorCount(e.content) - 1 :
           d # selected \/ e.start + k # here
    <3>1. d = selected => Extent(e) \cap Sectors(call.start, call.content) = {}
      BY <2>0, <2>2 DEF Placed, Reservation, Here
    <3>2. \A k \in 0 .. SectorCount(e.content) - 1 : e.start + k \in Extent(e)
      BY <2>2, <2>3, SectorCountNat DEF Extent, Sectors
    <3> QED
      BY <3>1, <3>2, <2>1
  <2>5. \A k \in 0 .. SectorCount(e.content) - 1 :
           blocks'[d][e.start + k] = blocks[d][e.start + k]
    BY <2>4, <1>6 DEF Copied, TypeOK, BlocksOK
  <2>6. dir' = dir
    BY <1>6 DEF Copied
  <2> QED
    BY <2>2, <2>5, <2>6 DEF Intact
<1>7. CASE Committed
  <2>1. \A d \in Disks, j \in Index :
           d # selected \/ j # call.index => dir'[d][j] = dir[d][j]
    BY <1>7 DEF Committed, WriteCall, TypeOK
  <2> QED
    BY <2>1, <1>7, <1>a DEF Committed, WriteCall, Bystanders
<1> QED
  BY <1>1, <1>2, <1>3, <1>4, <1>5, <1>6, <1>7, StepCases

(* A readable file is safe from everything but a Write to it, its removal   *)
(* and a Format of its disk, at every step and under every fault.           *)
THEOREM BystandersStaySafe == Spec => BystandersSafe
<1>1. TypeOK /\ Placed /\ [Next]_vars => [Bystanders]_vars
  BY StepBystanders
<1>2. Spec => []Placed
  <2>1. Init => Placed
    BY DEF Init, Placed, ExtentsDisjoint, Reservation, Extent, FreeEntry, Idle
  <2> QED
    BY <2>1, StepPlaced, TypeCorrect, PTL DEF Spec
<1>3. Spec => [][Bystanders]_vars
  BY <1>1, <1>2, TypeCorrect, PTL DEF Spec
<1> QED
  BY <1>3 DEF BystandersSafe, Bystanders

-----------------------------------------------------------------------------
(* The copy of a Write under way: the sectors it has passed hold what it    *)
(* wrote there, so that the commit finds the whole content on the disk.     *)
Copy ==
    call.op = "write" =>
        /\ call.done <= SectorCount(call.content)
        /\ \A k \in 0 .. call.done - 1 :
              blocks[selected][call.start + k] = <<call.content, k>>

LEMMA StepCopy == TypeOK /\ Placed /\ Copy /\ [Next]_vars => Copy'
<1> SUFFICES ASSUME TypeOK, Placed, Copy, [Next]_vars PROVE Copy'
  OBVIOUS
<1>b. Idle.op # "write"
  BY DEF Idle
<1>1. CASE Quiet
  BY <1>1 DEF Quiet, Copy
<1>2. ASSUME NEW i \in Index, NEW n \in ValidNames, DirMade(i, n) PROVE Copy'
  BY <1>2, <1>b DEF DirMade, Copy
<1>3. ASSUME NEW i \in Index, FileRemoved(i) PROVE Copy'
  BY <1>3, <1>b DEF FileRemoved, Copy
<1>4. CASE Erasing
  BY <1>4 DEF Erasing, Copy
<1>5. ASSUME NEW n \in ValidNames, NEW c \in Contents, NEW i \in Index,
             NEW g \in Index \cup {NotFound}, Reserved(n, c, i, g)
      PROVE  Copy'
  <2>1. call'.done = 0 /\ call'.content = c
    BY <1>5 DEF Reserved
  <2> QED
    BY <2>1, SectorCountNat DEF Copy
<1>6. CASE Copied
  <2>1. CASE call' = Idle
    BY <2>1, <1>b DEF Copy
  <2>2. CASE call' = [call EXCEPT !.done = @ + 1]
    <3>1. /\ call.content \in Contents /\ call.start \in Nat /\ call.done \in Nat
          /\ call.op = "write" /\ selected \in Disks /\ selected' = selected
          /\ call.done < SectorCount(call.content)
      BY <1>6 DEF Copied, WriteCall, TypeOK
    <3>2. /\ call'.content = call.content /\ call'.start = call.start
          /\ call'.done = call.done + 1
      BY <1>6, <2>2 DEF Copied, WriteCall
    <3>3. call.start + call.done \in DataSectors(selected)
      <4>1. call.start + call.done \in Sectors(call.start, call.content)
        BY <3>1, SectorCountNat DEF Sectors
      <4> QED
        BY <4>1, <3>1 DEF Placed, Reservation
    <3>4. \A s \in DataSectors(selected) :
             blocks'[selected][s] = IF s = call.start + call.done
                                       THEN <<call.content, call.done>>
                                       ELSE blocks[selected][s]
      BY <1>6, <3>1, <3>3 DEF Copied, TypeOK, BlocksOK
    <3>5. ASSUME NEW k \in 0 .. call.done
          PROVE  blocks'[selected][call.start + k] = <<call.content, k>>
      <4>1. call.start + k \in DataSectors(selected)
        <5>1. call.start + k \in Sectors(call.start, call.content)
          BY <3>1, SectorCountNat DEF Sectors
        <5> QED
          BY <5>1, <3>1 DEF Placed, Reservation
      <4>2. CASE k = call.done
        BY <4>1, <4>2, <3>4
      <4>3. CASE k # call.done
        <5>1. k \in 0 .. call.done - 1 /\ call.start + k # call.start + call.done
          BY <4>3, <3>1
        <5> QED
          BY <5>1, <4>1, <3>1, <3>4 DEF Copy
      <4> QED
        BY <4>2, <4>3
    <3> QED
      BY <3>1, <3>2, <3>5, SectorCountNat DEF Copy
  <2> QED
    BY <1>6, <2>1, <2>2 DEF Copied
<1>7. CASE Committed
  BY <1>7, <1>b DEF Committed, Copy
<1> QED
  BY <1>1, <1>2, <1>3, <1>4, <1>5, <1>6, <1>7, StepCases

(* Only the commit of its entry makes a Write succeed.                      *)
LEMMA OnlyCommitSucceeds ==
    ASSUME TypeOK, [Next]_vars, call.op = "write", call' = Idle, ret' = Ok
    PROVE  Committed
<1>0. /\ call # Idle /\ Idle.op # "write" /\ call \in WriteCall
      /\ Ok # Failed /\ Ok # None
  BY DEF Idle, Ok, Failed, None, TypeOK, FormatCall
<1>1. ~FormatSuper /\ ~FormatDirectory /\ ~Crash /\ ~UNCHANGED vars
  BY <1>0 DEF FormatSuper, FormatDirectory, Crash, vars
<1>2. ~GotoRoot /\ ~GotoHere /\ ~GotoParent /\ ~GetDir /\ \A d : ~Select(d)
  BY <1>0 DEF GotoRoot, GotoHere, GotoParent, GetDir, Select
<1>3. \A n : ~CreateDir(n) /\ ~GotoChild(n) /\ \A c : ~WriteBegin(n, c)
  BY <1>0 DEF CreateDir, GotoChild, WriteBegin
<1>4. \A n : ~Read(n) /\ ~Remove(n) /\ ~Exists(n) /\ ~SizeCall(n)
  BY <1>0 DEF Read, Remove, Exists, SizeCall, OnFile
<1>5. ~WriteData
  <2> SUFFICES ASSUME WriteData PROVE FALSE
    OBVIOUS
  <2>1. call' = [call EXCEPT !.done = @ + 1]
    BY <1>0 DEF WriteData
  <2>2. call'.op = "write"
    BY <2>1, <1>0 DEF WriteCall
  <2> QED
    BY <2>2, <1>0
<1>6. WriteCommit
  BY <1>1, <1>2, <1>3, <1>4, <1>5 DEF Next, Continue
<1> DEFINE e == [status |-> "file", parent |-> cwd, name |-> call.name,
                 start |-> call.start, content |-> call.content]
<1>7. WriteEntry(call.index, e)
  BY <1>0, <1>6 DEF WriteCommit
<1>8. dir' = [dir EXCEPT ![selected][call.index] = e]
  <2> HIDE DEF e
  <2> QED
    BY <1>0, <1>7 DEF WriteEntry, SectorWrite
<1> QED
  BY <1>0, <1>6, <1>8 DEF WriteCommit, Committed

CommitReadable ==
    \A i \in Index :
        call.op = "write" /\ call.index = i /\ call' = Idle /\ ret' = Ok =>
            /\ Here'[i] = [status |-> "file", parent |-> cwd, name |-> call.name,
                           start |-> call.start, content |-> call.content]
            /\ Intact(selected, i)'

LEMMA StepCommit == TypeOK /\ Copy /\ [Next]_vars => CommitReadable
<1> SUFFICES ASSUME TypeOK, Copy, [Next]_vars, NEW i \in Index,
                    call.op = "write", call.index = i, call' = Idle, ret' = Ok
             PROVE  /\ Here'[i] = [status |-> "file", parent |-> cwd,
                                   name |-> call.name, start |-> call.start,
                                   content |-> call.content]
                    /\ Intact(selected, i)'
  BY DEF CommitReadable
<1> DEFINE e == [status |-> "file", parent |-> cwd, name |-> call.name,
                 start |-> call.start, content |-> call.content]
<1>1. /\ call \in WriteCall /\ call.done = SectorCount(call.content)
      /\ dir' = [dir EXCEPT ![selected][i] = e]
      /\ UNCHANGED <<blocks, selected>>
  BY OnlyCommitSucceeds DEF Committed
<1>2. e.start = call.start /\ e.content = call.content
  OBVIOUS
<1> HIDE DEF e
<1>3. dir'[selected][i] = e
  BY <1>1 DEF TypeOK
<1>4. \A k \in 0 .. SectorCount(call.content) - 1 :
         blocks'[selected'][call.start + k] = <<call.content, k>>
  BY <1>1 DEF Copy
<1>5. Here'[i] = e /\ dir'[selected'][i] = e
  BY <1>1, <1>3 DEF Here
<1>6. Intact(selected, i)'
  BY <1>2, <1>4, <1>5 DEF Intact
<1> QED
  BY <1>5, <1>6 DEF e

(* What a successful Write leaves is the file it was asked for, with every *)
(* sector in place, whatever errors and power losses came before it.       *)
THEOREM CommitsStayReadable == Spec => CommittedReadable
<1>1. Init => Placed /\ Copy
  BY DEF Init, Placed, Copy, ExtentsDisjoint, Reservation, Extent, FreeEntry, Idle
<1>2. TypeOK /\ Placed /\ Copy /\ [Next]_vars => [CommitReadable]_vars
  BY StepCommit
<1>3. Spec => [][CommitReadable]_vars
  BY <1>1, <1>2, StepPlaced, StepCopy, TypeCorrect, PTL DEF Spec
<1> QED
  BY <1>3 DEF CommittedReadable, CommitReadable

-----------------------------------------------------------------------------
(* Names.  While sectors can be read, a lookup without a hit means that the *)
(* directory has no such entry; the entry a Write is about to commit stays  *)
(* the only one of its name until it does.                                  *)
Names ==
    /\ NamesUnique
    /\ call.op = "write" =>
          \A j \in Index \ {call.index} :
              Live(Here[j]) /\ Here[j].parent = cwd => Here[j].name # call.name

LEMMA Missing ==
    ASSUME ~ReadFault, NEW name, NEW kinds, NotFound \in FindChild(name, kinds)
    PROVE  \A i \in Index : ~(/\ Here[i].status \in kinds
                              /\ Here[i].parent = cwd /\ Here[i].name = name)
<1> DEFINE hits == {i \in Index : /\ Here[i].status \in kinds
                                  /\ Here[i].parent = cwd /\ Here[i].name = name}
<1>1. NotFound \in FirstOf(hits)
  BY DEF FindChild
<1>2. hits \subseteq Nat
  BY DEF Index
<1> HIDE DEF hits
<1>3. hits = {}
  BY <1>1, <1>2 DEF FirstOf, NotFound
<1> QED
  BY <1>3 DEF hits

LEMMA StepNames == ~ReadFault /\ TypeOK /\ Names /\ [Next]_vars => Names'
<1> SUFFICES ASSUME ~ReadFault, TypeOK, Names, [Next]_vars PROVE Names'
  OBVIOUS
<1>b. Idle.op # "write" /\ ~Live(FreeEntry)
  BY DEF Idle, FreeEntry, Live
<1>1. CASE Quiet
  BY <1>1, <1>b DEF Quiet, Names, NamesUnique, Here
<1>2. ASSUME NEW i \in Index, NEW n \in ValidNames, DirMade(i, n) PROVE Names'
  <2>1. PICK e \in DirEntry : /\ e.parent = cwd /\ e.name = n
                              /\ dir' = [dir EXCEPT ![selected][i] = e]
    BY <1>2 DEF DirMade
  <2>2. \A d \in Disks, j \in Index :
           dir'[d][j] = IF d = selected /\ j = i THEN e ELSE dir[d][j]
    BY <2>1 DEF TypeOK
  <2>3. \A j \in Index : Live(Here[j]) /\ Here[j].parent = cwd => Here[j].name # n
    BY <1>2, Missing DEF DirMade, Live
  <2>4. NamesUnique'
    BY <2>1, <2>2, <2>3 DEF Names, NamesUnique, Here
  <2> QED
    BY <2>4, <1>2, <1>b DEF DirMade, Names
<1>3. ASSUME NEW i \in Index, FileRemoved(i) PROVE Names'
  <2>1. \A d \in Disks, j \in Index :
           dir'[d][j] = IF d = selected /\ j = i THEN FreeEntry ELSE dir[d][j]
    BY <1>3 DEF FileRemoved, TypeOK
  <2>2. NamesUnique'
    BY <2>1, <1>b DEF Names, NamesUnique
  <2> QED
    BY <2>2, <1>3, <1>b DEF FileRemoved, Names
<1>4. CASE Erasing
  BY <1>4, <1>b DEF Erasing, Names, NamesUnique
<1>5. ASSUME NEW n \in ValidNames, NEW c \in Contents, NEW i \in Index,
             NEW g \in Index \cup {NotFound}, Reserved(n, c, i, g)
      PROVE  Names'
  <2>1. \A j \in Index \ {i} :
           Live(Here[j]) /\ Here[j].parent = cwd => Here[j].name # n
    <3>1. CASE /\ Here[i].status = "file" /\ Here[i].parent = cwd /\ Here[i].name = n
      <4>1. Live(Here[i]) /\ selected \in Disks
        BY <3>1 DEF Live, TypeOK
      <4> QED
        BY <3>1, <4>1 DEF Names, NamesUnique, Here
    <3>2. CASE NotFound \in FindChild(n, {"file"}) /\ NotFound \in FindChild(n, {"dir"})
      BY <3>2, Missing DEF Live
    <3> QED
      BY <1>5, <3>1, <3>2 DEF Reserved
  <2> QED
    BY <2>1, <1>5 DEF Reserved, Names, NamesUnique, Here
<1>6. CASE Copied
  <2>1. /\ call'.op = "write" => call'.index = call.index /\ call'.name = call.name
        /\ call.op = "write"
    BY <1>6, <1>b DEF Copied, WriteCall
  <2> QED
    BY <1>6, <2>1 DEF Copied, Names, NamesUnique, Here
<1>7. CASE Committed
  <2> DEFINE e == [status |-> "file", parent |-> cwd, name |-> call.name,
                   start |-> call.start, content |-> call.content]
  <2>1. call.op = "write" /\ e.parent = cwd /\ e.name = call.name
    BY <1>7 DEF Committed, WriteCall
  <2> HIDE DEF e
  <2>2. \A d \in Disks, j \in Index :
           dir'[d][j] = IF d = selected /\ j = call.index THEN e ELSE dir[d][j]
    BY <1>7 DEF Committed, TypeOK, e
  <2>3. NamesUnique'
    BY <2>1, <2>2 DEF Names, NamesUnique, Here
  <2> QED
    BY <2>3, <1>7, <1>b DEF Committed, Names
<1> QED
  BY <1>1, <1>2, <1>3, <1>4, <1>5, <1>6, <1>7, StepCases

(* As long as every sector can be read, no directory ever holds two files  *)
(* or directories of one name, whatever writes fail and power is lost.     *)
THEOREM NamesStayUnique == ASSUME "read" \notin Faults PROVE Spec => []NamesUnique
<1>1. ~ReadFault
  BY DEF ReadFault
<1>2. Init => Names
  BY DEF Init, Names, NamesUnique, Live, FreeEntry, Idle
<1>3. TypeOK /\ Names /\ [Next]_vars => Names'
  BY <1>1, StepNames
<1>4. Names => NamesUnique
  BY DEF Names
<1> QED
  BY <1>2, <1>3, <1>4, TypeCorrect, PTL DEF Spec

-----------------------------------------------------------------------------
(* Directories.  While no Format was interrupted, every live entry of a     *)
(* table lies in the root or in a directory, every directory was made after *)
(* the one it lies in (rank counts the directories there were), and the     *)
(* working directory is one.  A Write puts its file where no directory is,  *)
(* and a Format under way has erased the sectors it has passed.             *)
Dirs(table) == {i \in Index : table[i].status = "dir"}
IsDirectory(table, id) == id = Root \/ (id \in DirIds /\ id - 1 \in Dirs(table))

Ascending(table, rank) ==
    \A i \in Dirs(table) :
        /\ rank[i] < Cardinality(Dirs(table))
        /\ table[i].parent # Root => rank[table[i].parent - 1] < rank[i]

Grown(table) ==
    /\ \A i \in Index : Live(table[i]) => IsDirectory(table, table[i].parent)
    /\ \E rank \in [Index -> Nat] : Ascending(table, rank)

Tree ==
    /\ \A d \in Disks : ~cut[d] => Grown(dir[d])
    /\ ~cut[selected] => IsDirectory(Here, cwd)
    /\ call.op = "write" => Here[call.index].status # "dir"
    /\ call.op = "format" =>
          /\ cut[selected]
          /\ \A i \in Index : DirSector(i) < call.next => Here[i] = FreeEntry

-----------------------------------------------------------------------------
(* Any set of natural numbers that is not empty has a least member; this    *)
(* is how the proofs below use induction.                                   *)
LEMMA Least ==
    ASSUME NEW S \in SUBSET Nat, S # {}
    PROVE  \E n \in S : \A m \in S : n <= m
<1> DEFINE R == OpToRel(<, Nat)
<1>1. IsWellFoundedOn(R, Nat)
  BY NatLessThanWellFounded
<1>2. \A m, n \in Nat : <<m, n>> \in R <=> m < n
  BY DEF OpToRel
<1> HIDE DEF R
<1>3. PICK n \in S : \A m \in S : ~(<<m, n>> \in R)
  BY <1>1, WFMin
<1>4. n \in Nat /\ \A m \in S : m \in Nat /\ ~(m < n)
  BY <1>2, <1>3
<1> QED
  BY <1>3, <1>4

LEMMA DirsFinite ==
    ASSUME NEW table
    PROVE  /\ IsFiniteSet(Dirs(table)) /\ Cardinality(Dirs(table)) \in Nat
           /\ Cardinality(Dirs(table)) <= MaxFiles
<1>1. IsFiniteSet(Index) /\ Cardinality(Index) = MaxFiles
  BY FS_Interval, FsAssumption DEF Index
<1>2. Dirs(table) \in SUBSET Index
  BY DEF Dirs
<1> QED
  BY <1>1, <1>2, FS_Subset, FS_CardinalityType

(* The tree depends on the directories only, and on the parents of files.   *)
LEMMA GrownStays ==
    ASSUME NEW old, Grown(old), NEW new, Dirs(new) = Dirs(old),
           \A i \in Dirs(old) : new[i] = old[i],
           \A i \in Index : \/ new[i] = old[i]
                            \/ ~Live(new[i])
                            \/ IsDirectory(old, new[i].parent)
    PROVE  Grown(new)
<1>1. \A id : IsDirectory(old, id) <=> IsDirectory(new, id)
  BY DEF IsDirectory
<1>2. \A i \in Index : Live(new[i]) => IsDirectory(new, new[i].parent)
  BY <1>1 DEF Grown
<1>3. PICK rank \in [Index -> Nat] : Ascending(old, rank)
  BY DEF Grown
<1>4. Ascending(new, rank)
  BY <1>3 DEF Ascending
<1> QED
  BY <1>2, <1>3, <1>4 DEF Grown

(* A directory made in a directory is of the highest rank.                  *)
LEMMA GrownGrows ==
    ASSUME NEW old, Grown(old), NEW new, NEW i \in Index, NEW e \in DirEntry,
           ~Live(old[i]), IsDirectory(old, e.parent),
           \A j \in Index : new[j] = IF j = i THEN e ELSE old[j]
    PROVE  Grown(new)
<1> DEFINE count == Cardinality(Dirs(old))
<1>1. e.status = "dir" /\ old[i].status # "dir" /\ i \notin Dirs(old)
  BY DEF DirEntry, Live, Dirs
<1>2. Dirs(new) = Dirs(old) \cup {i}
  BY <1>1 DEF Dirs
<1>3. Cardinality(Dirs(new)) = count + 1 /\ count \in Nat
  BY <1>1, <1>2, DirsFinite, FS_AddElement
<1>4. \A id : IsDirectory(old, id) => IsDirectory(new, id)
  BY <1>2 DEF IsDirectory
<1>5. \A j \in Index : Live(new[j]) => IsDirectory(new, new[j].parent)
  BY <1>4 DEF Grown
<1>6. PICK rank \in [Index -> Nat] : Ascending(old, rank)
  BY DEF Grown
<1> DEFINE next == [rank EXCEPT ![i] = count]
<1>7. next \in [Index -> Nat] /\ \A j \in Index : next[j] = IF j = i THEN count ELSE rank[j]
  BY <1>3, <1>6
<1>8. \A id : IsDirectory(old, id) /\ id # Root => id - 1 \in Dirs(old)
  BY DEF IsDirectory
<1> HIDE DEF count, next
<1>9. ASSUME NEW j \in Dirs(new)
      PROVE  /\ next[j] < count + 1
             /\ new[j].parent # Root => next[new[j].parent - 1] < next[j]
  <2>1. CASE j = i
    <3>1. next[j] = count /\ new[j] = e
      BY <2>1, <1>7
    <3>2. e.parent # Root => e.parent - 1 \in Dirs(old) /\ e.parent - 1 # i
      BY <1>1, <1>8
    <3>3. e.parent # Root => rank[e.parent - 1] < count /\ next[e.parent - 1] = rank[e.parent - 1]
      BY <3>2, <1>6, <1>7 DEF Ascending, Dirs, count
    <3> QED
      BY <3>1, <3>3, <1>3
  <2>2. CASE j # i
    <3>1. j \in Dirs(old) /\ j \in Index /\ new[j] = old[j] /\ next[j] = rank[j]
      BY <2>2, <1>2, <1>7 DEF Dirs
    <3>2. rank[j] \in Nat /\ rank[j] < count
      BY <3>1, <1>6 DEF Ascending, count
    <3>3. ASSUME old[j].parent # Root
          PROVE  next[old[j].parent - 1] < next[j]
      <4> DEFINE p == old[j].parent - 1
      <4>1. rank[p] < rank[j]
        BY <3>1, <3>3, <1>6 DEF Ascending
      <4>2. Live(old[j])
        BY <3>1 DEF Dirs, Live
      <4>3. p \in Dirs(old)
        BY <3>1, <3>3, <4>2, <1>8 DEF Grown
      <4>4. p \in Index /\ p # i
        BY <4>3, <1>1 DEF Dirs
      <4> QED
        BY <3>1, <4>1, <4>4, <1>7
    <3> QED
      BY <3>1, <3>2, <3>3, <1>3
  <2> QED
    BY <2>1, <2>2
<1>10. Ascending(new, next)
  BY <1>3, <1>9 DEF Ascending
<1> QED
  BY <1>5, <1>7, <1>10 DEF Grown

-----------------------------------------------------------------------------
(* Only the steps of a Format change what is known of it.                   *)
LEMMA FormatFrame ==
    ASSUME TypeOK, [Next]_vars, ~FormatSuper, ~FormatDirectory
    PROVE  /\ cut' = cut /\ selected' \in Disks
           /\ \/ call'.op # "format"
              \/ call' = call /\ UNCHANGED <<dir, selected>>
           /\ call.op = "format" => UNCHANGED dir
<1> USE DEF media, ram, Fail
<1>0. Idle.op = "idle" /\ selected \in Disks
  BY DEF Idle, TypeOK
<1>1. ASSUME NEW d \in 0 .. NumDisks, Select(d) PROVE call = Idle /\ call' = Idle /\ cut' = cut /\ selected' \in Disks
  BY <1>1, <1>0 DEF Select
<1>2. CASE GotoRoot \/ GotoHere \/ GotoParent \/ GetDir
           \/ \E n \in DirNames : GotoChild(n)
  <2>1. call = Idle
    BY <1>2 DEF GotoRoot, GotoHere, GotoParent, GetDir, GotoChild
  <2>2. Fail \/ LoseDirectory \/ \E id : Goto(id)
    BY <1>2 DEF GotoRoot, GotoHere, GotoParent, GetDir, GotoChild
  <2> QED
    BY <2>1, <2>2, <1>0 DEF LoseDirectory, Goto
<1>3. ASSUME NEW n \in FileNames, NEW c \in Contents, WriteBegin(n, c)
      PROVE  call = Idle /\ cut' = cut /\ selected' = selected /\ call'.op # "format"
  <2>1. call = Idle /\ (Fail \/ \E i, g : Reserve(n, c, i, g))
    BY <1>3 DEF WriteBegin
  <2> QED
    BY <2>1, <1>0 DEF Reserve
<1>4. ASSUME NEW n \in FileNames, Read(n) \/ Remove(n) \/ Exists(n) \/ SizeCall(n)
      PROVE  call = Idle /\ cut' = cut /\ selected' = selected /\ call' = call
  BY <1>4 DEF Read, Remove, Exists, SizeCall, OnFile, ReadFile, RemoveFile, FileExists,
              FileSize, Answer
<1>5. ASSUME NEW n \in DirNames, CreateDir(n)
      PROVE  call = Idle /\ cut' = cut /\ selected' = selected /\ call' = call
  BY <1>5 DEF CreateDir
<1>6. CASE WriteData \/ WriteCommit
  <2>1. call \in WriteCall
    BY <1>6 DEF WriteData, WriteCommit, TypeOK, Idle, FormatCall
  <2>2. /\ call.op = "write" /\ cut' = cut /\ selected' = selected
        /\ call' = Idle \/ call' = [call EXCEPT !.done = @ + 1]
    BY <1>6 DEF WriteData, WriteCommit
  <2>3. call'.op # "format"
    BY <2>1, <2>2, <1>0 DEF WriteCall
  <2> QED
    BY <2>2, <2>3, <1>0
<1>7. CASE Crash
  BY <1>7, <1>0, Constants DEF Crash
<1>8. CASE UNCHANGED vars
  BY <1>8, <1>0 DEF vars
<1> QED
  BY <1>0, <1>1, <1>2, <1>3, <1>4, <1>5, <1>6, <1>7, <1>8 DEF Next, Continue

(* Where the working directory can go: to the root, to a directory of the   *)
(* selected disk, or to the parent of the present one.                      *)
LEMMA HandleMoves ==
    ASSUME TypeOK, [Next]_vars
    PROVE  \/ cwd' = Root
           \/ selected' = selected /\ cwd' = cwd
           \/ /\ UNCHANGED <<dir, selected>> /\ cwd' \in DirIds
              /\ Here[cwd' - 1].status = "dir"
           \/ /\ UNCHANGED <<dir, selected>> /\ cwd \in DirIds
              /\ Here[cwd - 1].status = "dir" /\ cwd' = Here[cwd - 1].parent
<1> USE DEF media, ram, Fail
<1>1. ASSUME NEW d \in 0 .. NumDisks, Select(d) PROVE cwd' = Root \/ UNCHANGED <<selected, cwd>>
  BY <1>1 DEF Select
<1>2. ASSUME NEW n \in DirNames, GotoChild(n)
      PROVE  \/ UNCHANGED <<selected, cwd>>
             \/ /\ UNCHANGED <<dir, selected>> /\ cwd' \in DirIds
                /\ Here[cwd' - 1].status = "dir"
  <2>1. UNCHANGED <<selected, cwd>>
        \/ \E i \in Index : Here[i].status = "dir" /\ Goto(i + 1)
    BY <1>2, FindChildIndex DEF GotoChild
  <2> QED
    BY <2>1, Constants DEF Goto, Index
<1>3. CASE GotoRoot \/ GotoHere \/ GetDir
  BY <1>3 DEF GotoRoot, GotoHere, GetDir, LoseDirectory, Goto
<1>4. CASE GotoParent
  BY <1>4 DEF GotoParent, LoseDirectory, Goto, TypeOK
<1>5. CASE FormatSuper \/ FormatDirectory
  BY <1>5 DEF FormatSuper, FormatDirectory
<1>6. ASSUME NEW n \in FileNames, NEW c \in Contents, WriteBegin(n, c)
      PROVE  UNCHANGED <<selected, cwd>>
  <2>1. Fail \/ \E i, g : Reserve(n, c, i, g)
    BY <1>6 DEF WriteBegin
  <2> QED
    BY <2>1 DEF Reserve
<1>7. ASSUME NEW n \in FileNames, Read(n) \/ Remove(n) \/ Exists(n) \/ SizeCall(n)
      PROVE  UNCHANGED <<selected, cwd>>
  BY <1>7 DEF Read, Remove, Exists, SizeCall, OnFile, ReadFile, RemoveFile, FileExists,
              FileSize, Answer
<1>8. ASSUME NEW n \in DirNames, CreateDir(n) PROVE UNCHANGED <<selected, cwd>>
  BY <1>8 DEF CreateDir
<1>9. CASE WriteData \/ WriteCommit
  BY <1>9 DEF WriteData, WriteCommit
<1>10. CASE Crash
  BY <1>10 DEF Crash
<1>11. CASE UNCHANGED vars
  BY <1>11 DEF vars
<1> QED
  BY <1>1, <1>2, <1>3, <1>4, <1>5, <1>6, <1>7, <1>8, <1>9, <1>10, <1>11 DEF Next, Continue

LEMMA StepTree == TypeOK /\ Tree /\ [Next]_vars => Tree'
<1> SUFFICES ASSUME TypeOK, Tree, [Next]_vars PROVE Tree'
  OBVIOUS
<1>a. /\ FreeEntry.status # "dir" /\ ~Live(FreeEntry)
      /\ Idle.op # "write" /\ Idle.op # "format"
  BY DEF FreeEntry, Live, Idle
<1>b. selected \in Disks
  BY DEF TypeOK
<1>1. CASE FormatSuper
  <2>1. CASE Fail
    <3>1. UNCHANGED <<dir, cut, selected, cwd, call>>
      BY <2>1 DEF Fail, media, ram
    <3> QED
      BY <3>1 DEF Tree, Here
  <2>2. CASE ~Fail
    <3>1. /\ UNCHANGED <<dir, selected, cwd>>
          /\ \/ call' = [op |-> "format", next |-> 0]
                /\ cut' = [cut EXCEPT ![selected] = TRUE]
             \/ UNCHANGED <<call, cut>>
      BY <1>1, <2>2 DEF FormatSuper
    <3>2. CASE UNCHANGED <<call, cut>>
      BY <3>1, <3>2 DEF Tree, Here
    <3>3. CASE /\ call' = [op |-> "format", next |-> 0]
               /\ cut' = [cut EXCEPT ![selected] = TRUE]
      <4>1. cut'[selected] /\ \A d \in Disks : ~cut'[d] => ~cut[d]
        BY <1>b, <3>3 DEF TypeOK
      <4>2. \A i \in Index : ~(DirSector(i) < 0)
        BY LayoutAssumption, FsAssumption
      <4>3. call'.op = "format" /\ call'.next = 0
        BY <3>3
      <4> QED
        BY <3>1, <4>1, <4>2, <4>3 DEF Tree, Here
    <3> QED
      BY <3>1, <3>2, <3>3
  <2> QED
    BY <2>1, <2>2
<1>2. CASE FormatDirectory
  <2>1. PICK landed, ok \in BOOLEAN :
           /\ ok => landed
           /\ dir' = [dir EXCEPT ![selected] =
                        [i \in Index |-> IF landed /\ DirSector(i) = call.next
                                            THEN FreeEntry ELSE @[i]]]
           /\ IF ok /\ call.next < DirSectors - 1
                 THEN /\ call' = [call EXCEPT !.next = @ + 1]
                      /\ UNCHANGED <<cwd, ret, cut>>
                 ELSE /\ call' = Idle
                      /\ ret' = IF ok THEN Ok ELSE Failed
                      /\ cwd' = IF ok THEN Root ELSE cwd
                      /\ cut' = [cut EXCEPT ![selected] = ~ok]
           /\ UNCHANGED <<super, blocks, selected>>
    BY <1>2 DEF FormatDirectory, SectorWrite
  <2>2. /\ call.op = "format" /\ call \in FormatCall /\ cut[selected]
        /\ \A i \in Index : DirSector(i) < call.next => Here[i] = FreeEntry
    BY <1>2 DEF FormatDirectory, TypeOK, Idle, WriteCall, Tree
  <2>3. /\ \A d \in Disks \ {selected} : dir'[d] = dir[d]
        /\ \A i \in Index : Here'[i] = IF landed /\ DirSector(i) = call.next
                                          THEN FreeEntry ELSE Here[i]
    BY <1>b, <2>1 DEF TypeOK, Here
  <2>4. /\ call.next \in Nat /\ call.next <= DirSectors - 1
        /\ \A i \in Index : DirSector(i) \in Nat /\ DirSector(i) <= DirSectors - 1
        /\ DirSectors \in Nat
    BY <2>2, LayoutAssumption, FsAssumption DEF FormatCall
  <2>5. \A d \in Disks \ {selected} : ~cut'[d] => Grown(dir'[d])
    <3>1. \A d \in Disks \ {selected} : cut'[d] = cut[d]
      BY <2>1 DEF TypeOK
    <3> QED
      BY <3>1, <2>3 DEF Tree
  <2>6. CASE ok /\ call.next < DirSectors - 1
    <3>1. /\ call'.op = "format" /\ call'.next = call.next + 1
          /\ cut' = cut /\ selected' = selected
      BY <2>1, <2>2, <2>6 DEF FormatCall
    <3>2. \A i \in Index : DirSector(i) < call'.next => Here'[i] = FreeEntry
      BY <3>1, <2>1, <2>2, <2>3, <2>4, <2>6
    <3> QED
      BY <3>1, <3>2, <2>2, <2>5 DEF Tree
  <2>7. CASE ok /\ ~(call.next < DirSectors - 1)
    <3>1. \A i \in Index : dir'[selected][i] = FreeEntry
      BY <2>1, <2>2, <2>3, <2>4, <2>7 DEF Here
    <3>2. Dirs(dir'[selected]) = {}
      BY <3>1, <1>a DEF Dirs
    <3>3. Grown(dir'[selected])
      <4>1. [i \in Index |-> 0] \in [Index -> Nat]
        OBVIOUS
      <4>2. \A rank : Ascending(dir'[selected], rank)
        BY <3>2 DEF Ascending
      <4>3. \A i \in Index : ~Live(dir'[selected][i])
        BY <3>1, <1>a
      <4> QED
        BY <4>1, <4>2, <4>3 DEF Grown
    <3>4. cwd' = Root /\ call' = Idle /\ selected' = selected
      BY <2>1, <2>7
    <3> QED
      BY <3>3, <3>4, <2>5, <1>a DEF Tree, IsDirectory
  <2>8. CASE ~ok
    <3>1. cut'[selected] /\ call' = Idle /\ selected' = selected
      BY <1>b, <2>1, <2>8 DEF TypeOK
    <3> QED
      BY <3>1, <2>5, <1>a DEF Tree
  <2> QED
    BY <2>6, <2>7, <2>8
<1>3. CASE ~FormatSuper /\ ~FormatDirectory
  <2>1. /\ cut' = cut /\ selected' \in Disks
        /\ \/ call'.op # "format"
           \/ call' = call /\ UNCHANGED <<dir, selected>>
        /\ call.op = "format" => UNCHANGED dir
    BY <1>3, FormatFrame
  <2>2. call'.op = "format" =>
           /\ cut'[selected']
           /\ \A i \in Index : DirSector(i) < call'.next => Here'[i] = FreeEntry
    BY <2>1 DEF Tree, Here
  (* The working directory, once the tables are known to have grown only.   *)
  <2>3. ASSUME \A d \in Disks : ~cut[d] => Grown(dir'[d]),
               \A d \in Disks : Dirs(dir[d]) \subseteq Dirs(dir'[d])
        PROVE  /\ \A d \in Disks : ~cut'[d] => Grown(dir'[d])
               /\ ~cut'[selected'] => IsDirectory(Here', cwd')
    <3>1. \A d \in Disks : \A id : IsDirectory(dir[d], id) => IsDirectory(dir'[d], id)
      BY <2>3 DEF IsDirectory
    <3>2. CASE cwd' = Root
      BY <3>2, <2>1, <2>3 DEF IsDirectory
    <3>3. CASE selected' = selected /\ cwd' = cwd
      BY <3>1, <3>3, <2>1, <2>3, <1>b DEF Tree, Here
    <3>4. CASE /\ UNCHANGED <<dir, selected>> /\ cwd' \in DirIds
               /\ Here[cwd' - 1].status = "dir"
      BY <3>4, <2>1, <2>3, Constants DEF IsDirectory, Dirs, Here
    <3>5. CASE /\ UNCHANGED <<dir, selected>> /\ cwd \in DirIds
               /\ Here[cwd - 1].status = "dir" /\ cwd' = Here[cwd - 1].parent
      <4>1. cwd - 1 \in Index /\ Live(Here[cwd - 1])
        BY <3>5, Constants DEF Live
      <4>2. ~cut[selected] => IsDirectory(Here, cwd')
        BY <4>1, <3>5, <1>b DEF Tree, Grown, Here
      <4> QED
        BY <4>2, <3>5, <2>1, <2>3 DEF Here
    <3> QED
      BY <3>2, <3>3, <3>4, <3>5, HandleMoves
  <2>4. CASE UNCHANGED dir /\ (call'.op = "write" => call' = call /\ selected' = selected)
    BY <2>2, <2>3, <2>4, <2>1 DEF Tree, Here
  <2>5. CASE Quiet
    <3>1. UNCHANGED dir /\ (call'.op = "write" => call' = call /\ selected' = selected)
      BY <2>5 DEF Quiet
    <3> QED
      BY <3>1, <2>4
  <2>6. ASSUME NEW i \in Index, NEW n \in ValidNames, DirMade(i, n) PROVE Tree'
    <3>1. PICK e \in DirEntry : e.parent = cwd /\ dir' = [dir EXCEPT ![selected][i] = e]
      BY <2>6 DEF DirMade
    <3>2. /\ \A d \in Disks \ {selected} : dir'[d] = dir[d]
          /\ \A j \in Index : dir'[selected][j] = IF j = i THEN e ELSE dir[selected][j]
          /\ ~Live(dir[selected][i]) /\ call' = Idle
      BY <3>1, <2>6, <1>b DEF TypeOK, DirMade, Here
    <3>3. e.status = "dir"
      BY DEF DirEntry
    <3>4. ~cut[selected] => Grown(dir'[selected])
      <4>1. ~cut[selected] => Grown(dir[selected]) /\ IsDirectory(dir[selected], e.parent)
        BY <3>1, <1>b DEF Tree, Here
      <4> QED
        BY <4>1, <3>2, GrownGrows
    <3>5. \A d \in Disks : Dirs(dir[d]) \subseteq Dirs(dir'[d])
      BY <3>2, <3>3 DEF Dirs
    <3>6. \A d \in Disks : ~cut[d] => Grown(dir'[d])
      BY <3>2, <3>4 DEF Tree
    <3> QED
      BY <3>2, <3>5, <3>6, <2>2, <2>3, <1>a DEF Tree
  <2>7. ASSUME NEW i \in Index, FileRemoved(i) PROVE Tree'
    <3>1. /\ \A d \in Disks \ {selected} : dir'[d] = dir[d]
          /\ \A j \in Index :
                dir'[selected][j] = IF j = i THEN FreeEntry ELSE dir[selected][j]
          /\ dir[selected][i].status = "file" /\ call' = Idle
      BY <2>7, <1>b DEF TypeOK, FileRemoved, Here
    <3>2. \A d \in Disks : Dirs(dir'[d]) = Dirs(dir[d])
      BY <3>1, <1>a DEF Dirs
    <3>3. /\ \A j \in Dirs(dir[selected]) : dir'[selected][j] = dir[selected][j]
          /\ \A j \in Index : dir'[selected][j] = dir[selected][j] \/ ~Live(dir'[selected][j])
      BY <3>1, <1>a DEF Dirs
    <3>4. ~cut[selected] => Grown(dir'[selected])
      BY <3>2, <3>3, <1>b, GrownStays DEF Tree
    <3>5. \A d \in Disks : ~cut[d] => Grown(dir'[d])
      BY <3>1, <3>4 DEF Tree
    <3> QED
      BY <3>1, <3>2, <3>5, <2>2, <2>3, <1>a DEF Tree
  <2>8. CASE Erasing
    BY <2>1, <2>4, <2>8 DEF Erasing
  <2>9. ASSUME NEW n \in ValidNames, NEW c \in Contents, NEW i \in Index,
               NEW g \in Index \cup {NotFound}, Reserved(n, c, i, g)
        PROVE  Tree'
    <3>1. /\ UNCHANGED <<dir, selected>> /\ call'.index = i
          /\ Here[i].status # "dir"
      BY <2>9 DEF Reserved, Live
    <3> QED
      BY <3>1, <2>2, <2>3 DEF Tree, Here
  <2>10. CASE Copied
    <3>1. /\ UNCHANGED <<dir, selected>>
          /\ call'.op = "write" => call'.index = call.index /\ call.op = "write"
      BY <2>10, <1>a DEF Copied, WriteCall
    <3> QED
      BY <3>1, <2>2, <2>3 DEF Tree, Here
  <2>11. CASE Committed
    <3> DEFINE i == call.index
               e == [status |-> "file", parent |-> cwd, name |-> call.name,
                     start |-> call.start, content |-> call.content]
    <3>1. e.status = "file" /\ e.parent = cwd
      OBVIOUS
    <3>2. /\ i \in Index /\ call.op = "write" /\ call' = Idle
          /\ dir' = [dir EXCEPT ![selected][i] = e]
      BY <2>11 DEF Committed, WriteCall
    <3> HIDE DEF e, i
    <3>3. /\ \A d \in Disks \ {selected} : dir'[d] = dir[d]
          /\ \A j \in Index : dir'[selected][j] = IF j = i THEN e ELSE dir[selected][j]
      BY <3>2, <1>b DEF TypeOK
    <3>4. dir[selected][i].status # "dir"
      BY <3>2 DEF Tree, Here, i
    <3>5. \A d \in Disks : Dirs(dir'[d]) = Dirs(dir[d])
      BY <3>1, <3>3, <3>4 DEF Dirs
    <3>6. ~cut[selected] => Grown(dir'[selected])
      <4>1. \A j \in Dirs(dir[selected]) : dir'[selected][j] = dir[selected][j]
        BY <3>3, <3>4 DEF Dirs
      <4>2. ~cut[selected] => Grown(dir[selected]) /\ IsDirectory(dir[selected], e.parent)
        BY <3>1, <1>b DEF Tree, Here
      <4> QED
        BY <4>1, <4>2, <3>3, <3>5, <1>b, GrownStays
    <3>7. \A d \in Disks : ~cut[d] => Grown(dir'[d])
      BY <3>3, <3>6 DEF Tree
    <3> QED
      BY <3>2, <3>5, <3>7, <2>2, <2>3, <1>a DEF Tree
  <2> QED
    BY <2>5, <2>6, <2>7, <2>8, <2>9, <2>10, <2>11, StepCases
<1> QED
  BY <1>1, <1>2, <1>3

-----------------------------------------------------------------------------
(* The way up from a directory.                                             *)
Parent(table, id) ==
    IF id \in DirIds /\ table[id - 1].status = "dir" THEN table[id - 1].parent ELSE NotFound

(* The recursion that defines the way up has a solution on 0 .. n, for      *)
(* every n: each solution is extended by one step.                          *)
Climbs(table, from, n, up) ==
    up = [k \in 0 .. n |-> IF k = 0 THEN from ELSE Parent(table, up[k - 1])]

LEMMA ClimbExists ==
    ASSUME NEW table, NEW from, NEW n \in Nat
    PROVE  \E up : Climbs(table, from, n, up)
<1> DEFINE Stuck == {k \in Nat : ~\E up : Climbs(table, from, k, up)}
<1>1. SUFFICES Stuck = {}
  OBVIOUS
<1>2. SUFFICES ASSUME Stuck # {} PROVE FALSE
  OBVIOUS
<1>3. PICK m \in Stuck : \A k \in Stuck : m <= k
  BY <1>2, Least
<1>4. m # 0
  <2> DEFINE up == [k \in 0 .. 0 |-> from]
  <2>1. Climbs(table, from, 0, up)
    BY DEF Climbs
  <2> QED
    BY <2>1
<1>5. m - 1 \in Nat /\ m - 1 \notin Stuck /\ m \in Nat
  BY <1>3, <1>4
<1>6. PICK up : Climbs(table, from, m - 1, up)
  BY <1>5
<1> DEFINE next == [k \in 0 .. m |-> IF k = m THEN Parent(table, up[m - 1]) ELSE up[k]]
<1>7. \A k \in 0 .. m - 1 :
         up[k] = IF k = 0 THEN from ELSE Parent(table, up[k - 1])
  BY <1>6 DEF Climbs
<1>8. ASSUME NEW k \in 0 .. m
      PROVE  next[k] = IF k = 0 THEN from ELSE Parent(table, next[k - 1])
  <2>1. CASE k = m
    <3>1. next[k] = Parent(table, up[m - 1]) /\ next[m - 1] = up[m - 1]
      BY <2>1, <1>5
    <3> QED
      BY <3>1, <2>1, <1>4
  <2>2. CASE k # m
    <3>1. k \in 0 .. m - 1 /\ next[k] = up[k]
      BY <2>2, <1>5
    <3>2. k # 0 => next[k - 1] = up[k - 1]
      BY <2>2, <1>5
    <3> QED
      BY <3>1, <3>2, <1>7
  <2> QED
    BY <2>1, <2>2
<1>9. next = [k \in 0 .. m |-> next[k]]
  OBVIOUS
<1> HIDE DEF next
<1>10. Climbs(table, from, m, next)
  BY <1>8, <1>9 DEF Climbs
<1> QED
  BY <1>3, <1>10

LEMMA UpwardClimbs ==
    ASSUME NEW d, NEW from
    PROVE  /\ Upward(d, from)[0] = from
           /\ \A k \in 1 .. MaxFiles :
                 Upward(d, from)[k] = Parent(dir[d], Upward(d, from)[k - 1])
<1> DEFINE up == Upward(d, from)
<1>0. MaxFiles \in Nat
  BY FsAssumption
<1>1. up = CHOOSE f : Climbs(dir[d], from, MaxFiles, f)
  BY DEF Upward, Climbs, Parent
<1>2. Climbs(dir[d], from, MaxFiles, up)
  BY <1>0, <1>1, ClimbExists
<1> HIDE DEF up
<1>3. \A k \in 0 .. MaxFiles :
         up[k] = IF k = 0 THEN from ELSE Parent(dir[d], up[k - 1])
  BY <1>2 DEF Climbs
<1> QED
  BY <1>0, <1>3 DEF up

(* Each step up from a directory goes to one of lower rank, or to the root; *)
(* there are no more ranks than steps that the code takes.                  *)
LEMMA GrownRooted ==
    ASSUME NEW d \in Disks, Grown(dir[d]), NEW from, IsDirectory(dir[d], from)
    PROVE  Rooted(d, from)
<1> DEFINE up == Upward(d, from)
           count == Cardinality(Dirs(dir[d]))
<1>1. count \in Nat /\ count <= MaxFiles /\ MaxFiles \in Nat
  BY DirsFinite, FsAssumption
<1>2. up[0] = from /\ \A k \in 1 .. MaxFiles : up[k] = Parent(dir[d], up[k - 1])
  BY UpwardClimbs
<1>3. PICK rank \in [Index -> Nat] : Ascending(dir[d], rank)
  BY DEF Grown
<1> HIDE DEF up, count
<1>4. SUFFICES ASSUME \A k \in 0 .. MaxFiles : up[k] # Root PROVE FALSE
  BY DEF Rooted, up
<1> DEFINE Low(k) == /\ up[k] \in DirIds /\ up[k] - 1 \in Dirs(dir[d])
                     /\ rank[up[k] - 1] + k < count
           High == {k \in 0 .. MaxFiles : ~Low(k)}
<1>5. Low(0)
  <2>1. from # Root /\ from = up[0]
    BY <1>1, <1>2, <1>4
  <2>2. from \in DirIds /\ from - 1 \in Dirs(dir[d])
    BY <2>1 DEF IsDirectory
  <2>3. rank[from - 1] < count /\ rank[from - 1] \in Nat
    BY <2>2, <1>3 DEF Ascending, count, Dirs
  <2> QED
    BY <2>1, <2>2, <2>3, <1>1
<1>6. ASSUME NEW k \in 1 .. MaxFiles, Low(k - 1) PROVE Low(k)
  <2> DEFINE id == up[k - 1]
  <2>1. /\ id \in DirIds /\ id - 1 \in Dirs(dir[d]) /\ rank[id - 1] + (k - 1) < count
        /\ id - 1 \in Index
    BY <1>6 DEF Dirs
  <2>2. up[k] = dir[d][id - 1].parent
    BY <1>2, <2>1 DEF Parent, Dirs
  <2>3. up[k] # Root
    BY <1>1, <1>4
  <2>4. IsDirectory(dir[d], up[k])
    BY <2>1, <2>2 DEF Grown, Live, Dirs
  <2>5. up[k] \in DirIds /\ up[k] - 1 \in Dirs(dir[d])
    BY <2>3, <2>4 DEF IsDirectory
  <2>6. rank[up[k] - 1] < rank[id - 1]
    BY <2>1, <2>2, <2>3, <1>3 DEF Ascending
  <2>7. rank[up[k] - 1] \in Nat /\ rank[id - 1] \in Nat
    BY <2>1, <2>5, <1>3 DEF Dirs
  <2> QED
    BY <2>1, <2>5, <2>6, <2>7, <1>1
<1>7. \A k \in 0 .. MaxFiles : k # 0 => k \in 1 .. MaxFiles /\ k - 1 \in 0 .. MaxFiles /\ k - 1 < k
  BY <1>1
<1> HIDE DEF Low
<1>8. High = {}
  <2>1. SUFFICES ASSUME High # {} PROVE FALSE
    OBVIOUS
  <2>2. High \in SUBSET Nat
    BY <1>1
  <2>3. PICK k \in High : \A j \in High : k <= j
    BY <2>1, <2>2, Least
  <2>4. k # 0 /\ k \in 0 .. MaxFiles
    BY <1>5, <2>3
  <2>5. k \in 1 .. MaxFiles /\ k - 1 \in 0 .. MaxFiles /\ ~(k <= k - 1)
    BY <2>4, <1>1
  <2>6. Low(k - 1)
    BY <2>3, <2>5
  <2> QED
    BY <1>6, <2>3, <2>5, <2>6
<1>9. Low(MaxFiles)
  BY <1>1, <1>8
<1>10. rank[up[MaxFiles] - 1] \in Nat /\ rank[up[MaxFiles] - 1] + MaxFiles < count
  BY <1>3, <1>9 DEF Low, Dirs
<1> QED
  BY <1>1, <1>10

LEMMA InitTree == Init => Tree
<1> SUFFICES ASSUME Init PROVE Tree
  OBVIOUS
<1>1. /\ FreeEntry.status # "dir" /\ ~Live(FreeEntry)
      /\ Idle.op # "write" /\ Idle.op # "format"
  BY DEF FreeEntry, Live, Idle
<1>2. ASSUME NEW d \in Disks PROVE Grown(dir[d])
  <2>1. \A i \in Index : dir[d][i] = FreeEntry
    BY DEF Init
  <2>2. Dirs(dir[d]) = {}
    BY <2>1, <1>1 DEF Dirs
  <2>3. [i \in Index |-> 0] \in [Index -> Nat] /\ \A rank : Ascending(dir[d], rank)
    BY <2>2 DEF Ascending
  <2>4. \A i \in Index : ~Live(dir[d][i])
    BY <2>1, <1>1
  <2> QED
    BY <2>3, <2>4 DEF Grown
<1> QED
  BY <1>1, <1>2 DEF Init, Tree, IsDirectory

(* Unless a Format of the disk was interrupted, the way up from the working *)
(* directory and from every file and directory ends at the root within the  *)
(* number of steps that fs_build_current_path takes, under every fault.     *)
THEOREM PathsAlwaysResolve == Spec => []PathsResolve
<1>1. TypeOK /\ Tree => PathsResolve
  <2> SUFFICES ASSUME TypeOK, Tree, NEW d \in Disks, ~cut[d]
               PROVE  /\ d = selected => Rooted(d, cwd)
                      /\ \A i \in Index : Live(dir[d][i]) => Rooted(d, dir[d][i].parent)
    BY DEF PathsResolve
  <2>1. Grown(dir[d])
    BY DEF Tree
  <2>2. d = selected => IsDirectory(dir[d], cwd)
    BY DEF Tree, Here
  <2>3. \A i \in Index : Live(dir[d][i]) => IsDirectory(dir[d], dir[d][i].parent)
    BY <2>1 DEF Grown
  <2> QED
    BY <2>1, <2>2, <2>3, GrownRooted
<1> QED
  BY <1>1, InitTree, StepTree, TypeCorrect, PTL DEF Spec

NewDirs ==
    \A d \in Disks, i \in Index :
        ~cut[d] /\ dir[d][i].status # "dir" /\ dir'[d][i].status = "dir" =>
            \A j \in Index : Live(dir'[d][j]) => dir'[d][j].parent # i + 1

LEMMA StepNewDirs == TypeOK /\ Tree /\ Tree' /\ [Next]_vars => NewDirs
<1> SUFFICES ASSUME TypeOK, Tree, [Next]_vars,
                    NEW d \in Disks, NEW i \in Index, ~cut[d],
                    dir[d][i].status # "dir", dir'[d][i].status = "dir",
                    NEW j \in Index, Live(dir'[d][j])
             PROVE  dir'[d][j].parent # i + 1
  BY DEF NewDirs
<1>1. FreeEntry.status # "dir" /\ selected \in Disks
  BY DEF FreeEntry, TypeOK
<1>2. ~Quiet /\ ~Copied /\ ~Erasing
  BY <1>1 DEF Quiet, Copied, Erasing
<1>3. \A k \in Index : ~FileRemoved(k)
  BY <1>1 DEF FileRemoved, TypeOK
<1>4. ~Committed /\ \A n, c, k, g : ~Reserved(n, c, k, g)
  BY <1>1 DEF Committed, Reserved, TypeOK
<1>5. PICK k \in Index, n \in ValidNames : DirMade(k, n)
  BY <1>2, <1>3, <1>4, StepCases
<1>6. PICK e \in DirEntry : e.parent = cwd /\ dir' = [dir EXCEPT ![selected][k] = e]
  BY <1>5 DEF DirMade
<1>7. /\ d = selected /\ k = i
      /\ dir'[d][j] = IF j = i THEN e ELSE dir[d][j]
  BY <1>1, <1>6 DEF TypeOK
<1>8. IsDirectory(dir[d], dir'[d][j].parent)
  BY <1>6, <1>7 DEF Tree, Grown, Here
<1> QED
  BY <1>8, Constants DEF IsDirectory, Dirs, Index, Root

(* A directory is made empty: no entry names it as its parent at the step   *)
(* that makes it, unless a Format of the disk was interrupted.              *)
THEOREM DirsStartEmpty == Spec => NewDirEmpty
<1>1. TypeOK /\ Tree /\ Tree' /\ [Next]_vars => [NewDirs]_vars
  BY StepNewDirs
<1>2. Spec => [][NewDirs]_vars
  BY <1>1, InitTree, StepTree, TypeCorrect, PTL DEF Spec
<1> QED
  BY <1>2 DEF NewDirEmpty, NewDirs
=============================================================================
