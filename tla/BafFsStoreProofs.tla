--------------------------- MODULE BafFsStoreProofs ---------------------------
(***************************************************************************)
(* BafFs implements FileStore, for any number of disks, any table and data *)
(* area, any names and contents, under write errors and crashes: every     *)
(* step is a step of the abstract store or leaves it as it is.             *)
(***************************************************************************)
EXTENDS BafFsStore, BafFsProofs, FunctionTheorems

Place == ({Root} \cup DirIds) \X ValidNames

-----------------------------------------------------------------------------
(* The abstract state, read off the concrete one.                          *)
LEMMA Replies ==
    /\ Store!None = None /\ Store!Ok = Ok /\ Store!Failed = Failed
    /\ Store!Nothing = Idle /\ Store!Wiping = [op |-> "format"]
    /\ Store!Unused = <<>> /\ Store!Place = Place
BY DEF Store!None, Store!Ok, Store!Failed, Store!Nothing, Store!Wiping, Store!Unused,
       Store!Place, None, Ok, Failed, Idle, Place

LEMMA Pending ==
    /\ call.op = "write" =>
          PendingCall = [op |-> "write", place |-> <<cwd, call.name>>,
                         content |-> call.content]
    /\ call.op = "format" => PendingCall = [op |-> "format"]
    /\ call.op \notin {"write", "format"} => PendingCall = Idle
BY Zenon DEF PendingCall

LEMMA PendingNext ==
    /\ call'.op = "write" =>
          PendingCall' = [op |-> "write", place |-> <<cwd', call'.name>>,
                          content |-> call'.content]
    /\ call'.op = "format" => PendingCall' = [op |-> "format"]
    /\ call'.op \notin {"write", "format"} => PendingCall' = Idle
BY Zenon DEF PendingCall

LEMMA NoCall ==
    /\ Idle.op = "idle"
    /\ call = Idle => PendingCall = Idle
    /\ call' = Idle => PendingCall' = Idle
BY Pending, PendingNext DEF Idle

LEMMA Stored ==
    /\ \A d \in Disks, p \in Place : StoredFiles[d][p] = ValueAt(d, p)
    /\ \A d \in Disks, id \in DirIds : StoredTree[d][id] = DirAt(d, id)
    /\ StoredFiles = [d \in Disks |-> [p \in Place |-> StoredFiles[d][p]]]
    /\ StoredTree = [d \in Disks |-> [id \in DirIds |-> StoredTree[d][id]]]
BY DEF StoredFiles, StoredTree, Place

LEMMA StoredNext ==
    /\ \A d \in Disks, p \in Place : StoredFiles'[d][p] = ValueAt(d, p)'
    /\ \A d \in Disks, id \in DirIds : StoredTree'[d][id] = DirAt(d, id)'
    /\ StoredFiles' = [d \in Disks |-> [p \in Place |-> StoredFiles'[d][p]]]
    /\ StoredTree' = [d \in Disks |-> [id \in DirIds |-> StoredTree'[d][id]]]
BY DEF StoredFiles, StoredTree, Place

LEMMA SameStore ==
    UNCHANGED <<dir, blocks>> => StoredFiles' = StoredFiles /\ StoredTree' = StoredTree
<1> SUFFICES ASSUME UNCHANGED <<dir, blocks>>
             PROVE  StoredFiles' = StoredFiles /\ StoredTree' = StoredTree
  OBVIOUS
<1> QED
  BY DEF StoredFiles, StoredTree, ValueAt, FilesAt, DirAt, Intact

(* The files at a place are at most one, which gives the place its value.  *)
LEMMA FileFields ==
    ASSUME TypeOK, NEW d \in Disks, NEW i \in Index
    PROVE  /\ dir[d][i] \in Entry
           /\ dir[d][i].status = "file" =>
                 /\ <<dir[d][i].parent, dir[d][i].name>> \in Place
                 /\ dir[d][i].content \in Contents /\ dir[d][i].start \in Nat
           /\ dir[d][i].status = "dir" => <<dir[d][i].parent, dir[d][i].name>> \in Place
<1>1. dir[d][i] \in Entry
  BY DEF TypeOK
<1> QED
  BY <1>1, Entries DEF FileEntry, DirEntry, Place

LEMMA ValueOf ==
    ASSUME TypeOK, NamesUnique, NEW d \in Disks, NEW p \in Place, NEW i \in FilesAt(d, p)
    PROVE  /\ FilesAt(d, p) = {i}
           /\ ValueAt(d, p) = IF Intact(d, i) THEN dir[d][i].content ELSE Junk
           /\ ValueAt(d, p) # NoContent
<1>1. ASSUME NEW j \in FilesAt(d, p) PROVE j = i
  BY DEF FilesAt, NamesUnique, Live, Place
<1>2. FilesAt(d, p) = {i}
  BY <1>1
<1>3. ValueAt(d, p) = IF Intact(d, i) THEN dir[d][i].content ELSE Junk
  BY <1>2 DEF ValueAt
<1>4. dir[d][i].content \in Contents
  BY FileFields DEF FilesAt
<1> QED
  BY <1>2, <1>3, <1>4, FsAssumption

LEMMA NoValue ==
    ASSUME NEW d, NEW p, FilesAt(d, p) = {} PROVE ValueAt(d, p) = NoContent
BY DEF ValueAt

LEMMA HereFiles ==
    ASSUME TypeOK, NamesUnique, NEW p \in Place
    PROVE  Store!IsFile(p) <=> FilesAt(selected, p) # {}
<1>1. selected \in Disks
  BY DEF TypeOK
<1>2. Store!IsFile(p) <=> ValueAt(selected, p) # NoContent
  BY <1>1, Stored DEF Store!IsFile
<1> QED
  BY <1>1, <1>2, ValueOf, NoValue

LEMMA HandleOf ==
    ASSUME TypeOK, NEW d \in Disks, NEW id \in DirIds
    PROVE  /\ id - 1 \in Index
           /\ StoredTree[d][id] = IF dir[d][id - 1].status = "dir"
                                     THEN <<dir[d][id - 1].parent, dir[d][id - 1].name>>
                                     ELSE <<>>
           /\ StoredTree[d][id] = <<>> <=> dir[d][id - 1].status # "dir"
<1>1. id - 1 \in Index
  BY Constants
<1>2. StoredTree[d][id] = DirAt(d, id)
  BY Stored
<1> QED
  BY <1>1, <1>2 DEF DirAt

LEMMA HereDirs ==
    ASSUME TypeOK, NEW p \in Place
    PROVE  Store!IsDir(p) <=> \E i \in Index : /\ Here[i].status = "dir"
                                               /\ <<Here[i].parent, Here[i].name>> = p
<1>1. selected \in Disks
  BY DEF TypeOK
<1>2. Store!IsDir(p) <=> \E id \in DirIds : StoredTree[selected][id] = p
  BY DEF Store!IsDir
<1>3. p # <<>>
  BY DEF Place
<1>4. \A i \in Index : i + 1 \in DirIds /\ (i + 1) - 1 = i
  BY Constants
<1>5. ASSUME NEW id \in DirIds, StoredTree[selected][id] = p
      PROVE  /\ id - 1 \in Index /\ Here[id - 1].status = "dir"
             /\ <<Here[id - 1].parent, Here[id - 1].name>> = p
  BY <1>1, <1>3, <1>5, HandleOf DEF Here
<1>6. ASSUME NEW i \in Index, Here[i].status = "dir", <<Here[i].parent, Here[i].name>> = p
      PROVE  i + 1 \in DirIds /\ StoredTree[selected][i + 1] = p
  BY <1>1, <1>4, <1>6, HandleOf DEF Here
<1> QED
  BY <1>2, <1>5, <1>6

-----------------------------------------------------------------------------
(* A table is full for the store exactly if every entry is live: files are *)
(* counted by their places, directories by their handles.                  *)
Used(status) == {i \in Index : Here[i].status = status}

LEMMA SameCount == \A S : Store!Cardinality(S) = Cardinality(S)
BY DEF Store!Cardinality, Cardinality

LEMMA TakenPlaces ==
    ASSUME TypeOK, NamesUnique
    PROVE  ExistsBijection(Used("file"), {p \in Place : Store!IsFile(p)})
<1> DEFINE S == Used("file")
           T == {p \in Place : Store!IsFile(p)}
           f == [i \in S |-> <<Here[i].parent, Here[i].name>>]
<1>1. selected \in Disks
  BY DEF TypeOK
<1>2. ASSUME NEW i \in S PROVE f[i] \in T /\ i \in FilesAt(selected, f[i])
  <2>1. /\ i \in Index /\ Here[i].status = "file"
        /\ f[i] = <<Here[i].parent, Here[i].name>>
    BY DEF Used
  <2> HIDE DEF f
  <2>2. f[i] \in Place
    BY <1>1, <2>1, FileFields DEF Here
  <2>3. i \in FilesAt(selected, f[i])
    BY <2>1 DEF FilesAt, Here
  <2> QED
    BY <2>2, <2>3, HereFiles
<1>3. ASSUME NEW i \in S, NEW j \in S, f[i] = f[j] PROVE i = j
  BY <1>1, <1>2, <1>3, ValueOf
<1>4. ASSUME NEW p \in T PROVE \E i \in S : f[i] = p
  <2>1. PICK i \in FilesAt(selected, p) : TRUE
    BY HereFiles
  <2>2. i \in S /\ f[i] = p
    BY <2>1 DEF FilesAt, Used, Here
  <2> QED
    BY <2>2
<1>5. f \in [S -> T]
  BY <1>2
<1> HIDE DEF f, S, T
<1>6. f \in Bijection(S, T)
  BY <1>3, <1>4, <1>5, Fun_IsBij
<1> QED
  BY <1>6 DEF ExistsBijection, S, T

LEMMA TakenHandles ==
    ASSUME TypeOK
    PROVE  ExistsBijection(Used("dir"), {id \in DirIds : StoredTree[selected][id] # <<>>})
<1> DEFINE S == Used("dir")
           T == {id \in DirIds : StoredTree[selected][id] # <<>>}
           f == [i \in S |-> i + 1]
<1>1. selected \in Disks
  BY DEF TypeOK
<1>2. ASSUME NEW i \in S PROVE f[i] \in T
  <2>1. i \in Index /\ dir[selected][i].status = "dir" /\ i \in Nat
    BY Constants DEF Used, Here
  <2>2. i + 1 \in DirIds /\ (i + 1) - 1 = i
    BY <2>1, Constants
  <2>3. StoredTree[selected][i + 1] # <<>>
    BY <1>1, <2>1, <2>2, HandleOf
  <2> QED
    BY <2>2, <2>3
<1>3. ASSUME NEW i \in S, NEW j \in S, f[i] = f[j] PROVE i = j
  BY <1>3, Constants DEF Used
<1>4. ASSUME NEW id \in T PROVE \E i \in S : f[i] = id
  <2>1. id \in DirIds /\ id - 1 \in Index /\ Here[id - 1].status = "dir"
    BY <1>1, HandleOf DEF Here
  <2>2. id - 1 \in S /\ (id - 1) + 1 = id
    BY <2>1 DEF Used, DirIds
  <2> QED
    BY <2>2
<1>5. f \in [S -> T]
  BY <1>2
<1> HIDE DEF f, S, T
<1>6. f \in Bijection(S, T)
  BY <1>3, <1>4, <1>5, Fun_IsBij
<1> QED
  BY <1>6 DEF ExistsBijection, S, T

LEMMA FullTable ==
    ASSUME TypeOK, NamesUnique
    PROVE  Store!Full <=> \A i \in Index : Live(Here[i])
<1> DEFINE F == Used("file")
           D == Used("dir")
<1>1. IsFiniteSet(Index) /\ Cardinality(Index) = MaxFiles /\ MaxFiles \in Nat
  BY FS_Interval, FsAssumption DEF Index
<1>2. F \in SUBSET Index /\ D \in SUBSET Index /\ F \cap D = {}
  BY DEF Used
<1>3. F \cup D = {i \in Index : Live(Here[i])}
  BY DEF Used, Live
<1>4. Cardinality({p \in Place : Store!IsFile(p)}) = Cardinality(F)
  BY <1>1, <1>2, TakenPlaces, FS_Subset, FS_Bijection
<1>5. Cardinality({id \in DirIds : StoredTree[selected][id] # <<>>}) = Cardinality(D)
  BY <1>1, <1>2, TakenHandles, FS_Subset, FS_Bijection
<1>6. IsFiniteSet(F) /\ IsFiniteSet(D)
  BY <1>1, <1>2, FS_Subset
<1> HIDE DEF F, D
<1>7. Cardinality(F) + Cardinality(D) = Cardinality(F \cup D)
  <2>1. Cardinality(F \cap D) = 0
    BY <1>2, FS_EmptySet
  <2>2. Cardinality(F) \in Nat /\ Cardinality(D) \in Nat
    BY <1>6, FS_CardinalityType
  <2>3. Cardinality(F \cup D) = Cardinality(F) + Cardinality(D) - Cardinality(F \cap D)
    BY <1>6, FS_Union
  <2> QED
    BY <2>1, <2>2, <2>3
<1>8. F \cup D \in SUBSET Index
  BY <1>2
<1>9. Cardinality(F \cup D) >= MaxFiles <=> F \cup D = Index
  <2>1. Cardinality(F \cup D) <= MaxFiles /\ Cardinality(F \cup D) \in Nat
    BY <1>1, <1>8, FS_Subset, FS_CardinalityType
  <2>2. Cardinality(F \cup D) = MaxFiles => F \cup D = Index
    BY <1>1, <1>8, FS_Subset
  <2> QED
    BY <1>1, <2>1, <2>2
<1>10. Store!Full <=> Cardinality(F) + Cardinality(D) >= MaxFiles
  BY <1>4, <1>5, SameCount DEF Store!Full, Store!Place, Store!Unused, Place
<1> QED
  BY <1>3, <1>7, <1>9, <1>10

LEMMA FreeSlot ==
    ASSUME ~ReadFault, TypeOK, NamesUnique, NEW i \in FindFree
    PROVE  i = NotFound <=> Store!Full
<1>1. i # NotFound => i \in Index /\ ~Live(Here[i])
  BY FindFreeIndex
<1>2. ASSUME i = NotFound PROVE \A j \in Index : Live(Here[j])
  <2>1. Index \subseteq Nat /\ i \in FirstOf({j \in Index : ~Live(Here[j])})
    BY Constants DEF FindFree
  <2> QED
    BY <1>2, <2>1 DEF FirstOf, NotFound
<1> QED
  BY <1>1, <1>2, FullTable

-----------------------------------------------------------------------------
(* Calls that leave the disks as they are.                                 *)
LEMMA Still ==
    ASSUME call = Idle, call' = Idle, UNCHANGED media
    PROVE  Store!Idle /\ UNCHANGED Store!Store
BY NoCall, Replies, SameStore DEF Store!Idle, Store!Store, media

LEMMA Refusal == ASSUME call = Idle, Fail PROVE Store!Idle /\ Store!Refuse
BY Still, Replies DEF Fail, ram, Store!Refuse, Store!Reply

LEMMA SelectMaps ==
    ASSUME TypeOK, NEW d \in 0 .. NumDisks, Select(d)
    PROVE  d \in Disks \cup {Store!Cardinality(Disks)} /\ Store!Select(d)
<1>1. Store!Cardinality(Disks) = NumDisks
  BY SameCount, FS_Interval, FsAssumption DEF Disks
<1>2. d \in Disks \cup {Store!Cardinality(Disks)}
  BY <1>1, FsAssumption DEF Disks
<1>3. CASE d \in Disks
  <2>1. Store!Idle /\ UNCHANGED Store!Store
    BY <1>3, Still DEF Select
  <2>2. Store!Select(d)
    BY <1>3, <2>1, Replies DEF Select, Store!Select, Store!Reply
  <2> QED
    BY <1>2, <2>2
<1>4. CASE d \notin Disks
  <2>1. Store!Idle /\ Store!Refuse
    BY <1>4, Refusal DEF Select
  <2>2. Store!Select(d)
    BY <1>4, <2>1 DEF Store!Select
  <2> QED
    BY <1>2, <2>2
<1> QED
  BY <1>3, <1>4

(* A lookup of a file ends at the place the store looks at.                *)
LEMMA FileLookup ==
    ASSUME ~ReadFault, TypeOK, NamesUnique, NEW n, NEW i \in FindChild(n, {"file"})
    PROVE  /\ i # NotFound => /\ n \in ValidNames /\ <<cwd, n>> \in Place
                              /\ i \in FilesAt(selected, <<cwd, n>>)
                              /\ Store!IsFile(<<cwd, n>>)
                              /\ i \in Index
           /\ i = NotFound /\ n \in ValidNames =>
                 /\ <<cwd, n>> \in Place /\ FilesAt(selected, <<cwd, n>>) = {}
                 /\ ~Store!IsFile(<<cwd, n>>)
<1>1. selected \in Disks /\ cwd \in {Root} \cup DirIds
  BY DEF TypeOK
<1>2. n \in ValidNames => <<cwd, n>> \in Place
  BY <1>1 DEF Place
<1>3. ASSUME i # NotFound
      PROVE  i \in Index /\ n \in ValidNames /\ i \in FilesAt(selected, <<cwd, n>>)
  <2>1. i \in Index /\ Here[i].status = "file" /\ Here[i].parent = cwd /\ Here[i].name = n
    BY <1>3, FindChildIndex
  <2>2. <<Here[i].parent, Here[i].name>> \in Place
    BY <1>1, <2>1, FileFields DEF Here
  <2> QED
    BY <2>1, <2>2 DEF Place, FilesAt, Here
<1>4. ASSUME i = NotFound PROVE FilesAt(selected, <<cwd, n>>) = {}
  BY <1>4, Missing DEF FilesAt, Here
<1> QED
  BY <1>2, <1>3, <1>4, HereFiles

LEMMA ValueHere ==
    ASSUME TypeOK, NamesUnique, NEW p \in Place
    PROVE  /\ FilesAt(selected, p) = {} => StoredFiles[selected][p] = NoContent
           /\ \A i \in FilesAt(selected, p) :
                 /\ StoredFiles[selected][p] = IF Intact(selected, i) THEN Here[i].content ELSE Junk
                 /\ Here[i].content \in Contents
<1>1. selected \in Disks
  BY DEF TypeOK
<1> QED
  BY <1>1, Stored, ValueOf, NoValue, FileFields DEF Here, FilesAt

LEMMA LookupMaps ==
    ASSUME ~ReadFault, TypeOK, NamesUnique, NEW n \in FileNames,
           Read(n) \/ Exists(n) \/ SizeCall(n)
    PROVE  /\ Read(n) => Store!Get(n)
           /\ Exists(n) => Store!Exists(n)
           /\ SizeCall(n) => Store!SizeCall(n)
<1> USE Replies DEF ReadFault
<1> DEFINE p == <<cwd, n>>
           v == StoredFiles[selected][p]
<1>1. /\ Store!Idle /\ UNCHANGED Store!Store /\ UNCHANGED <<selected, cwd>>
  <2>1. call = Idle /\ UNCHANGED <<media, ram, cut>>
    BY DEF Read, Exists, SizeCall, OnFile, ReadFile, FileExists, FileSize, Answer, Fail
  <2> QED
    BY <2>1, Still DEF ram
<1>2. Store!Usable(n) <=> super[selected] /\ n \in ValidNames
  BY DEF Store!Usable
<1>3. SizeOf \in [Contents -> Nat]
  BY FsAssumption
<1>4. ASSUME Read(n) PROVE Store!Get(n)
  <2>1. CASE ret' = Failed /\ (~super[selected] \/ NotFound \in FindChild(n, {"file"}))
    <3>1. Store!Usable(n) => v = NoContent
      BY <1>2, <2>1, FileLookup, ValueHere
    <3>2. NoContent \notin Contents
      BY FsAssumption
    <3> QED
      BY <1>1, <2>1, <3>1, <3>2 DEF Store!Get, Store!Reply, Store!Answers
  <2>2. ASSUME super[selected], NEW i \in FindChild(n, {"file"}), i # NotFound, ReadFile(i)
        PROVE  Store!Get(n)
    <3>1. /\ Store!Usable(n) /\ Here[i].content \in Contents
          /\ v = IF Intact(selected, i) THEN Here[i].content ELSE Junk
      BY <1>2, <2>2, FileLookup, ValueHere
    <3>2. Junk \notin Contents /\ ~(SizeOf[Here[i].content] < ReadCapacity
                                    /\ SizeOf[Here[i].content] >= ReadCapacity)
      BY <3>1, FsAssumption
    <3>3. ret' = Store!Answers(v)
      BY <2>2, <3>1, <3>2 DEF Store!Answers, ReadFile, Answer, Fail, Data
    <3> QED
      BY <1>1, <3>1, <3>3 DEF Store!Get, Store!Reply
  <2> QED
    BY <1>4, <2>1, <2>2 DEF Read, OnFile, Fail, Unmounted
<1>5. ASSUME Exists(n) PROVE Store!Exists(n)
  <2>1. CASE ret' = Failed /\ (~super[selected] \/ NotFound \in FindChild(n, {"file"}))
    <3>1. ~(Store!Usable(n) /\ Store!IsFile(p))
      BY <1>2, <2>1, FileLookup
    <3> QED
      BY <1>1, <2>1, <3>1 DEF Store!Exists, Store!Reply
  <2>2. ASSUME super[selected], NEW i \in FindChild(n, {"file"}), i # NotFound, FileExists(i)
        PROVE  Store!Exists(n)
    <3>1. Store!Usable(n) /\ Store!IsFile(p)
      BY <1>2, <2>2, FileLookup
    <3> QED
      BY <1>1, <2>2, <3>1 DEF Store!Exists, Store!Reply, FileExists, Answer
  <2> QED
    BY <1>5, <2>1, <2>2 DEF Exists, OnFile, Fail, Unmounted
<1>6. ASSUME SizeCall(n) PROVE Store!SizeCall(n)
  <2>1. CASE ret' = Size(0) /\ (~super[selected] \/ NotFound \in FindChild(n, {"file"}))
    <3>1. Store!Usable(n) => v = NoContent
      BY <1>2, <2>1, FileLookup, ValueHere
    <3>2. v = NoContent => Store!Lengths(v) = {0}
      BY FsAssumption, Zenon DEF Store!Lengths
    <3>3. 0 \in IF Store!Usable(n) THEN Store!Lengths(v) ELSE {0}
      BY <3>1, <3>2
    <3> QED
      BY <1>1, <2>1, <3>3 DEF Store!SizeCall, Store!Reply, Size
  <2>2. ASSUME super[selected], NEW i \in FindChild(n, {"file"}), i # NotFound, FileSize(i)
        PROVE  Store!SizeCall(n)
    <3> DEFINE c == Here[i].content
    <3>1. /\ Store!Usable(n) /\ c \in Contents
          /\ v = IF Intact(selected, i) THEN c ELSE Junk
      BY <1>2, <2>2, FileLookup, ValueHere
    <3>2. v = Junk => Store!Lengths(v) = {SizeOf[x] : x \in Contents}
      BY FsAssumption, Zenon DEF Store!Lengths
    <3>3. v \in Contents => Store!Lengths(v) = {SizeOf[v]}
      BY FsAssumption, Zenon DEF Store!Lengths
    <3>4. SizeOf[c] \in Store!Lengths(v)
      BY <3>1, <3>2, <3>3
    <3> QED
      BY <1>1, <2>2, <3>1, <3>4 DEF Store!SizeCall, Store!Reply, FileSize, Answer, Size
  <2> QED
    BY <1>6, <2>1, <2>2 DEF SizeCall, OnFile, Answer, Unmounted
<1> QED
  BY <1>4, <1>5, <1>6

-----------------------------------------------------------------------------
(* The working directory.                                                  *)
LEMMA Going ==
    ASSUME call = Idle, NEW id, Goto(id)
    PROVE  Store!Idle /\ Store!Go(id, Store!Ok)
BY Still, Replies DEF Goto, Store!Go, Store!Reply

LEMMA Losing ==
    ASSUME call = Idle, LoseDirectory
    PROVE  Store!Idle /\ Store!Go(Root, Store!Failed)
BY Still, Replies DEF LoseDirectory, Store!Go, Store!Reply

LEMMA HandleMaps ==
    ASSUME ~ReadFault, TypeOK
    PROVE  /\ GotoRoot => Store!GoRoot
           /\ GotoHere => Store!GoHere
           /\ GotoParent => Store!GoParent
<1> USE DEF ReadFault
<1>1. ASSUME GotoRoot PROVE Store!GoRoot
  BY <1>1, Going, Refusal DEF GotoRoot, Unmounted, Store!GoRoot
<1>2. ASSUME GotoHere PROVE Store!GoHere
  BY <1>2, Going, Refusal DEF GotoHere, Unmounted, Store!GoHere
<1>3. ASSUME GotoParent PROVE Store!GoParent
  <2>1. call = Idle /\ selected \in Disks /\ cwd \in {Root} \cup DirIds
    BY <1>3 DEF GotoParent, TypeOK
  <2>2. CASE ~super[selected]
    <3>1. Fail
      BY <1>3, <2>2 DEF GotoParent, Unmounted
    <3> QED
      BY <2>1, <2>2, <3>1, Refusal DEF Store!GoParent
  <2>3. CASE super[selected] /\ cwd = Root
    <3>1. Goto(Root)
      BY <1>3, <2>3 DEF GotoParent, Unmounted
    <3> QED
      BY <2>1, <2>3, <3>1, Going DEF Store!GoParent
  <2>4. CASE super[selected] /\ cwd # Root
    <3> DEFINE e == Here[cwd - 1]
    <3>1. /\ StoredTree[selected][cwd] = IF e.status = "dir" THEN <<e.parent, e.name>> ELSE <<>>
          /\ StoredTree[selected][cwd] = <<>> <=> e.status # "dir"
      BY <2>1, <2>4, HandleOf DEF Here
    <3>2. CASE e.status = "dir"
      <4>1. Goto(e.parent)
        BY <1>3, <2>4, <3>2 DEF GotoParent, Unmounted
      <4>2. StoredTree[selected][cwd][1] = e.parent
        BY <3>1, <3>2
      <4> HIDE DEF e
      <4> QED
        BY <2>1, <2>4, <3>1, <3>2, <4>1, <4>2, Replies, Going DEF Store!GoParent
    <3>3. CASE e.status # "dir"
      <4>1. LoseDirectory
        BY <1>3, <2>4, <3>3 DEF GotoParent, Unmounted
      <4> QED
        BY <2>1, <2>4, <3>1, <3>3, <4>1, Replies, Losing DEF Store!GoParent
    <3> QED
      BY <3>2, <3>3
  <2> QED
    BY <2>2, <2>3, <2>4
<1> QED
  BY <1>1, <1>2, <1>3

LEMMA ChildMaps ==
    ASSUME ~ReadFault, TypeOK, NEW n \in DirNames, GotoChild(n)
    PROVE  Store!GoChild(n)
<1> DEFINE p == <<cwd, n>>
<1>1. call = Idle /\ selected \in Disks /\ cwd \in {Root} \cup DirIds
  BY DEF GotoChild, TypeOK
<1>2. Store!Usable(n) <=> super[selected] /\ n \in ValidNames
  BY DEF Store!Usable
<1>3. CASE ~Store!Usable(n)
  <2>1. Fail
    BY <1>2, <1>3 DEF GotoChild, Unmounted, ReadFault
  <2> QED
    BY <1>1, <1>3, <2>1, Refusal DEF Store!GoChild
<1>4. CASE Store!Usable(n)
  <2>1. p \in Place
    BY <1>1, <1>2, <1>4 DEF Place
  <2>2. PICK i \in FindChild(n, {"dir"}) : IF i = NotFound THEN Fail ELSE Goto(i + 1)
    BY <1>2, <1>4 DEF GotoChild, Unmounted, ReadFault
  <2>3. CASE i = NotFound
    <3>1. ~Store!IsDir(p)
      BY <2>1, <2>2, <2>3, HereDirs, Missing
    <3> QED
      BY <1>1, <2>2, <2>3, <3>1, Refusal DEF Store!GoChild
  <2>4. CASE i # NotFound
    <3>1. i \in Index /\ Here[i].status = "dir" /\ <<Here[i].parent, Here[i].name>> = p
      BY <2>2, <2>4, FindChildIndex
    <3>2. i + 1 \in DirIds /\ (i + 1) - 1 = i
      BY <3>1, Constants
    <3>3. StoredTree[selected][i + 1] = p
      BY <1>1, <3>1, <3>2, HandleOf DEF Here
    <3>4. Store!IsDir(p)
      BY <2>1, <3>1, HereDirs
    <3>5. Store!Idle /\ Store!Go(i + 1, Store!Ok)
      BY <1>1, <2>2, <2>4, Going
    <3> QED
      BY <1>4, <3>2, <3>3, <3>4, <3>5 DEF Store!GoChild
  <2> QED
    BY <2>3, <2>4
<1> QED
  BY <1>3, <1>4

LEMMA CrashMaps == Crash => Store!Crash
BY NoCall, Replies, SameStore DEF Crash, Store!Crash, Store!Store, media

LEMMA StutterMaps == UNCHANGED vars => UNCHANGED Store!vars
<1> SUFFICES ASSUME UNCHANGED vars PROVE UNCHANGED Store!vars
  OBVIOUS
<1>1. PendingCall' = PendingCall
  BY DEF vars, PendingCall
<1> QED
  BY <1>1, SameStore DEF vars, Store!vars

-----------------------------------------------------------------------------
(* The store walks up through sets of handles; the code through one handle *)
(* at a time.  Both walks meet the root or neither does.                   *)
Above(ids) ==
    {StoredTree[selected][x][1] : x \in {y \in ids \cap DirIds : StoredTree[selected][y] # <<>>}}
Levels(from, up) ==
    up = [k \in 0 .. MaxFiles |-> IF k = 0 THEN {from} ELSE Above(up[k - 1])]

LEMMA AboveOne ==
    ASSUME TypeOK, NEW id
    PROVE  /\ Parent(Here, id) = NotFound => Above({id}) = {}
           /\ Parent(Here, id) # NotFound => Above({id}) = {Parent(Here, id)}
           /\ Above({}) = {}
           /\ Parent(Here, NotFound) = NotFound
<1>1. selected \in Disks /\ NotFound \notin DirIds
  BY DEF TypeOK, DirIds, NotFound
<1>2. Above({}) = {} /\ Parent(Here, NotFound) = NotFound
  BY <1>1 DEF Above, Parent
<1>3. CASE id \in DirIds /\ Here[id - 1].status = "dir"
  <2>1. /\ StoredTree[selected][id] # <<>>
        /\ StoredTree[selected][id] = <<Here[id - 1].parent, Here[id - 1].name>>
    BY <1>1, <1>3, HandleOf DEF Here
  <2>2. Here[id - 1] \in Entry
    BY <1>1, <1>3, Constants DEF TypeOK, Here
  <2>3. Here[id - 1].parent # NotFound
    BY <2>2, Entries DEF DirIds, NotFound, Root
  <2>4. Parent(Here, id) = Here[id - 1].parent
    BY <1>3 DEF Parent
  <2>5. {y \in {id} \cap DirIds : StoredTree[selected][y] # <<>>} = {id}
    BY <1>3, <2>1
  <2>6. Above({id}) = {Here[id - 1].parent}
    BY <2>1, <2>5 DEF Above
  <2> QED
    BY <1>2, <2>3, <2>4, <2>6
<1>4. CASE ~(id \in DirIds /\ Here[id - 1].status = "dir")
  <2>1. id \in DirIds => StoredTree[selected][id] = <<>>
    BY <1>1, <1>4, HandleOf DEF Here
  <2>2. {y \in {id} \cap DirIds : StoredTree[selected][y] # <<>>} = {}
    BY <2>1
  <2>3. Above({id}) = {} /\ Parent(Here, id) = NotFound
    BY <1>4, <2>2 DEF Above, Parent
  <2> QED
    BY <1>2, <2>3
<1> QED
  BY <1>3, <1>4

LEMMA ConnectedIsRooted ==
    ASSUME TypeOK, NEW id \in {Root} \cup DirIds
    PROVE  Store!Connected(id) <=> Rooted(selected, id)
<1> DEFINE u == Upward(selected, id)
           g == [k \in 0 .. MaxFiles |-> IF u[k] = NotFound THEN {} ELSE {u[k]}]
           up == CHOOSE f : Levels(id, f)
<1>0. MaxFiles \in Nat /\ id # NotFound
  BY FsAssumption DEF Root, DirIds, NotFound
<1>1. u[0] = id /\ \A k \in 1 .. MaxFiles : u[k] = Parent(Here, u[k - 1])
  BY UpwardClimbs DEF Here
<1>2. Store!Connected(id) <=> \E k \in 0 .. MaxFiles : Root \in up[k]
  BY DEF Store!Connected, Store!Unused, Levels, Above
<1>3. Rooted(selected, id) <=> \E k \in 0 .. MaxFiles : u[k] = Root
  BY DEF Rooted
<1> HIDE DEF u
<1>4. \A k \in 0 .. MaxFiles : g[k] = IF u[k] = NotFound THEN {} ELSE {u[k]}
  OBVIOUS
<1>5. \A k \in 0 .. MaxFiles : k # 0 => k \in 1 .. MaxFiles /\ k - 1 \in 0 .. MaxFiles
  BY <1>0
<1> HIDE DEF g
<1>6. ASSUME NEW k \in 0 .. MaxFiles
      PROVE  g[k] = IF k = 0 THEN {id} ELSE Above(g[k - 1])
  <2>1. CASE k = 0
    BY <1>0, <1>1, <1>4, <2>1
  <2>2. CASE k # 0
    <3>1. u[k] = Parent(Here, u[k - 1]) /\ k - 1 \in 0 .. MaxFiles
      BY <1>1, <1>5, <2>2
    <3>2. g[k - 1] = IF u[k - 1] = NotFound THEN {} ELSE {u[k - 1]}
      BY <1>4, <3>1
    <3> QED
      BY <1>4, <2>2, <3>1, <3>2, AboveOne
  <2> QED
    BY <2>1, <2>2
<1>7. Levels(id, g)
  <2>1. g = [k \in 0 .. MaxFiles |-> g[k]]
    BY DEF g
  <2> QED
    BY <1>6, <2>1 DEF Levels
<1>8. Levels(id, up)
  BY <1>7
<1> HIDE DEF up
<1>9. \A k \in 0 .. MaxFiles : up[k] = IF k = 0 THEN {id} ELSE Above(up[k - 1])
  BY <1>8 DEF Levels
<1> DEFINE Apart == {k \in 0 .. MaxFiles : up[k] # g[k]}
<1>10. Apart = {}
  <2>1. SUFFICES ASSUME Apart # {} PROVE FALSE
    OBVIOUS
  <2>2. Apart \in SUBSET Nat
    BY <1>0
  <2>3. PICK k \in Apart : \A j \in Apart : k <= j
    BY <2>1, <2>2, Least
  <2>4. k # 0 /\ k \in 0 .. MaxFiles
    BY <1>6, <1>9, <2>3
  <2>5. k - 1 \in 0 .. MaxFiles /\ ~(k <= k - 1)
    BY <1>0, <2>4
  <2>6. up[k - 1] = g[k - 1]
    BY <2>3, <2>5
  <2> QED
    BY <1>6, <1>9, <2>3, <2>4, <2>6
<1>11. ASSUME NEW k \in 0 .. MaxFiles PROVE Root \in up[k] <=> u[k] = Root
  <2>1. up[k] = IF u[k] = NotFound THEN {} ELSE {u[k]}
    BY <1>4, <1>10
  <2>2. Root # NotFound
    BY DEF Root, NotFound
  <2>3. CASE u[k] = NotFound
    BY <2>1, <2>2, <2>3
  <2>4. CASE u[k] # NotFound
    BY <2>1, <2>4
  <2> QED
    BY <2>3, <2>4
<1> QED
  BY <1>2, <1>3, <1>11

LEMMA PathMaps == ASSUME ~ReadFault, TypeOK, GetDir PROVE Store!PathQuery
<1>1. call = Idle /\ cwd \in {Root} \cup DirIds
  BY DEF GetDir, TypeOK
<1>2. CASE ~super[selected]
  <2>1. Fail
    BY <1>2 DEF GetDir, Unmounted
  <2> QED
    BY <1>1, <1>2, <2>1, Refusal DEF Store!PathQuery
<1>3. CASE super[selected] /\ Rooted(selected, cwd)
  <2>1. Goto(cwd)
    BY <1>3 DEF GetDir, Unmounted, ReadFault
  <2> QED
    BY <1>1, <1>3, <2>1, ConnectedIsRooted, Going DEF Store!PathQuery
<1>4. CASE super[selected] /\ ~Rooted(selected, cwd)
  <2>1. LoseDirectory
    BY <1>4 DEF GetDir, Unmounted, ReadFault
  <2> QED
    BY <1>1, <1>4, <2>1, ConnectedIsRooted, Losing DEF Store!PathQuery
<1> QED
  BY <1>2, <1>3, <1>4

-----------------------------------------------------------------------------
(* What a change of the entries, or of a sector, does to the places.       *)
LEMMA ValueStays ==
    ASSUME NEW d, NEW p, FilesAt(d, p)' = FilesAt(d, p),
           \A i \in FilesAt(d, p) : /\ dir'[d][i].content = dir[d][i].content
                                    /\ Intact(d, i)' <=> Intact(d, i)
    PROVE  ValueAt(d, p)' = ValueAt(d, p)
<1>1. CASE FilesAt(d, p) = {}
  BY <1>1 DEF ValueAt
<1>2. CASE FilesAt(d, p) # {}
  <2>1. PICK i \in FilesAt(d, p) : i = CHOOSE j \in FilesAt(d, p) : TRUE
    BY <1>2
  <2>2. ValueAt(d, p) = IF Intact(d, i) THEN dir[d][i].content ELSE Junk
    BY <1>2, <2>1 DEF ValueAt
  <2>3. i = CHOOSE j \in FilesAt(d, p)' : TRUE
    BY <2>1, Zenon
  <2>4. ValueAt(d, p)' = IF Intact(d, i)' THEN dir'[d][i].content ELSE Junk
    BY <1>2, <2>3 DEF ValueAt
  <2>5. dir'[d][i].content = dir[d][i].content /\ (Intact(d, i)' <=> Intact(d, i))
    OBVIOUS
  <2>6. CASE Intact(d, i)
    BY <2>2, <2>4, <2>5, <2>6
  <2>7. CASE ~Intact(d, i)
    BY <2>2, <2>4, <2>5, <2>7
  <2> QED
    BY <2>6, <2>7
<1> QED
  BY <1>1, <1>2

LEMMA Assigned ==
    ASSUME NEW d \in Disks, NEW p \in Place, NEW v,
           \A e \in Disks, q \in Place :
               ValueAt(e, q)' = IF e = d /\ q = p THEN v ELSE ValueAt(e, q)
    PROVE  StoredFiles' = [StoredFiles EXCEPT ![d][p] = v]
<1>1. StoredFiles' = [e \in Disks |-> [q \in Place |->
                        IF e = d /\ q = p THEN v ELSE ValueAt(e, q)]]
  BY DEF StoredFiles, Place
<1>2. StoredFiles = [e \in Disks |-> [q \in Place |-> ValueAt(e, q)]]
  BY DEF StoredFiles, Place
<1> QED
  BY <1>1, <1>2

LEMMA EntryChanged ==
    ASSUME TypeOK, NEW i \in Index, NEW e, blocks' = blocks,
           dir' = [dir EXCEPT ![selected][i] = e]
    PROVE  /\ \A d \in Disks, j \in Index :
                  dir'[d][j] = IF d = selected /\ j = i THEN e ELSE dir[d][j]
           /\ \A d \in Disks, p \in Place :
                 (d = selected => i \notin FilesAt(d, p) \cup FilesAt(d, p)')
                 => ValueAt(d, p)' = ValueAt(d, p)
<1>1. \A d \in Disks, j \in Index :
         dir'[d][j] = IF d = selected /\ j = i THEN e ELSE dir[d][j]
  BY DEF TypeOK
<1>2. SUFFICES ASSUME NEW d \in Disks, NEW p \in Place,
                      d = selected => i \notin FilesAt(d, p) \cup FilesAt(d, p)'
               PROVE  ValueAt(d, p)' = ValueAt(d, p)
  BY <1>1
<1>3. ASSUME NEW j \in Index, d # selected \/ j # i PROVE dir'[d][j] = dir[d][j]
  BY <1>1, <1>3
<1>4. FilesAt(d, p)' = FilesAt(d, p)
  <2>1. ASSUME NEW j \in Index PROVE j \in FilesAt(d, p)' <=> j \in FilesAt(d, p)
    BY <1>2, <1>3 DEF FilesAt
  <2> QED
    BY <2>1 DEF FilesAt
<1>5. ASSUME NEW j \in FilesAt(d, p) PROVE dir'[d][j] = dir[d][j]
  <2>1. j \in Index
    BY DEF FilesAt
  <2> QED
    BY <1>2, <1>3, <2>1
<1>6. \A j \in FilesAt(d, p) : Intact(d, j)' <=> Intact(d, j)
  BY <1>5 DEF Intact
<1> QED
  BY <1>4, <1>5, <1>6, ValueStays

(* A change of an entry that makes and takes no directory.                 *)
LEMMA HandlesStay ==
    ASSUME \A d \in Disks, i \in Index :
               \/ dir'[d][i] = dir[d][i]
               \/ dir[d][i].status # "dir" /\ dir'[d][i].status # "dir"
    PROVE  StoredTree' = StoredTree
<1>1. ASSUME NEW d \in Disks, NEW id \in DirIds PROVE DirAt(d, id)' = DirAt(d, id)
  BY Constants DEF DirAt
<1> QED
  BY <1>1, Stored, StoredNext

-----------------------------------------------------------------------------
(* CreateDir and Rem.                                                      *)
LEMMA Outcomes ==
    ASSUME NEW i \in Index, NEW e, WriteEntry(i, e)
    PROVE  \/ dir' = [dir EXCEPT ![selected][i] = e] /\ ret' = Ok
           \/ /\ "write" \in Faults /\ ret' = Failed
              /\ dir' = dir \/ dir' = [dir EXCEPT ![selected][i] = e]
BY DEF WriteEntry, SectorWrite

LEMMA DirMapped ==
    ASSUME TypeOK, NEW i \in Index, ~Live(Here[i]), NEW n \in ValidNames,
           NEW e \in DirEntry, e.parent = cwd, e.name = n,
           blocks' = blocks, dir' = [dir EXCEPT ![selected][i] = e]
    PROVE  /\ StoredFiles' = StoredFiles
           /\ StoredTree' = [StoredTree EXCEPT ![selected][i + 1] = <<cwd, n>>]
<1>1. /\ selected \in Disks /\ dir[selected][i].status \notin {"file", "dir"} /\ e.status = "dir"
      /\ i + 1 \in DirIds /\ (i + 1) - 1 = i
  BY Constants DEF TypeOK, Live, Here, DirEntry
<1>2. /\ \A d \in Disks, j \in Index :
            dir'[d][j] = IF d = selected /\ j = i THEN e ELSE dir[d][j]
      /\ \A d \in Disks, p \in Place :
            (d = selected => i \notin FilesAt(d, p) \cup FilesAt(d, p)')
            => ValueAt(d, p)' = ValueAt(d, p)
  BY EntryChanged
<1>3. ASSUME NEW d \in Disks, NEW p \in Place PROVE ValueAt(d, p)' = ValueAt(d, p)
  <2>1. d = selected => i \notin FilesAt(d, p)
    BY <1>1 DEF FilesAt
  <2>2. d = selected => i \notin FilesAt(d, p)'
    BY <1>1, <1>2 DEF FilesAt
  <2> QED
    BY <1>2, <2>1, <2>2
<1>4. StoredFiles' = StoredFiles
  BY <1>3, Stored, StoredNext
<1>5. ASSUME NEW d \in Disks, NEW id \in DirIds
      PROVE  DirAt(d, id)' = IF d = selected /\ id = i + 1 THEN <<cwd, n>> ELSE DirAt(d, id)
  <2>1. id - 1 \in Index /\ (id - 1 = i <=> id = i + 1)
    BY Constants DEF Index, DirIds
  <2> QED
    BY <1>1, <1>2, <2>1 DEF DirAt
<1>6. StoredTree' = [d \in Disks |-> [id \in DirIds |->
                       IF d = selected /\ id = i + 1 THEN <<cwd, n>> ELSE DirAt(d, id)]]
  BY <1>5 DEF StoredTree
<1>7. StoredTree = [d \in Disks |-> [id \in DirIds |-> DirAt(d, id)]]
  BY DEF StoredTree
<1> QED
  BY <1>1, <1>4, <1>6, <1>7

LEMMA MakeDirMaps ==
    ASSUME ~ReadFault, TypeOK, NamesUnique, NEW n \in DirNames, CreateDir(n)
    PROVE  Store!MakeDir(n)
<1> DEFINE p == <<cwd, n>>
           e == [FreeEntry EXCEPT !.status = "dir", !.parent = cwd, !.name = n]
<1>1. call = Idle /\ selected \in Disks /\ cwd \in {Root} \cup DirIds
  BY DEF CreateDir, TypeOK
<1>2. Store!Usable(n) <=> super[selected] /\ n \in ValidNames
  BY DEF Store!Usable
<1>3. CASE ~Store!Usable(n)
  <2>1. Fail
    BY <1>2, <1>3 DEF CreateDir, Unmounted, ReadFault
  <2> QED
    BY <1>1, <1>3, <2>1, Refusal DEF Store!MakeDir
<1>4. CASE Store!Usable(n)
  <2>1. p \in Place /\ n \in ValidNames
    BY <1>1, <1>2, <1>4 DEF Place
  <2>2. PICK found \in FindChild(n, {"file", "dir"}), i \in FindFree :
           IF found # NotFound \/ i = NotFound
              THEN Fail
              ELSE WriteEntry(i, e) /\ UNCHANGED <<super, blocks, ram, cut>>
    BY <1>2, <1>4 DEF CreateDir, Unmounted, ReadFault
  <2>3. found # NotFound => Store!IsFile(p) \/ Store!IsDir(p)
    <3> SUFFICES ASSUME found # NotFound PROVE Store!IsFile(p) \/ Store!IsDir(p)
      OBVIOUS
    <3>1. /\ found \in Index /\ Here[found].status \in {"file", "dir"}
          /\ <<Here[found].parent, Here[found].name>> = p
      BY <2>2, FindChildIndex
    <3>2. Here[found].status = "file" => found \in FilesAt(selected, p)
      BY <3>1 DEF FilesAt, Here
    <3> QED
      BY <2>1, <3>1, <3>2, HereFiles, HereDirs
  <2>4. found = NotFound => ~Store!IsFile(p) /\ ~Store!IsDir(p)
    <3> SUFFICES ASSUME found = NotFound PROVE ~Store!IsFile(p) /\ ~Store!IsDir(p)
      OBVIOUS
    <3>1. \A j \in Index : ~(/\ Here[j].status \in {"file", "dir"}
                             /\ Here[j].parent = cwd /\ Here[j].name = n)
      BY <2>2, Missing
    <3>2. FilesAt(selected, p) = {}
      BY <3>1 DEF FilesAt, Here
    <3> QED
      BY <2>1, <3>1, <3>2, HereFiles, HereDirs
  <2>5. i = NotFound <=> Store!Full
    BY <2>2, FreeSlot
  <2>6. CASE found # NotFound \/ i = NotFound
    BY <1>1, <2>2, <2>3, <2>5, <2>6, Refusal DEF Store!MakeDir
  <2>7. CASE found = NotFound /\ i # NotFound
    <3>1. /\ WriteEntry(i, e) /\ UNCHANGED <<super, blocks, ram, cut>>
          /\ i \in Index /\ ~Live(Here[i])
      BY <2>2, <2>7, FindFreeIndex
    <3>2. e \in DirEntry /\ e.parent = cwd /\ e.name = n
      BY <1>1, <2>1 DEF FreeEntry, DirEntry
    <3> HIDE DEF e
    <3>3. i + 1 \in DirIds /\ StoredTree[selected][i + 1] = <<>>
      <4>1. i + 1 \in DirIds /\ (i + 1) - 1 = i
        BY <3>1, Constants
      <4> QED
        BY <1>1, <3>1, <4>1, HandleOf DEF Here, Live
    <3>4. CASE dir' = [dir EXCEPT ![selected][i] = e]
      <4>1. /\ StoredFiles' = StoredFiles
            /\ StoredTree' = [StoredTree EXCEPT ![selected][i + 1] = p]
        BY <2>1, <3>1, <3>2, <3>4, DirMapped
      <4>2. ret' = Ok \/ ("write" \in Faults /\ ret' = Failed)
        BY <3>1, Outcomes
      <4>3. Store!Outcome(StoredTree' = [StoredTree EXCEPT ![selected][i + 1] = p],
                          UNCHANGED StoredTree)
        BY <4>1, <4>2, Replies DEF Store!Outcome, Store!Reply
      <4>4. /\ Store!Idle /\ UNCHANGED <<super, StoredFiles, selected, cwd>>
        BY <1>1, <3>1, <4>1, NoCall, Replies DEF Store!Idle, ram
      <4> QED
        BY <1>4, <2>4, <2>5, <2>7, <3>3, <4>3, <4>4, Replies DEF Store!MakeDir
    <3>5. CASE dir' # [dir EXCEPT ![selected][i] = e]
      <4>1. dir' = dir /\ "write" \in Faults /\ ret' = Failed
        BY <3>1, <3>5, Outcomes
      <4>2. StoredFiles' = StoredFiles /\ StoredTree' = StoredTree
        BY <3>1, <4>1, SameStore
      <4>3. Store!Outcome(StoredTree' = [StoredTree EXCEPT ![selected][i + 1] = p],
                          UNCHANGED StoredTree)
        BY <4>1, <4>2, Replies DEF Store!Outcome, Store!Reply
      <4>4. /\ Store!Idle /\ UNCHANGED <<super, StoredFiles, selected, cwd>>
        BY <1>1, <3>1, <4>2, NoCall, Replies DEF Store!Idle, ram
      <4> QED
        BY <1>4, <2>4, <2>5, <2>7, <3>3, <4>3, <4>4, Replies DEF Store!MakeDir
    <3> QED
      BY <3>4, <3>5
  <2> QED
    BY <2>6, <2>7
<1> QED
  BY <1>3, <1>4

LEMMA FileGone ==
    ASSUME TypeOK, NamesUnique, NEW p \in Place, NEW i \in FilesAt(selected, p),
           blocks' = blocks, dir' = [dir EXCEPT ![selected][i] = FreeEntry]
    PROVE  /\ StoredFiles' = [StoredFiles EXCEPT ![selected][p] = NoContent]
           /\ StoredTree' = StoredTree
<1>1. /\ selected \in Disks /\ i \in Index /\ dir[selected][i].status = "file"
      /\ <<dir[selected][i].parent, dir[selected][i].name>> = p
      /\ FreeEntry.status = "free"
  BY DEF TypeOK, FilesAt, FreeEntry
<1>2. /\ \A d \in Disks, j \in Index :
            dir'[d][j] = IF d = selected /\ j = i THEN FreeEntry ELSE dir[d][j]
      /\ \A d \in Disks, q \in Place :
            (d = selected => i \notin FilesAt(d, q) \cup FilesAt(d, q)')
            => ValueAt(d, q)' = ValueAt(d, q)
  BY <1>1, EntryChanged
<1>3. ASSUME NEW d \in Disks, NEW q \in Place
      PROVE  ValueAt(d, q)' = IF d = selected /\ q = p THEN NoContent ELSE ValueAt(d, q)
  <2>1. CASE d = selected /\ q = p
    <3>1. FilesAt(d, q) = {i}
      BY <2>1, ValueOf
    <3>2. FilesAt(d, q)' = {}
      <4>1. ASSUME NEW j \in Index PROVE j \notin FilesAt(d, q)'
        <5>1. j # i => j \notin FilesAt(d, q)
          BY <3>1
        <5> QED
          BY <1>1, <1>2, <2>1, <5>1 DEF FilesAt
      <4> QED
        BY <4>1 DEF FilesAt
    <3> QED
      BY <2>1, <3>2 DEF ValueAt
  <2>2. CASE ~(d = selected /\ q = p)
    <3>1. d = selected => i \notin FilesAt(d, q)
      BY <1>1, <2>2 DEF FilesAt
    <3>2. d = selected => i \notin FilesAt(d, q)'
      BY <1>1, <1>2 DEF FilesAt
    <3> QED
      BY <1>2, <2>2, <3>1, <3>2
  <2> QED
    BY <2>1, <2>2
<1>4. StoredFiles' = [StoredFiles EXCEPT ![selected][p] = NoContent]
  BY <1>1, <1>3, Assigned
<1>5. StoredTree' = StoredTree
  BY <1>1, <1>2, HandlesStay
<1> QED
  BY <1>4, <1>5

LEMMA DeleteMaps ==
    ASSUME ~ReadFault, TypeOK, NamesUnique, NEW n \in FileNames, Remove(n)
    PROVE  Store!Delete(n)
<1> DEFINE p == <<cwd, n>>
<1>1. call = Idle
  BY DEF Remove, OnFile
<1>2. Store!Usable(n) <=> super[selected] /\ n \in ValidNames
  BY DEF Store!Usable
<1>3. CASE Fail /\ (~super[selected] \/ NotFound \in FindChild(n, {"file"}))
  <2>1. ~(Store!Usable(n) /\ Store!IsFile(p))
    BY <1>2, <1>3, FileLookup
  <2> QED
    BY <1>1, <1>3, <2>1, Refusal DEF Store!Delete
<1>4. ASSUME super[selected], NEW i \in FindChild(n, {"file"}), i # NotFound, RemoveFile(i)
      PROVE  Store!Delete(n)
  <2>1. /\ Store!Usable(n) /\ p \in Place /\ i \in FilesAt(selected, p) /\ i \in Index
        /\ Store!IsFile(p)
    BY <1>2, <1>4, FileLookup
  <2>2. WriteEntry(i, FreeEntry) /\ UNCHANGED <<super, blocks, ram, cut>>
    BY <1>4 DEF RemoveFile
  <2>3. Store!Idle /\ UNCHANGED <<super, selected, cwd>>
    BY <1>1, <2>2, NoCall, Replies DEF Store!Idle, ram
  <2>4. CASE dir' = [dir EXCEPT ![selected][i] = FreeEntry]
    <3>1. /\ StoredFiles' = [StoredFiles EXCEPT ![selected][p] = NoContent]
          /\ StoredTree' = StoredTree
      BY <2>1, <2>2, <2>4, FileGone
    <3>2. ret' = Ok \/ ("write" \in Faults /\ ret' = Failed)
      BY <2>1, <2>2, Outcomes
    <3>3. Store!Outcome(Store!Assign(p, NoContent), UNCHANGED StoredFiles)
      BY <3>1, <3>2, Replies DEF Store!Outcome, Store!Reply, Store!Assign
    <3> QED
      BY <2>1, <2>3, <3>1, <3>3 DEF Store!Delete
  <2>5. CASE dir' # [dir EXCEPT ![selected][i] = FreeEntry]
    <3>1. dir' = dir /\ "write" \in Faults /\ ret' = Failed
      BY <2>1, <2>2, <2>5, Outcomes
    <3>2. StoredFiles' = StoredFiles /\ StoredTree' = StoredTree
      BY <2>2, <3>1, SameStore
    <3>3. Store!Outcome(Store!Assign(p, NoContent), UNCHANGED StoredFiles)
      BY <3>1, <3>2, Replies DEF Store!Outcome, Store!Reply
    <3> QED
      BY <2>1, <2>3, <3>2, <3>3 DEF Store!Delete
  <2> QED
    BY <2>4, <2>5
<1> QED
  BY <1>3, <1>4 DEF Remove, OnFile, Unmounted, ReadFault

-----------------------------------------------------------------------------
(* Write.  The entry that a Write is about to commit is free or holds the  *)
(* file that it replaces.                                                  *)
Target ==
    call.op = "write" =>
        ~Live(Here[call.index]) \/ call.index \in FilesAt(selected, <<cwd, call.name>>)

LEMMA StepTarget == TypeOK /\ Target /\ [Next]_vars => Target'
<1> SUFFICES ASSUME TypeOK, Target, [Next]_vars PROVE Target'
  OBVIOUS
<1>0. Idle.op # "write"
  BY DEF Idle
<1>1. CASE Quiet
  BY <1>0, <1>1 DEF Quiet, Target, Here, FilesAt
<1>2. ASSUME NEW i \in Index, NEW n \in ValidNames, DirMade(i, n) PROVE Target'
  BY <1>0, <1>2 DEF DirMade, Target
<1>3. ASSUME NEW i \in Index, FileRemoved(i) PROVE Target'
  BY <1>0, <1>3 DEF FileRemoved, Target
<1>4. CASE Erasing
  BY <1>4 DEF Erasing, Target
<1>5. ASSUME NEW n \in ValidNames, NEW c \in Contents, NEW i \in Index,
             NEW g \in Index \cup {NotFound}, Reserved(n, c, i, g)
      PROVE  Target'
  BY <1>5 DEF Reserved, Target, Here, FilesAt
<1>6. CASE Copied
  <2>1. call' = Idle \/ (call'.index = call.index /\ call'.name = call.name /\ call.op = "write")
    BY <1>6 DEF Copied, WriteCall
  <2> QED
    BY <1>0, <1>6, <2>1 DEF Copied, Target, Here, FilesAt
<1>7. CASE Committed
  BY <1>0, <1>7 DEF Committed, Target
<1> QED
  BY <1>1, <1>2, <1>3, <1>4, <1>5, <1>6, <1>7, StepCases

LEMMA SomeSize == ASSUME NEW c \in Contents, SizeOf[c] = 0 PROVE SectorCount(c) = 0
<1>1. SectorSize \in Nat \ {0}
  BY FsAssumption
<1>2. (SectorSize - 1) \div SectorSize = 0
  BY <1>1
<1>3. 0 + SectorSize - 1 = SectorSize - 1
  BY <1>1
<1> QED
  BY <1>2, <1>3 DEF SectorCount

(* A content that is no longer takes no more sectors, and the extent it    *)
(* replaces is not in its way.                                             *)
LEMMA NoMoreSectors ==
    ASSUME NEW c \in Contents, NEW e \in Contents, SizeOf[c] <= SizeOf[e]
    PROVE  SectorCount(c) <= SectorCount(e)
<1> DEFINE x == SizeOf[c] + SectorSize - 1
           y == SizeOf[e] + SectorSize - 1
<1>1. SectorSize \in Nat \ {0} /\ x \in Nat /\ y \in Nat /\ x <= y
  BY FsAssumption
<1> HIDE DEF x, y
<1>2. x \div SectorSize <= y \div SectorSize
  BY <1>1
<1> QED
  BY <1>2 DEF SectorCount, x, y

LEMMA RoomInPlace ==
    ASSUME ~ReadFault, TypeOK, ExtentsDisjoint, NEW c \in Contents, NEW i \in Index,
           Here[i].status = "file", SizeOf[c] <= SizeOf[Here[i].content]
    PROVE  NoSpace \notin Allocate(c, i)
<1> DEFINE e == Here[i].content
           s == Here[i].start
<1>1. /\ selected \in Disks /\ DiskSectors[selected] \in Nat /\ DataLba \in Nat
      /\ e \in Contents /\ s \in Nat
  BY FileFields, Constants DEF TypeOK, Here
<1>2. /\ SectorCount(c) \in Nat /\ SectorCount(e) \in Nat
      /\ SectorCount(c) <= SectorCount(e)
  BY <1>1, NoMoreSectors, SectorCountNat
<1>3. CASE SectorCount(c) = 0
  BY <1>1, <1>3 DEF Allocate, NoSpace
<1>4. CASE SectorCount(c) # 0
  <2>1. Sectors(s, c) \subseteq Extent(Here[i])
    BY <1>1, <1>2 DEF Extent, Sectors
  <2>2. Extent(Here[i]) \subseteq DataSectors(selected)
    BY <1>1 DEF ExtentsDisjoint, Here
  <2>3. s \in Sectors(s, c) /\ s + SectorCount(c) - 1 \in Sectors(s, c)
    BY <1>1, <1>2, <1>4 DEF Sectors
  <2>4. s \in DataLba .. DiskSectors[selected] /\ s + SectorCount(c) <= DiskSectors[selected]
    BY <1>1, <1>2, <2>1, <2>2, <2>3 DEF DataSectors
  <2>5. \A j \in Index \ {i} : Extent(Here[j]) \cap Sectors(s, c) = {}
    BY <1>1, <2>1 DEF ExtentsDisjoint, Here
  <2>6. Fits(s, c, i)
    BY <2>4, <2>5 DEF Fits
  <2> QED
    BY <1>1, <1>4, <2>4, <2>6 DEF Allocate, NoSpace
<1> QED
  BY <1>3, <1>4

LEMMA PutBeginMaps ==
    ASSUME ~ReadFault, TypeOK, NamesUnique, ExtentsDisjoint, NEW n \in FileNames, NEW c \in Contents,
           WriteBegin(n, c)
    PROVE  Store!PutBegin(n, c)
<1> DEFINE p == <<cwd, n>>
<1>1. call = Idle /\ selected \in Disks /\ cwd \in {Root} \cup DirIds
  BY DEF WriteBegin, TypeOK
<1>2. Store!Usable(n) <=> super[selected] /\ n \in ValidNames
  BY DEF Store!Usable
<1>3. ASSUME Fail,
             ~Store!Usable(n) \/ Store!Cramped(p, c) \/ Store!IsDir(p) \/ (~Store!IsFile(p) /\ Store!Full)
      PROVE  Store!PutBegin(n, c)
  <2>1. Store!Idle /\ Store!Refuse
    BY <1>1, <1>3, Refusal
  <2> QED
    BY <1>3, <2>1 DEF Store!PutBegin, Store!Idle
<1>4. ASSUME NEW i, NEW g, Reserve(n, c, i, g),
             Store!Usable(n), ~Store!IsDir(p), Store!IsFile(p) \/ ~Store!Full,
             NoSpace \in Allocate(c, g) /\ StoredFiles[selected][p] \in Contents =>
                 SizeOf[c] > SizeOf[StoredFiles[selected][p]]
      PROVE  Store!PutBegin(n, c)
  <2>1. PICK start \in Allocate(c, g) :
           IF start = NoSpace
              THEN Fail
              ELSE /\ call' = [op |-> "write", index |-> i, name |-> n,
                               content |-> c, start |-> start, done |-> 0]
                   /\ UNCHANGED <<media, selected, cwd, ret, cut>>
    BY <1>4 DEF Reserve
  <2>2. CASE start = NoSpace
    <3>1. SectorCount(c) # 0
      BY <2>1, <2>2, Constants DEF Allocate, NoSpace
    <3>2. SizeOf[c] > 0
      BY <3>1, SomeSize, FsAssumption
    <3>3. Store!Cramped(p, c)
      BY <1>4, <2>1, <2>2, <3>2 DEF Store!Cramped
    <3> QED
      BY <2>1, <2>2, <3>3, <1>3
  <2>3. CASE start # NoSpace
    <3>1. PendingCall' = [op |-> "write", place |-> p, content |-> c]
      BY <2>1, <2>3, PendingNext
    <3>2. PendingCall = Store!Nothing
      BY <1>1, NoCall, Replies
    <3>3. UNCHANGED Store!Store /\ UNCHANGED <<selected, cwd, ret>>
      BY <2>1, <2>3, SameStore DEF Store!Store, media
    <3> QED
      BY <1>4, <3>1, <3>2, <3>3 DEF Store!PutBegin, Store!Putting
  <2> QED
    BY <2>2, <2>3
<1>5. CASE ~Store!Usable(n)
  <2>1. Fail
    BY <1>2, <1>5 DEF WriteBegin, Unmounted, ReadFault
  <2> QED
    BY <1>3, <1>5, <2>1
<1>6. CASE Store!Usable(n)
  <2>1. p \in Place /\ n \in ValidNames
    BY <1>1, <1>2, <1>6 DEF Place
  <2>2. PICK old \in FindChild(n, {"file"}) :
           \/ old # NotFound /\ Reserve(n, c, old, old)
           \/ /\ old = NotFound
              /\ \E clash \in FindChild(n, {"dir"}), i \in FindFree :
                    IF clash # NotFound \/ i = NotFound
                       THEN Fail
                       ELSE Reserve(n, c, i, NotFound)
    BY <1>2, <1>6 DEF WriteBegin, Unmounted, ReadFault
  <2>3. CASE old # NotFound
    <3>1. Store!IsFile(p) /\ old \in FilesAt(selected, p)
      BY <2>2, <2>3, FileLookup
    <3>2. ASSUME NEW j \in Index, Here[j].status = "dir", <<Here[j].parent, Here[j].name>> = p
          PROVE  FALSE
      BY <1>1, <3>1, <3>2 DEF FilesAt, NamesUnique, Live, Here
    <3>3. ~Store!IsDir(p)
      BY <2>1, <3>2, HereDirs
    <3>4. ASSUME NoSpace \in Allocate(c, old), StoredFiles[selected][p] \in Contents
          PROVE  SizeOf[c] > SizeOf[StoredFiles[selected][p]]
      <4>1. StoredFiles[selected][p] = Here[old].content
        BY <2>1, <3>1, <3>4, ValueHere, FsAssumption
      <4>2. old \in Index /\ Here[old].status = "file"
        BY <3>1 DEF FilesAt, Here
      <4>3. ~(SizeOf[c] <= SizeOf[StoredFiles[selected][p]])
        BY <3>4, <4>1, <4>2, RoomInPlace
      <4> QED
        BY <3>4, <4>3, FsAssumption
    <3> QED
      BY <1>4, <1>6, <2>2, <2>3, <3>1, <3>3, <3>4
  <2>4. CASE old = NotFound
    <3>1. ~Store!IsFile(p)
      BY <2>1, <2>2, <2>4, FileLookup
    <3>2. PICK clash \in FindChild(n, {"dir"}), i \in FindFree :
             IF clash # NotFound \/ i = NotFound THEN Fail ELSE Reserve(n, c, i, NotFound)
      BY <2>2, <2>4
    <3>3. clash # NotFound <=> Store!IsDir(p)
      <4>1. clash # NotFound => /\ clash \in Index /\ Here[clash].status = "dir"
                                /\ <<Here[clash].parent, Here[clash].name>> = p
        BY <3>2, FindChildIndex
      <4>2. clash = NotFound => \A j \in Index :
               ~(Here[j].status = "dir" /\ <<Here[j].parent, Here[j].name>> = p)
        BY <3>2, Missing
      <4> QED
        BY <2>1, <4>1, <4>2, HereDirs
    <3>4. i = NotFound <=> Store!Full
      BY <3>2, FreeSlot
    <3>5. StoredFiles[selected][p] \notin Contents
      BY <2>1, <2>2, <2>4, FileLookup, ValueHere, FsAssumption
    <3> QED
      BY <1>3, <1>4, <1>6, <3>1, <3>2, <3>3, <3>4, <3>5
  <2> QED
    BY <2>3, <2>4
<1> QED
  BY <1>5, <1>6

-----------------------------------------------------------------------------
(* A sector that a Write fills belongs to no other file; the file that is  *)
(* replaced keeps its content, is damaged, or has the new content already. *)
Halfway(p, c) ==
    IF Store!IsFile(p) THEN {StoredFiles[selected][p], Junk, c} ELSE {NoContent}

LEMMA WriteFields ==
    ASSUME TypeOK, call.op = "write"
    PROVE  /\ call \in WriteCall /\ call.index \in Index /\ call.name \in ValidNames
           /\ call.content \in Contents /\ call.start \in Nat /\ call.done \in Nat
           /\ selected \in Disks /\ <<cwd, call.name>> \in Place
           /\ PendingCall = [op |-> "write", place |-> <<cwd, call.name>>,
                             content |-> call.content]
<1>1. call \in WriteCall
  BY DEF TypeOK, Idle, FormatCall
<1> QED
  BY <1>1, Pending DEF WriteCall, TypeOK, Place

LEMMA OneTarget ==
    ASSUME TypeOK, Names, call.op = "write",
           NEW j \in FilesAt(selected, <<cwd, call.name>>)
    PROVE  j = call.index
<1>1. j \in Index /\ Live(Here[j]) /\ Here[j].parent = cwd /\ Here[j].name = call.name
  BY DEF FilesAt, Here, Live
<1> QED
  BY <1>1 DEF Names

LEMMA SectorMapped ==
    ASSUME TypeOK, Names, Placed, Target, call.op = "write",
           call.done < SectorCount(call.content), dir' = dir,
           blocks' = [blocks EXCEPT ![selected][call.start + call.done]
                        = <<call.content, call.done>>]
    PROVE  \E v \in Halfway(<<cwd, call.name>>, call.content) :
               StoredFiles' = [StoredFiles EXCEPT ![selected][<<cwd, call.name>>] = v]
<1> DEFINE p == <<cwd, call.name>>
           here == call.start + call.done
<1>1. /\ call.index \in Index /\ call.name \in ValidNames /\ call.content \in Contents
      /\ call.start \in Nat /\ call.done \in Nat /\ selected \in Disks /\ p \in Place
  BY WriteFields
<1>2. here \in Sectors(call.start, call.content)
  BY <1>1, SectorCountNat DEF Sectors
<1>3. here \in DataSectors(selected)
  BY <1>2 DEF Placed, Reservation
<1> HIDE DEF here
<1>4. /\ \A d \in Disks : \A s \in DataSectors(d) :
            d # selected \/ s # here => blocks'[d][s] = blocks[d][s]
      /\ blocks'[selected][here] = <<call.content, call.done>>
  BY <1>1, <1>3 DEF here, TypeOK, BlocksOK
<1>5. ASSUME NEW d \in Disks, NEW i \in Index, dir[d][i].status = "file"
      PROVE  /\ dir[d][i].content \in Contents
             /\ \A k \in 0 .. SectorCount(dir[d][i].content) - 1 :
                   dir[d][i].start + k \in Extent(dir[d][i]) \cap DataSectors(d)
  <2>1. dir[d][i].content \in Contents /\ dir[d][i].start \in Nat
    BY <1>5, FileFields
  <2>2. \A k \in 0 .. SectorCount(dir[d][i].content) - 1 :
           dir[d][i].start + k \in Extent(dir[d][i])
    BY <1>5, <2>1, SectorCountNat DEF Extent, Sectors
  <2> QED
    BY <2>1, <2>2 DEF Placed, ExtentsDisjoint
<1>6. ASSUME NEW d \in Disks, NEW q \in Place PROVE FilesAt(d, q)' = FilesAt(d, q)
  BY DEF FilesAt
<1>7. ASSUME NEW d \in Disks, NEW q \in Place, d # selected \/ q # p
      PROVE  ValueAt(d, q)' = ValueAt(d, q)
  <2>1. ASSUME NEW i \in FilesAt(d, q) PROVE Intact(d, i)' <=> Intact(d, i)
    <3>1. i \in Index /\ dir[d][i].status = "file" /\ <<dir[d][i].parent, dir[d][i].name>> = q
      BY DEF FilesAt
    <3>2. ASSUME NEW k \in 0 .. SectorCount(dir[d][i].content) - 1
          PROVE  blocks'[d][dir[d][i].start + k] = blocks[d][dir[d][i].start + k]
      <4>1. dir[d][i].start + k \in Extent(dir[d][i]) \cap DataSectors(d)
        BY <1>5, <3>1
      <4>2. d = selected => i # call.index
        <5>1. SUFFICES ASSUME d = selected, i = call.index PROVE FALSE
          OBVIOUS
        <5>2. i \in FilesAt(selected, p)
          BY <3>1, <5>1 DEF Target, Here, Live
        <5> QED
          BY <1>7, <3>1, <5>1, <5>2 DEF FilesAt
      <4>3. d = selected => dir[d][i].start + k # here
        BY <1>2, <3>1, <4>1, <4>2 DEF Placed, Reservation, Here
      <4> QED
        BY <1>4, <4>1, <4>3
    <3> QED
      BY <3>2 DEF Intact
  <2> QED
    BY <1>6, <2>1, ValueStays
<1>8. PICK d \in Disks, q \in Place, i \in Index : d = selected /\ q = p /\ i = call.index
  BY <1>1
<1>9. CASE FilesAt(d, q) = {}
  <2>1. ValueAt(d, q)' = NoContent
    BY <1>6, <1>9 DEF ValueAt
  <2>2. StoredFiles' = [StoredFiles EXCEPT ![d][q] = NoContent]
    BY <1>7, <1>8, <2>1, Assigned
  <2>3. NoContent \in Halfway(p, call.content)
    BY <1>1, <1>8, <1>9, HereFiles DEF Halfway, Names
  <2> QED
    BY <1>8, <2>2, <2>3
<1>10. CASE FilesAt(d, q) # {}
  <2> DEFINE v == IF Intact(d, i)' THEN dir[d][i].content ELSE Junk
  <2>1. FilesAt(d, q) = {i}
    BY <1>8, <1>10, OneTarget
  <2>2. FilesAt(d, q)' = {i} /\ dir'[d][i].content = dir[d][i].content
    BY <1>6, <2>1
  <2>3. ValueAt(d, q)' = v
    BY <2>2 DEF ValueAt
  <2>4. StoredFiles' = [StoredFiles EXCEPT ![d][q] = v]
    <3> HIDE DEF v
    <3> QED
      BY <1>7, <1>8, <2>3, Assigned
  <2>5. /\ Store!IsFile(p)
        /\ StoredFiles[selected][p] = IF Intact(d, i) THEN dir[d][i].content ELSE Junk
    BY <1>1, <1>8, <2>1, HereFiles, ValueHere DEF Names, Here
  <2>6. ASSUME Intact(d, i)', ~Intact(d, i) PROVE dir[d][i].content = call.content
    <3>1. dir[d][i].status = "file"
      BY <2>1 DEF FilesAt
    <3>2. PICK k \in 0 .. SectorCount(dir[d][i].content) - 1 :
             blocks[d][dir[d][i].start + k] # <<dir[d][i].content, k>>
      BY <2>6 DEF Intact
    <3>3. blocks'[d][dir[d][i].start + k] = <<dir[d][i].content, k>>
      BY <2>6 DEF Intact
    <3>4. dir[d][i].start + k \in DataSectors(d)
      BY <1>5, <3>1
    <3>5. dir[d][i].start + k = here
      BY <1>4, <3>2, <3>3, <3>4
    <3>6. blocks'[d][here] = <<call.content, call.done>>
      BY <1>4, <1>8
    <3>7. <<dir[d][i].content, k>> = <<call.content, call.done>>
      BY <3>3, <3>5, <3>6
    <3> QED
      BY <3>7
  <2>7. v \in Halfway(p, call.content)
    <3>1. CASE Intact(d, i)' /\ Intact(d, i)
      BY <2>5, <3>1 DEF Halfway
    <3>2. CASE Intact(d, i)' /\ ~Intact(d, i)
      BY <2>5, <2>6, <3>2 DEF Halfway
    <3>3. CASE ~Intact(d, i)'
      BY <2>5, <3>3 DEF Halfway
    <3> QED
      BY <3>1, <3>2, <3>3
  <2> QED
    BY <1>8, <2>4, <2>7
<1> QED
  BY <1>9, <1>10

LEMMA UnchangedHalfway ==
    ASSUME TypeOK, Names, NEW p \in Place, NEW c, UNCHANGED <<dir, blocks>>
    PROVE  /\ \E v \in Halfway(p, c) : StoredFiles' = [StoredFiles EXCEPT ![selected][p] = v]
           /\ StoredTree' = StoredTree
<1>1. StoredFiles[selected][p] \in Halfway(p, c)
  BY HereFiles, ValueHere DEF Halfway, Names
<1>2. StoredFiles = [StoredFiles EXCEPT ![selected][p] = StoredFiles[selected][p]]
  BY DEF StoredFiles
<1> QED
  BY <1>1, <1>2, SameStore

LEMMA CommitMapped ==
    ASSUME TypeOK, Names, Copy, Target, Tree, call.op = "write",
           call.done = SectorCount(call.content), blocks' = blocks,
           dir' = [dir EXCEPT ![selected][call.index] =
                     [status |-> "file", parent |-> cwd, name |-> call.name,
                      start |-> call.start, content |-> call.content]]
    PROVE  /\ StoredFiles' = [StoredFiles EXCEPT ![selected][<<cwd, call.name>>] = call.content]
           /\ StoredTree' = StoredTree
<1> DEFINE new == [status |-> "file", parent |-> cwd, name |-> call.name,
                   start |-> call.start, content |-> call.content]
<1>1. /\ call.index \in Index /\ call.content \in Contents /\ selected \in Disks
      /\ <<cwd, call.name>> \in Place
  BY WriteFields
<1>2. PICK e : e = new
  OBVIOUS
<1>3. PICK d \in Disks, p \in Place, i \in Index :
         d = selected /\ p = <<cwd, call.name>> /\ i = call.index
  BY <1>1
<1>0. /\ e.status = "file" /\ <<e.parent, e.name>> = p
      /\ e.start = call.start /\ e.content = call.content
  BY <1>2, <1>3
<1> HIDE DEF new
<1>4. /\ \A f \in Disks, j \in Index :
            dir'[f][j] = IF f = d /\ j = i THEN e ELSE dir[f][j]
      /\ \A f \in Disks, q \in Place :
            (f = d => i \notin FilesAt(f, q) \cup FilesAt(f, q)')
            => ValueAt(f, q)' = ValueAt(f, q)
  <2>1. dir' = [dir EXCEPT ![selected][i] = e]
    BY <1>2, <1>3 DEF new
  <2>2. /\ \A f \in Disks, j \in Index :
              dir'[f][j] = IF f = selected /\ j = i THEN e ELSE dir[f][j]
        /\ \A f \in Disks, q \in Place :
              (f = selected => i \notin FilesAt(f, q) \cup FilesAt(f, q)')
              => ValueAt(f, q)' = ValueAt(f, q)
    BY <2>1, EntryChanged
  <2> QED
    BY <1>3, <2>2
<1>5. ~Live(dir[d][i]) \/ i \in FilesAt(d, p)
  BY <1>3 DEF Target, Here
<1>6. FilesAt(d, p)' = {i}
  <2>1. i \in FilesAt(d, p)'
    BY <1>0, <1>4 DEF FilesAt
  <2>2. ASSUME NEW j \in FilesAt(d, p)', j # i PROVE FALSE
    <3>1. j \in FilesAt(d, p)
      BY <1>4, <2>2 DEF FilesAt
    <3> QED
      BY <1>3, <2>2, <3>1, OneTarget
  <2> QED
    BY <2>1, <2>2
<1>7. Intact(d, i)'
  BY <1>0, <1>3, <1>4 DEF Intact, Copy
<1>8. ValueAt(d, p)' = call.content
  <2>1. dir'[d][i].content = call.content
    BY <1>0, <1>4
  <2> QED
    BY <1>6, <1>7, <2>1 DEF ValueAt
<1>9. ASSUME NEW f \in Disks, NEW q \in Place, f # d \/ q # p
      PROVE  ValueAt(f, q)' = ValueAt(f, q)
  <2>1. f = d => i \notin FilesAt(f, q)
    BY <1>5, <1>9 DEF FilesAt, Live
  <2>2. f = d => i \notin FilesAt(f, q)'
    BY <1>0, <1>4, <1>9 DEF FilesAt
  <2> QED
    BY <1>4, <2>1, <2>2
<1>10. StoredFiles' = [StoredFiles EXCEPT ![d][p] = call.content]
  BY <1>8, <1>9, Assigned
<1>11. StoredTree' = StoredTree
  <2>1. dir[d][i].status # "dir"
    BY <1>3 DEF Tree, Here
  <2> QED
    BY <1>0, <1>4, <2>1, HandlesStay
<1> QED
  BY <1>3, <1>10, <1>11

LEMMA PutStepMaps ==
    ASSUME ~ReadFault, TypeOK, Names, Placed, Copy, Target, Tree, WriteData \/ WriteCommit
    PROVE  Store!PutStep
<1> DEFINE p == <<cwd, call.name>>
<1>1. call.op = "write" /\ UNCHANGED <<super, selected, cwd>>
  BY DEF WriteData, WriteCommit
<1>2. /\ call \in WriteCall /\ call.index \in Index /\ call.content \in Contents
      /\ p \in Place
      /\ PendingCall = [op |-> "write", place |-> p, content |-> call.content]
  BY <1>1, WriteFields
<1>3. Halfway(p, call.content) =
         IF Store!IsFile(PendingCall.place)
            THEN {StoredFiles[selected][PendingCall.place], Junk, PendingCall.content}
            ELSE {NoContent}
  BY <1>2 DEF Halfway
<1> DEFINE Spoils == \E v \in Halfway(p, call.content) : Store!Assign(p, v)
<1>4. CASE WriteData
  <2>1. PICK landed, ok \in BOOLEAN :
           /\ SectorWrite(landed, ok)
           /\ call.done < SectorCount(call.content)
           /\ blocks' = IF landed
                           THEN [blocks EXCEPT ![selected][call.start + call.done]
                                   = <<call.content, call.done>>]
                           ELSE blocks
           /\ IF ok
                 THEN call' = [call EXCEPT !.done = @ + 1] /\ UNCHANGED ret
                 ELSE call' = Idle /\ ret' = Failed
           /\ UNCHANGED <<super, dir, selected, cwd, cut>>
    BY <1>4 DEF WriteData
  <2>2. Spoils /\ StoredTree' = StoredTree
    <3>1. CASE landed
      <4>1. StoredTree' = StoredTree
        BY <2>1, HandlesStay
      <4> QED
        BY <1>1, <2>1, <3>1, <4>1, SectorMapped DEF Store!Assign
    <3>2. CASE ~landed
      BY <1>2, <2>1, <3>2, UnchangedHalfway DEF Store!Assign
    <3> QED
      BY <3>1, <3>2
  <2>3. CASE ok
    <3>1. PendingCall' = PendingCall
      <4>1. call'.op = "write" /\ call'.name = call.name /\ call'.content = call.content
        BY <1>1, <1>2, <2>1, <2>3 DEF WriteCall
      <4> QED
        BY <1>1, <1>2, <4>1, PendingNext
    <3> QED
      BY <1>1, <1>2, <1>3, <2>1, <2>2, <2>3, <3>1 DEF Store!PutStep
  <2>4. CASE ~ok
    <3>1. "write" \in Faults /\ ret' = Failed /\ PendingCall' = Idle
      BY <2>1, <2>4, NoCall DEF SectorWrite
    <3>2. Store!Outcome(Store!Assign(p, call.content), Spoils)
      BY <2>2, <3>1, Replies DEF Store!Outcome, Store!Reply
    <3> QED
      BY <1>1, <1>2, <1>3, <2>2, <3>1, <3>2, Replies DEF Store!PutStep
  <2> QED
    BY <2>3, <2>4
<1>5. CASE WriteCommit
  <2> DEFINE e == [status |-> "file", parent |-> cwd, name |-> call.name,
                   start |-> call.start, content |-> call.content]
  <2>1. /\ WriteEntry(call.index, e) /\ call' = Idle
        /\ call.done = SectorCount(call.content)
        /\ UNCHANGED <<super, blocks, selected, cwd, cut>>
    BY <1>5 DEF WriteCommit
  <2>2. PendingCall' = Idle
    BY <2>1, NoCall
  <2>3. CASE dir' = [dir EXCEPT ![selected][call.index] = e]
    <3>1. Store!Assign(p, call.content) /\ StoredTree' = StoredTree
      BY <1>1, <2>1, <2>3, CommitMapped DEF Store!Assign
    <3> HIDE DEF e
    <3>2. ret' = Ok \/ ("write" \in Faults /\ ret' = Failed)
      BY <1>2, <2>1, Outcomes
    <3>3. Store!Outcome(Store!Assign(p, call.content), Spoils)
      BY <3>1, <3>2, Replies DEF Store!Outcome, Store!Reply
    <3> QED
      BY <1>1, <1>2, <1>3, <2>2, <3>1, <3>3, Replies DEF Store!PutStep
  <2>4. CASE dir' # [dir EXCEPT ![selected][call.index] = e]
    <3> HIDE DEF e
    <3>1. dir' = dir /\ "write" \in Faults /\ ret' = Failed
      BY <1>2, <2>1, <2>4, Outcomes
    <3>2. Spoils /\ StoredTree' = StoredTree
      BY <1>2, <2>1, <3>1, UnchangedHalfway DEF Store!Assign
    <3>3. Store!Outcome(Store!Assign(p, call.content), Spoils)
      BY <3>1, <3>2, Replies DEF Store!Outcome, Store!Reply
    <3> QED
      BY <1>1, <1>2, <1>3, <2>2, <3>2, <3>3, Replies DEF Store!PutStep
  <2> QED
    BY <2>3, <2>4
<1> QED
  BY <1>4, <1>5

-----------------------------------------------------------------------------
(* Format.                                                                 *)
LEMMA WipeBeginMaps ==
    ASSUME TypeOK, FormatSuper
    PROVE  Store!WipeBegin
<1>1. call = Idle /\ selected \in Disks /\ PendingCall = Store!Nothing
  BY NoCall, Replies DEF FormatSuper, TypeOK
<1>2. selected \in LargeDisks <=> DiskSectors[selected] > DataLba
  BY <1>1 DEF LargeDisks
<1>3. DiskSectors[selected] \in Nat /\ DataLba \in Nat
  BY <1>1, Constants
<1>4. UNCHANGED <<StoredFiles, StoredTree, selected, cwd>>
  BY SameStore DEF FormatSuper, Fail, media, ram
<1>5. CASE selected \notin LargeDisks
  <2>1. Fail
    BY <1>2, <1>3, <1>5 DEF FormatSuper
  <2>2. super' = super /\ ret' = Failed /\ PendingCall' = PendingCall
    BY <1>1, <2>1, NoCall DEF Fail, media, ram
  <2> QED
    BY <1>1, <1>4, <1>5, <2>2, Replies DEF Store!WipeBegin, Store!Reply
<1>6. CASE selected \in LargeDisks
  <2>1. PICK landed, ok \in BOOLEAN :
           /\ SectorWrite(landed, ok)
           /\ super' = [super EXCEPT ![selected] = @ \/ landed]
           /\ IF ok THEN /\ call' = [op |-> "format", next |-> 0]
                         /\ UNCHANGED ret
                    ELSE ret' = Failed /\ UNCHANGED call
    BY <1>2, <1>3, <1>6 DEF FormatSuper
  <2>2. landed => super' = [super EXCEPT ![selected] = TRUE]
    BY <2>1
  <2>3. ~landed => super' = super
    BY <1>1, <2>1 DEF TypeOK
  <2>4. CASE ok
    <3>1. landed /\ PendingCall' = Store!Wiping
      BY <2>1, <2>4, PendingNext, Replies DEF SectorWrite
    <3> QED
      BY <1>1, <1>4, <1>6, <2>1, <2>2, <2>4, <3>1 DEF Store!WipeBegin
  <2>5. CASE ~ok
    <3>1. "write" \in Faults /\ ret' = Failed /\ PendingCall' = PendingCall
      BY <1>1, <2>1, <2>5, NoCall DEF SectorWrite
    <3> QED
      BY <1>1, <1>4, <1>6, <2>2, <2>3, <3>1, Replies DEF Store!WipeBegin, Store!Reply
  <2> QED
    BY <2>4, <2>5
<1> QED
  BY <1>5, <1>6

LEMMA EntriesErased ==
    ASSUME TypeOK, NamesUnique, blocks' = blocks,
           \A d \in Disks, i \in Index :
               dir'[d][i] = dir[d][i] \/ (d = selected /\ dir'[d][i] = FreeEntry)
    PROVE  /\ Store!Erased(StoredFiles[selected], StoredFiles'[selected], NoContent)
           /\ Store!Erased(StoredTree[selected], StoredTree'[selected], <<>>)
           /\ \A e \in Disks \ {selected} :
                 StoredFiles'[e] = StoredFiles[e] /\ StoredTree'[e] = StoredTree[e]
<1>1. FreeEntry.status = "free" /\ selected \in Disks
  BY DEF FreeEntry, TypeOK
<1>2. ASSUME NEW d \in Disks, NEW p \in Place, \A i \in FilesAt(d, p) : dir'[d][i] = dir[d][i]
      PROVE  ValueAt(d, p)' = ValueAt(d, p)
  <2>1. ASSUME NEW i \in Index PROVE i \in FilesAt(d, p)' <=> i \in FilesAt(d, p)
    <3>1. dir'[d][i] = dir[d][i] \/ dir'[d][i] = FreeEntry
      OBVIOUS
    <3> QED
      BY <1>1, <1>2, <3>1 DEF FilesAt
  <2>2. FilesAt(d, p)' = FilesAt(d, p)
    BY <2>1 DEF FilesAt
  <2>3. \A i \in FilesAt(d, p) : Intact(d, i)' <=> Intact(d, i)
    BY <1>2 DEF Intact
  <2> QED
    BY <1>2, <2>2, <2>3, ValueStays
<1>3. ASSUME NEW d \in Disks, NEW p \in Place
      PROVE  ValueAt(d, p)' = ValueAt(d, p) \/ (d = selected /\ ValueAt(d, p)' = NoContent)
  <2>1. CASE \A i \in FilesAt(d, p) : dir'[d][i] = dir[d][i]
    BY <1>2, <2>1
  <2>2. CASE ~\A i \in FilesAt(d, p) : dir'[d][i] = dir[d][i]
    <3>1. PICK i \in FilesAt(d, p) : dir'[d][i] # dir[d][i]
      BY <2>2
    <3>2. i \in Index /\ d = selected /\ dir'[d][i] = FreeEntry /\ FilesAt(d, p) = {i}
      BY <3>1, ValueOf DEF FilesAt
    <3>3. ASSUME NEW j \in Index PROVE j \notin FilesAt(d, p)'
      <4>1. j # i => j \notin FilesAt(d, p)
        BY <3>2
      <4>2. dir'[d][j] = dir[d][j] \/ dir'[d][j] = FreeEntry
        OBVIOUS
      <4> QED
        BY <1>1, <3>2, <4>1, <4>2 DEF FilesAt
    <3>4. FilesAt(d, p)' = {}
      BY <3>3 DEF FilesAt
    <3> QED
      BY <3>2, <3>4 DEF ValueAt
  <2> QED
    BY <2>1, <2>2
<1>4. ASSUME NEW d \in Disks, NEW id \in DirIds
      PROVE  DirAt(d, id)' = DirAt(d, id) \/ (d = selected /\ DirAt(d, id)' = <<>>)
  <2>1. id - 1 \in Index
    BY Constants
  <2>2. dir'[d][id - 1] = dir[d][id - 1] \/ (d = selected /\ dir'[d][id - 1] = FreeEntry)
    BY <2>1
  <2> QED
    BY <1>1, <2>2 DEF DirAt
<1>5. ASSUME NEW e \in Disks \ {selected}
      PROVE  StoredFiles'[e] = StoredFiles[e] /\ StoredTree'[e] = StoredTree[e]
  BY <1>3, <1>4 DEF StoredFiles, StoredTree, Place
<1>6. DOMAIN StoredFiles[selected] = Place /\ DOMAIN StoredTree[selected] = DirIds
  BY <1>1 DEF StoredFiles, StoredTree, Place
<1>7. \A p \in Place :
         StoredFiles'[selected][p] \in {StoredFiles[selected][p], NoContent}
  BY <1>1, <1>3, Stored, StoredNext
<1>8. \A id \in DirIds :
         StoredTree'[selected][id] \in {StoredTree[selected][id], <<>>}
  BY <1>1, <1>4, Stored, StoredNext
<1> QED
  BY <1>5, <1>6, <1>7, <1>8 DEF Store!Erased

LEMMA AllErased ==
    ASSUME TypeOK, \A i \in Index : dir'[selected][i] = FreeEntry
    PROVE  /\ \A p \in Place : StoredFiles'[selected][p] = NoContent
           /\ \A id \in DirIds : StoredTree'[selected][id] = <<>>
<1>1. PICK d \in Disks : d = selected
  BY DEF TypeOK
<1>2. FreeEntry.status = "free" /\ \A i \in Index : dir'[d][i] = FreeEntry
  BY <1>1 DEF FreeEntry
<1>3. ASSUME NEW p \in Place PROVE StoredFiles'[d][p] = NoContent
  <2>1. FilesAt(d, p)' = {}
    BY <1>2 DEF FilesAt
  <2> QED
    BY <2>1, StoredNext DEF ValueAt
<1>4. ASSUME NEW id \in DirIds PROVE StoredTree'[d][id] = <<>>
  BY <1>2, Constants, StoredNext DEF DirAt
<1> QED
  BY <1>1, <1>3, <1>4

LEMMA WipeStepMaps ==
    ASSUME TypeOK, NamesUnique, Tree, FormatDirectory
    PROVE  Store!WipeStep
<1>1. PICK landed, ok \in BOOLEAN :
         /\ SectorWrite(landed, ok)
         /\ dir' = [dir EXCEPT ![selected] =
                      [i \in Index |-> IF landed /\ DirSector(i) = call.next
                                          THEN FreeEntry ELSE @[i]]]
         /\ IF ok /\ call.next < DirSectors - 1
               THEN /\ call' = [call EXCEPT !.next = @ + 1]
                    /\ UNCHANGED <<cwd, ret, cut>>
               ELSE /\ call' = Idle
                    /\ ret' = IF ok THEN Ok ELSE Failed
                    /\ cwd' = IF ok THEN Root ELSE cwd
                    /\ cut' = [cut EXCEPT ![selected] = ~ok]
         /\ UNCHANGED <<super, blocks, selected>>
  BY DEF FormatDirectory
<1>2. call.op = "format" /\ call \in FormatCall /\ selected \in Disks
  BY DEF FormatDirectory, TypeOK, Idle, WriteCall
<1>3. PendingCall = Store!Wiping
  BY <1>2, Pending, Replies
<1>4. \A d \in Disks, i \in Index :
         dir'[d][i] = IF d = selected /\ landed /\ DirSector(i) = call.next
                         THEN FreeEntry ELSE dir[d][i]
  BY <1>1 DEF TypeOK
<1>5. /\ Store!Erased(StoredFiles[selected], StoredFiles'[selected], NoContent)
      /\ Store!Erased(StoredTree[selected], StoredTree'[selected], Store!Unused)
      /\ \A e \in Disks \ {selected} :
            StoredFiles'[e] = StoredFiles[e] /\ StoredTree'[e] = StoredTree[e]
  BY <1>1, <1>4, EntriesErased, Replies
<1>6. CASE ok /\ call.next < DirSectors - 1
  <2>1. call'.op = "format"
    BY <1>1, <1>2, <1>6 DEF FormatCall
  <2>2. PendingCall' = Store!Wiping /\ UNCHANGED <<cwd, ret>>
    BY <1>1, <1>6, <2>1, PendingNext, Replies
  <2> QED
    BY <1>1, <1>3, <1>5, <2>2 DEF Store!WipeStep
<1>7. CASE ok /\ ~(call.next < DirSectors - 1)
  <2>1. ASSUME NEW i \in Index PROVE dir'[selected][i] = FreeEntry
    <3>1. DirSector(i) \in 0 .. DirSectors - 1 /\ call.next \in 0 .. DirSectors - 1
      BY <1>2, LayoutAssumption DEF FormatCall
    <3>2. DirSector(i) = call.next \/ DirSector(i) < call.next
      BY <1>7, <3>1, FsAssumption
    <3>3. landed
      BY <1>1, <1>7 DEF SectorWrite
    <3> QED
      BY <1>2, <1>4, <3>2, <3>3 DEF Tree, Here
  <2>2. /\ \A p \in Place : StoredFiles'[selected][p] = NoContent
        /\ \A id \in DirIds : StoredTree'[selected][id] = <<>>
    BY <2>1, AllErased
  <2>3. PendingCall' = Store!Nothing /\ cwd' = Root /\ ret' = Ok
    BY <1>1, <1>7, NoCall, Replies
  <2> QED
    BY <1>1, <1>3, <1>5, <2>2, <2>3, Replies DEF Store!WipeStep, Store!Reply
<1>8. CASE ~ok
  <2>1. /\ PendingCall' = Store!Nothing /\ ret' = Failed /\ cwd' = cwd
        /\ "write" \in Faults
    BY <1>1, <1>8, NoCall, Replies DEF SectorWrite
  <2> QED
    BY <1>1, <1>3, <1>5, <2>1, Replies DEF Store!WipeStep, Store!Reply
<1> QED
  BY <1>6, <1>7, <1>8

-----------------------------------------------------------------------------
LEMMA InitMaps == Init => Store!Init
<1> SUFFICES ASSUME Init PROVE Store!Init
  OBVIOUS
<1>1. FreeEntry.status = "free"
  BY DEF FreeEntry
<1>2. \A d \in Disks, i \in Index : dir[d][i] = FreeEntry
  BY DEF Init
<1>3. StoredFiles = [d \in Disks |-> [p \in Place |-> NoContent]]
  <2>1. ASSUME NEW d \in Disks, NEW p \in Place PROVE ValueAt(d, p) = NoContent
    BY <1>1, <1>2 DEF ValueAt, FilesAt
  <2> QED
    BY <2>1 DEF StoredFiles, Place
<1>4. StoredTree = [d \in Disks |-> [id \in DirIds |-> <<>>]]
  <2>1. ASSUME NEW d \in Disks, NEW id \in DirIds PROVE DirAt(d, id) = <<>>
    BY <1>1, <1>2, Constants DEF DirAt
  <2> QED
    BY <2>1 DEF StoredTree
<1> QED
  BY <1>3, <1>4, NoCall, Replies DEF Init, Store!Init

(* Each call does what its abstract call does.                             *)
LEMMA CallsMap ==
    ASSUME ~ReadFault, TypeOK, Names, Placed, Copy, Target, Tree
    PROVE  EachCall
<1>1. NamesUnique /\ ExtentsDisjoint
  BY DEF Names, Placed
<1>2. \A d \in 0 .. NumDisks : Select(d) => Store!Select(d)
  BY SelectMaps
<1>3. ASSUME NEW n \in DirNames
      PROVE  (CreateDir(n) => Store!MakeDir(n)) /\ (GotoChild(n) => Store!GoChild(n))
  BY <1>1, MakeDirMaps, ChildMaps
<1>4. \A n \in FileNames, c \in Contents : WriteBegin(n, c) => Store!PutBegin(n, c)
  BY <1>1, PutBeginMaps
<1>5. ASSUME NEW n \in FileNames
      PROVE  /\ Read(n) => Store!Get(n)
             /\ Remove(n) => Store!Delete(n)
             /\ Exists(n) => Store!Exists(n)
             /\ SizeCall(n) => Store!SizeCall(n)
  BY <1>1, LookupMaps, DeleteMaps
<1>6. /\ FormatSuper => Store!WipeBegin
      /\ FormatDirectory => Store!WipeStep
      /\ WriteData \/ WriteCommit => Store!PutStep
      /\ Crash => Store!Crash
  BY <1>1, WipeBeginMaps, WipeStepMaps, PutStepMaps, CrashMaps
<1>7. /\ GotoRoot => Store!GoRoot
      /\ GotoHere => Store!GoHere
      /\ GotoParent => Store!GoParent
      /\ GetDir => Store!PathQuery
  BY HandleMaps, PathMaps
<1> QED
  BY <1>2, <1>3, <1>4, <1>5, <1>6, <1>7 DEF EachCall

LEMMA StepMaps ==
    ASSUME TypeOK, EachCall, [Next]_vars
    PROVE  [Store!Next]_(Store!vars)
<1>1. ASSUME NEW d \in 0 .. NumDisks, Select(d) PROVE Store!Next
  BY <1>1, SelectMaps DEF Store!Next
<1>2. CASE FormatSuper
  BY <1>2 DEF EachCall, Store!Next
<1>3. ASSUME NEW n \in DirNames, CreateDir(n) \/ GotoChild(n) PROVE Store!Next
  BY <1>3 DEF EachCall, Store!Next
<1>4. CASE GotoRoot \/ GotoHere \/ GotoParent \/ GetDir
  BY <1>4 DEF EachCall, Store!Next
<1>5. ASSUME NEW n \in FileNames, NEW c \in Contents, WriteBegin(n, c) PROVE Store!Next
  BY <1>5 DEF EachCall, Store!Next
<1>6. ASSUME NEW n \in FileNames, Read(n) \/ Remove(n) \/ Exists(n) \/ SizeCall(n)
      PROVE  Store!Next
  BY <1>6 DEF EachCall, Store!Next
<1>7. CASE FormatDirectory
  BY <1>7 DEF EachCall, Store!Next
<1>8. CASE WriteData \/ WriteCommit
  BY <1>8 DEF EachCall, Store!Next
<1>9. CASE Crash
  BY <1>9 DEF EachCall, Store!Next
<1>10. CASE UNCHANGED vars
  BY <1>10, StutterMaps
<1> QED
  BY <1>1, <1>2, <1>3, <1>4, <1>5, <1>6, <1>7, <1>8, <1>9, <1>10 DEF Next, Continue

(* What the mapping reads the state through holds as long as sectors can   *)
(* be read.                                                                *)
LEMMA StoreInvariant ==
    ASSUME ~ReadFault
    PROVE  Spec => [](TypeOK /\ Names /\ Placed /\ Copy /\ Target /\ Tree)
<1>1. Init => Names /\ Placed /\ Copy /\ Target
  BY DEF Init, Names, NamesUnique, Live, FreeEntry, Idle, Placed, Copy, ExtentsDisjoint,
         Reservation, Extent, Target
<1>2. TypeOK /\ Names /\ [Next]_vars => Names'
  BY StepNames
<1> QED
  BY <1>1, <1>2, InitTree, StepPlaced, StepCopy, StepTarget, StepTree, TypeCorrect, PTL
     DEF Spec

(* As long as sectors can be read, every call of the file store does what  *)
(* its abstract call does and fails for that one's reasons only: a full    *)
(* table refuses no overwrite, nor does a full disk one that is no longer, *)
(* and a program whose directory is gone finds itself in the root.         *)
THEOREM CallsDoAsPromised == ASSUME "read" \notin Faults PROVE Spec => CallsAsPromised
<1>1. ~ReadFault
  BY DEF ReadFault
<1>2. TypeOK /\ Names /\ Placed /\ Copy /\ Target /\ Tree => EachCall
  BY <1>1, CallsMap
<1> QED
  BY <1>1, <1>2, StoreInvariant, PTL DEF Spec, CallsAsPromised

(* As long as sectors can be read, every behaviour of the file store is    *)
(* one of the abstract store: a call that succeeded is durable and touched *)
(* one place, whatever writes fail and whenever power is lost.             *)
THEOREM StoreIsImplemented == ASSUME "read" \notin Faults PROVE Spec => StoreImplemented
<1>1. ~ReadFault
  BY DEF ReadFault
<1>2. TypeOK /\ Names /\ Placed /\ Copy /\ Target /\ Tree => TypeOK /\ EachCall
  BY <1>1, CallsMap
<1>3. TypeOK /\ EachCall /\ [Next]_vars => [Store!Next]_(Store!vars)
  BY StepMaps
<1>4. Spec => [](TypeOK /\ Names /\ Placed /\ Copy /\ Target /\ Tree)
  BY <1>1, StoreInvariant
<1> QED
  BY <1>2, <1>3, <1>4, InitMaps, PTL DEF Spec, StoreImplemented, Store!Spec

=============================================================================
