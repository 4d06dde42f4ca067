-------------------------------- MODULE BafFs --------------------------------
(***************************************************************************)
(* The BAFS1 file store of runtime/i386-disk.c: one superblock, a table of *)
(* directory entries and contiguous file extents on each disk, and the     *)
(* Disk.* calls of a BAF program over them.                                *)
(*                                                                         *)
(* The kernel is one thread of control.  A call that only reads sectors,   *)
(* or reads and then writes one sector, is one step; a call that writes    *)
(* several sectors (Write, Format) takes one step per sector, so that a    *)
(* failing device or a power loss can come between any two of them.        *)
(* A sector write is atomic on the medium; it may report failure whether   *)
(* or not it landed (a timeout after the transfer, a failed cache flush).  *)
(***************************************************************************)
EXTENDS Integers

CONSTANTS
    NumDisks,          \* disk_count after the scan
    DiskSectors,       \* disks[d].sectors
    MaxFiles,          \* BAF_FS_MAX_FILES
    DirSectors,        \* BAF_FS_DIRECTORY_SECTORS
    EntriesPerSector,  \* BAF_SECTOR_SIZE / sizeof(BafFsEntry)
    SectorSize,        \* BAF_SECTOR_SIZE
    ReadCapacity,      \* BAF_FS_READ_CAPACITY
    FileNames,         \* names the program gives to the file calls
    DirNames,          \* names the program gives to CreateDir and GotoDir
    ValidNames,        \* names that fs_component_valid accepts
    NoName,            \* the name of a free entry
    Contents,          \* contents the program writes
    SizeOf,            \* their lengths in bytes
    NoContent,         \* the content of an entry that is not a file
    Junk,              \* what a sector holds before BAFS writes it
    Faults             \* subset of {"read", "write", "crash"}

Disks == 0 .. NumDisks - 1
Index == 0 .. MaxFiles - 1
Root == 0                          \* BAF_FS_ROOT_ID
DirIds == 1 .. MaxFiles            \* a directory's id is its index plus one
NotFound == -1
NoSpace == -1
DataLba == 2 + DirSectors          \* BAF_FS_DATA_LBA
SectorCount(c) == (SizeOf[c] + SectorSize - 1) \div SectorSize
DirSector(i) == i \div EntriesPerSector

ASSUME FsAssumption ==
    /\ NumDisks \in Nat \ {0}
    /\ DiskSectors \in [Disks -> Nat]
    /\ MaxFiles \in Nat \ {0} /\ DirSectors \in Nat \ {0}
    /\ EntriesPerSector \in Nat \ {0}
    /\ SectorSize \in Nat \ {0} /\ ReadCapacity \in Nat
    /\ NoName \notin ValidNames
    /\ NoContent \notin Contents /\ Junk \notin Contents /\ Junk # NoContent
    /\ SizeOf \in [Contents -> Nat]
    /\ Faults \subseteq {"read", "write", "crash"}

ASSUME LayoutAssumption == \A i \in Index : DirSector(i) \in 0 .. DirSectors - 1

VARIABLES
    super,     \* per disk: LBA 1 holds a superblock fs_load_super accepts
    dir,       \* per disk: the directory entries
    blocks,    \* per disk: the sectors of the data area
    selected,  \* selected_disk
    cwd,       \* fs_current_directory
    call,      \* the call in progress and its progress
    ret,       \* what the last completed call returned
    cut        \* history: a Format of the disk began and has not completed

media == <<super, dir, blocks>>
ram == <<selected, cwd, call>>
vars == <<super, dir, blocks, selected, cwd, call, ret, cut>>

(* An entry's length, sector count and checksum are those of its content.  *)
FileEntry == [status: {"file"}, parent: {Root} \cup DirIds, name: ValidNames,
              start: Nat, content: Contents]
DirEntry == [status: {"dir"}, parent: {Root} \cup DirIds, name: ValidNames,
             start: {0}, content: {NoContent}]
FreeEntry == [status |-> "free", parent |-> Root, name |-> NoName,
              start |-> 0, content |-> NoContent]
Entry == FileEntry \cup DirEntry \cup {FreeEntry}

DataSectors(d) == DataLba .. DiskSectors[d] - 1

(* A data sector holds the k-th sector of a content, or something else.    *)
Block == (Contents \X Nat) \cup {Junk}

Idle == [op |-> "idle"]
WriteCall == [op: {"write"}, index: Index, name: ValidNames,
              content: Contents, start: Nat, done: Nat]
FormatCall == [op: {"format"}, next: 0 .. DirSectors - 1]

None == [kind |-> "none"]
Ok == [kind |-> "ok"]
Failed == [kind |-> "failed"]
Data(c) == [kind |-> "data", value |-> c]
Size(n) == [kind |-> "size", value |-> n]
Reply == {None, Ok, Failed} \cup [kind: {"data"}, value: Contents]
             \cup [kind: {"size"}, value: Nat]

-----------------------------------------------------------------------------
(* Directory lookups of the calls, over the selected disk.                 *)

Here == dir[selected]
ReadFault == "read" \in Faults

Live(e) == e.status \in {"file", "dir"}                    \* fs_entry_live

(* A table scan returns the first hit.  The code reports a sector that     *)
(* cannot be read the same way as a scan without a hit.                    *)
FirstOf(hits) ==
    {i \in hits : \A j \in hits : i <= j}
      \cup (IF hits = {} \/ ReadFault THEN {NotFound} ELSE {})

(* Faulty variant for the mutation runs: the wanted status is not used.    *)
FindFileChild(name, kinds) ==
    FirstOf({i \in Index : /\ Here[i].status = "file"
                           /\ Here[i].parent = cwd
                           /\ Here[i].name = name})

FindChild(name, kinds) ==                                  \* fs_find_child
    FirstOf({i \in Index : /\ Here[i].status \in kinds
                           /\ Here[i].parent = cwd
                           /\ Here[i].name = name})

FindFree == FirstOf({i \in Index : ~Live(Here[i])})        \* fs_find_free_entry

(* The sectors of an entry, or of a request, and whether a start leaves    *)
(* them clear of every file but the ignored one.                           *)
Sectors(start, c) == start .. start + SectorCount(c) - 1
Extent(e) == IF e.status = "file" THEN Sectors(e.start, e.content) ELSE {}

(* Faulty variants: only the files of the current directory count; the     *)
(* last sector of an extent does not.                                      *)
FitsInDirectory(start, c, ignored) ==
    /\ start + SectorCount(c) <= DiskSectors[selected]
    /\ \A i \in Index \ {ignored} :
          Here[i].parent = cwd => Extent(Here[i]) \cap Sectors(start, c) = {}

FitsShort(start, c, ignored) ==
    /\ start + SectorCount(c) <= DiskSectors[selected]
    /\ \A i \in Index \ {ignored} :
          Extent(Here[i]) \cap (start .. start + SectorCount(c) - 2) = {}

Fits(start, c, ignored) ==
    /\ start + SectorCount(c) <= DiskSectors[selected]
    /\ \A i \in Index \ {ignored} :
          Extent(Here[i]) \cap Sectors(start, c) = {}

(* fs_allocate: first fit (module FsAllocate), data_lba for an empty file. *)
Allocate(c, ignored) ==
    LET free == {s \in DataLba .. DiskSectors[selected] : Fits(s, c, ignored)}
    IN  IF SectorCount(c) = 0
           THEN {DataLba}
           ELSE {s \in free : \A t \in free : s <= t}
                  \cup (IF free = {} \/ ReadFault THEN {NoSpace} ELSE {})

(* Read's checks: every sector of the extent is the one the checksum was   *)
(* taken over.                                                             *)
Intact(d, i) ==
    \A k \in 0 .. SectorCount(dir[d][i].content) - 1 :
        blocks[d][dir[d][i].start + k] = <<dir[d][i].content, k>>

-----------------------------------------------------------------------------
Init ==
    /\ super = [d \in Disks |-> FALSE]
    /\ dir = [d \in Disks |-> [i \in Index |-> FreeEntry]]
    /\ blocks = [d \in Disks |-> [s \in DataSectors(d) |-> Junk]]
    /\ selected = 0 /\ cwd = Root /\ call = Idle
    /\ ret = None
    /\ cut = [d \in Disks |-> FALSE]

(* The outcomes of disk_write_sector.                                      *)
SectorWrite(landed, ok) ==
    /\ landed \in BOOLEAN /\ ok \in BOOLEAN
    /\ ok => landed
    /\ ~ok => "write" \in Faults

Fail == ret' = Failed /\ UNCHANGED <<media, ram, cut>>

(* What ends a call before it looks a name up: fs_load_super.              *)
Unmounted == ~super[selected] \/ ReadFault

(* fs_write_entry, the last step of the calls that end with it.  The entry *)
(* is merged into its sector as just read back.                            *)
WriteEntry(i, e) ==
    \E landed, ok \in BOOLEAN :
        /\ SectorWrite(landed, ok)
        /\ dir' = IF landed THEN [dir EXCEPT ![selected][i] = e] ELSE dir
        /\ ret' = IF ok THEN Ok ELSE Failed

-----------------------------------------------------------------------------
(* Faulty variant: the working directory survives a change of disk.        *)
SelectInPlace(d) ==
    /\ call = Idle
    /\ IF d \in Disks
          THEN selected' = d /\ ret' = Ok /\ UNCHANGED <<media, cwd, call, cut>>
          ELSE Fail

(* Disk.Select: a disk that exists becomes current, at its root.           *)
Select(d) ==
    /\ call = Idle
    /\ IF d \in Disks
          THEN /\ selected' = d /\ cwd' = Root /\ ret' = Ok
               /\ UNCHANGED <<media, call, cut>>
          ELSE Fail

(* Disk.Format, first sector: the superblock.                              *)
FormatSuper ==
    /\ call = Idle
    /\ IF DiskSectors[selected] <= DataLba
          THEN Fail
          ELSE \E landed, ok \in BOOLEAN :
                  /\ SectorWrite(landed, ok)
                  /\ super' = [super EXCEPT ![selected] = @ \/ landed]
                  /\ IF ok
                        THEN /\ call' = [op |-> "format", next |-> 0]
                             /\ cut' = [cut EXCEPT ![selected] = TRUE]
                             /\ UNCHANGED ret
                        ELSE ret' = Failed /\ UNCHANGED <<call, cut>>
                  /\ UNCHANGED <<dir, blocks, selected, cwd>>

(* Faulty variant: the loop runs one sector past the directory.            *)
FormatPastDirectory ==
    /\ call.op = "format"
    /\ dir' = [dir EXCEPT ![selected] =
                  [i \in Index |-> IF DirSector(i) = call.next
                                      THEN FreeEntry ELSE @[i]]]
    /\ IF call.next < DirSectors
          THEN call' = [call EXCEPT !.next = @ + 1] /\ UNCHANGED <<cwd, ret, cut>>
          ELSE /\ call' = Idle /\ ret' = Ok /\ cwd' = Root
               /\ cut' = [cut EXCEPT ![selected] = FALSE]
    /\ UNCHANGED <<super, blocks, selected>>

(* Disk.Format, then each directory sector; only a Format that got through *)
(* all of them sends the program back to the root.                         *)
FormatDirectory ==
    /\ call.op = "format"
    /\ \E landed, ok \in BOOLEAN :
          /\ SectorWrite(landed, ok)
          /\ dir' = [dir EXCEPT ![selected] =
                        [i \in Index |-> IF landed /\ DirSector(i) = call.next
                                            THEN FreeEntry ELSE @[i]]]
          /\ IF ok /\ call.next < DirSectors - 1
                THEN /\ call' = [call EXCEPT !.next = @ + 1]
                     /\ UNCHANGED <<cwd, ret, cut>>
                ELSE /\ call' = Idle
                     /\ ret' = IF ok THEN Ok ELSE Failed
                     /\ cwd' = IF ok THEN Root ELSE cwd
                     /\ cut' = [cut EXCEPT ![selected] = ~ok]
          /\ UNCHANGED <<super, blocks, selected>>

(* Disk.CreateDir.                                                         *)
CreateDir(name) ==
    /\ call = Idle
    /\ \/ (Unmounted \/ name \notin ValidNames) /\ Fail
       \/ /\ super[selected] /\ name \in ValidNames
          /\ \E found \in FindChild(name, {"file", "dir"}), i \in FindFree :
                IF found # NotFound \/ i = NotFound
                   THEN Fail
                   ELSE /\ WriteEntry(i, [FreeEntry EXCEPT !.status = "dir",
                                                           !.parent = cwd,
                                                           !.name = name])
                        /\ UNCHANGED <<super, blocks, ram, cut>>

(* Disk.GotoDir of "/", ".", ".." and of a child's name.                   *)
Goto(id) == cwd' = id /\ ret' = Ok /\ UNCHANGED <<media, selected, call, cut>>

GotoRoot == call = Idle /\ \/ super[selected] /\ Goto(Root)
                           \/ Unmounted /\ Fail

GotoHere == call = Idle /\ \/ super[selected] /\ Goto(cwd)
                           \/ Unmounted /\ Fail

(* Faulty variant: the program stays where it is.                          *)
KeepDirectory == ret' = Failed /\ UNCHANGED <<media, ram, cut>>

(* When the current directory's entry is gone the program falls back to    *)
(* the root.                                                               *)
LoseDirectory ==
    cwd' = Root /\ ret' = Failed /\ UNCHANGED <<media, selected, call, cut>>

GotoParent ==
    /\ call = Idle
    /\ \/ Unmounted /\ Fail
       \/ super[selected] /\ cwd = Root /\ Goto(Root)
       \/ /\ super[selected] /\ cwd # Root
          /\ \/ Here[cwd - 1].status = "dir" /\ Goto(Here[cwd - 1].parent)
             \/ (Here[cwd - 1].status # "dir" \/ ReadFault) /\ LoseDirectory

GotoChild(name) ==
    /\ call = Idle
    /\ \/ (Unmounted \/ name \notin ValidNames) /\ Fail
       \/ /\ super[selected] /\ name \in ValidNames
          /\ \E i \in FindChild(name, {"dir"}) :
                IF i = NotFound THEN Fail ELSE Goto(i + 1)

(* fs_build_current_path: the ids met going up from a directory, at most   *)
(* MaxFiles of them; NotFound once an id names no directory.               *)
Upward(d, from) ==
    LET up[k \in 0 .. MaxFiles] ==
          IF k = 0 THEN from
          ELSE IF up[k - 1] \in DirIds /\ dir[d][up[k - 1] - 1].status = "dir"
                  THEN dir[d][up[k - 1] - 1].parent
                  ELSE NotFound
    IN  up

Rooted(d, id) == \E k \in 0 .. MaxFiles : Upward(d, id)[k] = Root

(* Disk.GetDir.                                                            *)
GetDir ==
    /\ call = Idle
    /\ \/ Unmounted /\ Fail
       \/ super[selected] /\ Rooted(selected, cwd) /\ Goto(cwd)
       \/ super[selected] /\ (~Rooted(selected, cwd) \/ ReadFault) /\ LoseDirectory

(* Disk.Write up to the first sector it writes: an overwrite keeps its     *)
(* entry and ignores its own old extent when looking for space.            *)
Reserve(name, c, i, ignored) ==
    \E start \in Allocate(c, ignored) :
        IF start = NoSpace
           THEN Fail
           ELSE /\ call' = [op |-> "write", index |-> i, name |-> name,
                            content |-> c, start |-> start, done |-> 0]
                /\ UNCHANGED <<media, selected, cwd, ret, cut>>

(* Faulty variant: a free entry is wanted for an overwrite, too.           *)
WriteBeginFresh(name, c) ==
    /\ call = Idle
    /\ \/ (Unmounted \/ name \notin ValidNames) /\ Fail
       \/ /\ super[selected] /\ name \in ValidNames
          /\ \E old \in FindChild(name, {"file"}), i \in FindFree :
                IF i = NotFound THEN Fail
                ELSE IF old # NotFound THEN Reserve(name, c, old, old)
                ELSE \E clash \in FindChild(name, {"dir"}) :
                        IF clash # NotFound THEN Fail ELSE Reserve(name, c, i, NotFound)

WriteBegin(name, c) ==
    /\ call = Idle
    /\ \/ (Unmounted \/ name \notin ValidNames) /\ Fail
       \/ /\ super[selected] /\ name \in ValidNames
          /\ \E old \in FindChild(name, {"file"}) :
                \/ old # NotFound /\ Reserve(name, c, old, old)
                \/ /\ old = NotFound
                   /\ \E clash \in FindChild(name, {"dir"}), i \in FindFree :
                         IF clash # NotFound \/ i = NotFound
                            THEN Fail
                            ELSE Reserve(name, c, i, NotFound)

(* Faulty variants: a failure restarts the copy for ever; the entry is      *)
(* committed before the last sector.                                       *)
WriteDataRetry ==
    /\ call.op = "write" /\ call.done < SectorCount(call.content)
    /\ \E landed, ok \in BOOLEAN :
          /\ SectorWrite(landed, ok)
          /\ blocks' = [blocks EXCEPT ![selected][call.start + call.done]
                           = IF landed THEN <<call.content, call.done>> ELSE @]
          /\ call' = [call EXCEPT !.done = IF ok THEN @ + 1 ELSE 0]
    /\ UNCHANGED <<super, dir, selected, cwd, ret, cut>>

WriteCommitEarly ==
    /\ call.op = "write"
    /\ call.done + 1 >= SectorCount(call.content)
    /\ WriteEntry(call.index,
                  [status |-> "file", parent |-> cwd, name |-> call.name,
                   start |-> call.start, content |-> call.content])
    /\ call' = Idle
    /\ UNCHANGED <<super, blocks, selected, cwd, cut>>

(* Disk.Write, one data sector.                                            *)
WriteData ==
    /\ call.op = "write"
    /\ call.done < SectorCount(call.content)
    /\ \E landed, ok \in BOOLEAN :
          /\ SectorWrite(landed, ok)
          /\ blocks' = IF landed
                          THEN [blocks EXCEPT ![selected][call.start + call.done]
                                  = <<call.content, call.done>>]
                          ELSE blocks
          /\ IF ok
                THEN call' = [call EXCEPT !.done = @ + 1] /\ UNCHANGED ret
                ELSE call' = Idle /\ ret' = Failed
          /\ UNCHANGED <<super, dir, selected, cwd, cut>>

(* Disk.Write, the directory entry.                                        *)
WriteCommit ==
    /\ call.op = "write"
    /\ call.done = SectorCount(call.content)
    /\ \/ WriteEntry(call.index,
                     [status |-> "file", parent |-> cwd, name |-> call.name,
                      start |-> call.start, content |-> call.content])
       \/ ReadFault /\ ret' = Failed /\ UNCHANGED dir
    /\ call' = Idle
    /\ UNCHANGED <<super, blocks, selected, cwd, cut>>

(* The calls that look one file up.                                        *)
OnFile(name, Found(_), Missing) ==
    /\ call = Idle
    /\ \/ Unmounted /\ Missing
       \/ /\ super[selected]
          /\ \E i \in FindChild(name, {"file"}) :
                IF i = NotFound THEN Missing ELSE Found(i)

Answer(r) == ret' = r /\ UNCHANGED <<media, ram, cut>>

(* Disk.Read: refuses what its buffer cannot hold and what fails the       *)
(* checksum.                                                               *)
ReadFile(i) ==
    LET c == Here[i].content
    IN  \/ SizeOf[c] < ReadCapacity /\ Intact(selected, i) /\ Answer(Data(c))
        \/ /\ SizeOf[c] >= ReadCapacity \/ ~Intact(selected, i) \/ ReadFault
           /\ Fail

Read(name) == OnFile(name, ReadFile, Fail)

(* Disk.Rem: the entry is zeroed; the data sectors are left as they are.   *)
RemoveFile(i) ==
    \/ WriteEntry(i, FreeEntry) /\ UNCHANGED <<super, blocks, ram, cut>>
    \/ ReadFault /\ Fail

(* Faulty variant: Disk.Rem takes directories too.                         *)
RemoveAny(name) ==
    /\ call = Idle /\ super[selected]
    /\ \E i \in FindChild(name, {"file", "dir"}) : i # NotFound /\ RemoveFile(i)

Remove(name) == OnFile(name, RemoveFile, Fail)

(* Disk.Exists and Disk.Size.                                              *)
FileExists(i) == Answer(Ok)
Exists(name) == OnFile(name, FileExists, Fail)

FileSize(i) == Answer(Size(SizeOf[Here[i].content]))
SizeCall(name) == OnFile(name, FileSize, Answer(Size(0)))

(* Power is lost, or the program ends, and the kernel boots again: RAM is  *)
(* back to its initial values and the scan selects disk 0.                 *)
Crash ==
    /\ "crash" \in Faults
    /\ selected' = 0 /\ cwd' = Root /\ call' = Idle /\ ret' = None
    /\ UNCHANGED <<media, cut>>

-----------------------------------------------------------------------------
Continue == FormatDirectory \/ WriteData \/ WriteCommit

Next ==
    \/ \E d \in 0 .. NumDisks : Select(d)
    \/ FormatSuper
    \/ \E n \in DirNames : CreateDir(n) \/ GotoChild(n)
    \/ GotoRoot \/ GotoHere \/ GotoParent \/ GetDir
    \/ \E n \in FileNames : \E c \in Contents : WriteBegin(n, c)
    \/ \E n \in FileNames : Read(n) \/ Remove(n) \/ Exists(n) \/ SizeCall(n)
    \/ Continue
    \/ Crash

(* A call under way runs on: the kernel is single threaded and has no      *)
(* interrupt handlers.                                                     *)
Spec == Init /\ [][Next]_vars /\ WF_vars(Continue)
-----------------------------------------------------------------------------
BlocksOK ==
    /\ blocks = [d \in Disks |-> blocks[d]]
    /\ \A d \in Disks : blocks[d] \in [DataSectors(d) -> Block]

TypeOK ==
    /\ super \in [Disks -> BOOLEAN]
    /\ dir \in [Disks -> [Index -> Entry]]
    /\ BlocksOK
    /\ selected \in Disks
    /\ cwd \in {Root} \cup DirIds
    /\ call \in {Idle} \cup WriteCall \cup FormatCall
    /\ ret \in Reply
    /\ cut \in [Disks -> BOOLEAN]

(* The extents of two live files never share a sector and lie in the data  *)
(* area, and the sectors a Write in progress fills belong to no file but   *)
(* the one it replaces: a device error or power loss can come at any step. *)
ExtentsDisjoint ==
    \A d \in Disks, i \in Index :
        /\ Extent(dir[d][i]) \subseteq DataSectors(d)
        /\ \A j \in Index \ {i} : Extent(dir[d][i]) \cap Extent(dir[d][j]) = {}

Reservation ==
    call.op = "write" =>
        LET claim == Sectors(call.start, call.content)
        IN  /\ claim \subseteq DataSectors(selected)
            /\ \A j \in Index \ {call.index} : Extent(Here[j]) \cap claim = {}

(* A readable file stays as it is and readable through every step that is  *)
(* not a step of a Write to it, its removal from the current directory, or *)
(* a Format of its disk.                                                   *)
BystandersSafe ==
    [][\A d \in Disks, i \in Index :
          dir[d][i].status = "file" /\ Intact(d, i) =>
              \/ dir'[d][i] = dir[d][i] /\ Intact(d, i)'
              \/ d = selected /\ call.op = "write" /\ call.index = i
              \/ d = selected /\ call.op = "format"
              \/ d = selected /\ call.op = "idle" /\ dir[d][i].parent = cwd
                   /\ dir'[d][i] = FreeEntry]_vars

(* A Write that reports success has left a file of the current directory,  *)
(* with that name and content, whose every sector reads back.              *)
CommittedReadable ==
    [][\A i \in Index :
          call.op = "write" /\ call.index = i /\ call' = Idle /\ ret' = Ok =>
              /\ Here'[i] = [status |-> "file", parent |-> cwd, name |-> call.name,
                             start |-> call.start, content |-> call.content]
              /\ Intact(selected, i)']_vars

(* No directory holds two live entries of one name, files and directories  *)
(* taken together.                                                         *)
NamesUnique ==
    \A d \in Disks : \A i, j \in Index :
        /\ Live(dir[d][i]) /\ Live(dir[d][j])
        /\ dir[d][i].parent = dir[d][j].parent /\ dir[d][i].name = dir[d][j].name
        => i = j

(* Unless a Format was interrupted, going up from the current directory    *)
(* and from every live entry reaches the root: no orphan and no cycle.     *)
PathsResolve ==
    \A d \in Disks : ~cut[d] =>
        /\ d = selected => Rooted(d, cwd)
        /\ \A i \in Index : Live(dir[d][i]) => Rooted(d, dir[d][i].parent)

(* An entry is only ever created inside a directory: its parent id is the  *)
(* root's or that of a directory entry (BafFsEntry.parent_id), also after  *)
(* a Format that failed half-way.                                          *)
CreatedInDirectory ==
    [][\A d \in Disks, i \in Index :
          LET e == dir'[d][i]
          IN  e # dir[d][i] /\ Live(e) =>
                  e.parent = Root \/ dir'[d][e.parent - 1].status = "dir"]_vars

(* A directory is created empty: no entry left over from an earlier use of *)
(* the same id becomes its child (unless a Format was interrupted).        *)
NewDirEmpty ==
    [][\A d \in Disks, i \in Index :
          ~cut[d] /\ dir[d][i].status # "dir" /\ dir'[d][i].status = "dir" =>
              \A j \in Index : Live(dir'[d][j]) => dir'[d][j].parent # i + 1]_vars

(* Every call returns.                                                     *)
CallsReturn == call.op # "idle" ~> call.op = "idle"
=============================================================================
