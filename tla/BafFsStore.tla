----------------------------- MODULE BafFsStore -----------------------------
(***************************************************************************)
(* BafFs implements FileStore as long as sector reads work: the refinement *)
(* mapping reads places, contents and directory handles off the entries.   *)
(***************************************************************************)
EXTENDS BafFs

FilesAt(d, p) == {i \in Index : /\ dir[d][i].status = "file"
                                /\ <<dir[d][i].parent, dir[d][i].name>> = p}

(* A place holds the content of its entry if every sector reads back.      *)
ValueAt(d, p) ==
    IF FilesAt(d, p) = {}
       THEN NoContent
       ELSE LET i == CHOOSE i \in FilesAt(d, p) : TRUE
            IN  IF Intact(d, i) THEN dir[d][i].content ELSE Junk

DirAt(d, id) ==
    LET e == dir[d][id - 1]
    IN  IF e.status = "dir" THEN <<e.parent, e.name>> ELSE <<>>

PendingCall ==
    CASE call.op = "write" -> [op |-> "write", place |-> <<cwd, call.name>>,
                               content |-> call.content]
      [] call.op = "format" -> [op |-> "format"]
      [] OTHER -> Idle

StoredFiles ==
    [d \in Disks |-> [p \in ({Root} \cup DirIds) \X ValidNames |-> ValueAt(d, p)]]
StoredTree == [d \in Disks |-> [id \in DirIds |-> DirAt(d, id)]]
LargeDisks == {d \in Disks : DiskSectors[d] > DataLba}

Store == INSTANCE FileStore WITH
    Capacity <- MaxFiles,
    Formattable <- LargeDisks,
    Absent <- NoContent,
    Damaged <- Junk,
    formatted <- super,
    files <- StoredFiles,
    tree <- StoredTree,
    pending <- PendingCall

(* Every behaviour of the file store code is one of the abstract store: a  *)
(* completed Write, Rem or CreateDir is durable and touches one place, a   *)
(* torn overwrite damages that place only and reads as a failure, Format   *)
(* reports success only when everything is gone.                           *)
StoreImplemented == Store!Spec

(* Each call beside its own abstract call.                                 *)
EachCall ==
    /\ \A d \in 0 .. NumDisks : Select(d) => Store!Select(d)
    /\ FormatSuper => Store!WipeBegin
    /\ FormatDirectory => Store!WipeStep
    /\ \A n \in DirNames :
           (CreateDir(n) => Store!MakeDir(n)) /\ (GotoChild(n) => Store!GoChild(n))
    /\ GotoRoot => Store!GoRoot
    /\ GotoHere => Store!GoHere
    /\ GotoParent => Store!GoParent
    /\ GetDir => Store!PathQuery
    /\ \A n \in FileNames, c \in Contents : WriteBegin(n, c) => Store!PutBegin(n, c)
    /\ WriteData \/ WriteCommit => Store!PutStep
    /\ \A n \in FileNames :
           /\ Read(n) => Store!Get(n)
           /\ Remove(n) => Store!Delete(n)
           /\ Exists(n) => Store!Exists(n)
           /\ SizeCall(n) => Store!SizeCall(n)
    /\ Crash => Store!Crash

(* Each call does what its own abstract call does, and fails only for the  *)
(* reasons that one has: a Write is refused for a name, a directory of     *)
(* that name, a full table or too little room, but an overwrite neither    *)
(* for a full table nor, if the new content is no longer than the old one, *)
(* for want of room; ".." and GetDir from a directory that is gone lead to *)
(* the root.                                                               *)
CallsAsPromised == [][EachCall]_vars
=============================================================================
