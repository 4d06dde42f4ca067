------------------------------ MODULE FileStore ------------------------------
(***************************************************************************)
(* What a BAF program may rely on from the Disk.* calls, with no sectors,  *)
(* entries or allocation in sight: every disk maps places (a directory and *)
(* a name) to contents.  Calls take effect at once except Write and        *)
(* Format; a Write that does not complete can spoil the file it replaces,  *)
(* which then reads as a failure and never as wrong data, and nothing      *)
(* else; a completed call survives every crash.  Sector reads are assumed  *)
(* to work here.                                                           *)
(***************************************************************************)
EXTENDS Integers, FiniteSets

CONSTANTS
    Disks,
    Root, DirIds,          \* directory handles
    Capacity,              \* files and directories a disk can hold
    Formattable,           \* disks large enough to be formatted
    FileNames, DirNames,   \* names the program uses
    ValidNames,            \* names the store accepts
    Contents, SizeOf,
    ReadCapacity,          \* Read returns contents shorter than this
    Absent, Damaged,       \* two values of a place that no content has
    Faults                 \* subset of {"write", "crash"}

VARIABLES
    formatted,   \* per disk
    files,       \* per disk: place -> content, Absent or Damaged
    tree,        \* per disk: directory id -> its place, or Unused
    selected, cwd,
    pending,     \* the Write or Format under way
    ret          \* what the last completed call returned

vars == <<formatted, files, tree, selected, cwd, pending, ret>>

Unused == <<>>
Place == ({Root} \cup DirIds) \X ValidNames
Nothing == [op |-> "idle"]
Wiping == [op |-> "format"]
Putting(p, c) == [op |-> "write", place |-> p, content |-> c]

None == [kind |-> "none"]
Ok == [kind |-> "ok"]
Failed == [kind |-> "failed"]
Answers(v) == IF v \in Contents /\ SizeOf[v] < ReadCapacity
                 THEN [kind |-> "data", value |-> v] ELSE Failed
Lengths(v) == CASE v = Absent -> {0}
                [] v = Damaged -> {SizeOf[c] : c \in Contents}
                [] OTHER -> {SizeOf[v]}

IsFile(p) == files[selected][p] # Absent
IsDir(p) == \E id \in DirIds : tree[selected][id] = p
Full == Cardinality({p \in Place : IsFile(p)})
          + Cardinality({id \in DirIds : tree[selected][id] # Unused}) >= Capacity
Usable(n) == formatted[selected] /\ n \in ValidNames

Init ==
    /\ formatted = [d \in Disks |-> FALSE]
    /\ files = [d \in Disks |-> [p \in Place |-> Absent]]
    /\ tree = [d \in Disks |-> [id \in DirIds |-> Unused]]
    /\ selected = 0 /\ cwd = Root
    /\ pending = Nothing /\ ret = None

-----------------------------------------------------------------------------
Store == <<formatted, files, tree>>
Idle == pending = Nothing /\ pending' = Nothing
Reply(r) == ret' = r
Refuse == Reply(Failed) /\ UNCHANGED <<Store, selected, cwd>>

(* A step that changes the medium reports success, or, when the device may *)
(* fail, failure without saying whether it took effect.                    *)
Outcome(effect, none) ==
    \/ effect /\ Reply(Ok)
    \/ "write" \in Faults /\ (effect \/ none) /\ Reply(Failed)

Select(d) ==
    /\ Idle
    /\ IF d \in Disks
          THEN selected' = d /\ cwd' = Root /\ Reply(Ok) /\ UNCHANGED Store
          ELSE Refuse

(* Nothing else of the disk, and nothing of the other disks, changes when  *)
(* a place is assigned.                                                    *)
Assign(p, v) == files' = [files EXCEPT ![selected][p] = v]

(* There may be no room for a content, unless it takes the place of one    *)
(* that is no shorter.                                                     *)
Cramped(p, c) ==
    /\ SizeOf[c] > 0
    /\ files[selected][p] \in Contents => SizeOf[c] > SizeOf[files[selected][p]]

PutBegin(n, c) ==
    LET p == <<cwd, n>>
    IN  /\ pending = Nothing
        /\ \/ /\ \/ ~Usable(n) \/ Cramped(p, c)
                 \/ IsDir(p) \/ (~IsFile(p) /\ Full)
              /\ Refuse /\ UNCHANGED pending
           \/ /\ Usable(n) /\ ~IsDir(p) /\ (IsFile(p) \/ ~Full)
              /\ pending' = Putting(p, c)
              /\ UNCHANGED <<Store, selected, cwd, ret>>

PutStep ==
    LET p == pending.place
        halfway == IF IsFile(p) THEN {files[selected][p], Damaged, pending.content}
                                ELSE {Absent}
    IN  /\ pending.op = "write"
        /\ \/ pending' = pending /\ UNCHANGED ret /\ \E v \in halfway : Assign(p, v)
           \/ /\ pending' = Nothing
              /\ Outcome(Assign(p, pending.content), \E v \in halfway : Assign(p, v))
        /\ UNCHANGED <<formatted, tree, selected, cwd>>

Get(n) ==
    /\ Idle
    /\ Reply(IF Usable(n) THEN Answers(files[selected][<<cwd, n>>]) ELSE Failed)
    /\ UNCHANGED <<Store, selected, cwd>>

Exists(n) ==
    /\ Idle
    /\ Reply(IF Usable(n) /\ IsFile(<<cwd, n>>) THEN Ok ELSE Failed)
    /\ UNCHANGED <<Store, selected, cwd>>

SizeCall(n) ==
    /\ Idle
    /\ \E len \in IF Usable(n) THEN Lengths(files[selected][<<cwd, n>>]) ELSE {0} :
          Reply([kind |-> "size", value |-> len])
    /\ UNCHANGED <<Store, selected, cwd>>

Delete(n) ==
    LET p == <<cwd, n>>
    IN  /\ Idle
        /\ IF Usable(n) /\ IsFile(p)
              THEN /\ Outcome(Assign(p, Absent), UNCHANGED files)
                   /\ UNCHANGED <<formatted, tree, selected, cwd>>
              ELSE Refuse

(* A new directory gets a handle that no directory has.                    *)
MakeDir(n) ==
    LET p == <<cwd, n>>
    IN  /\ Idle
        /\ IF Usable(n) /\ ~IsFile(p) /\ ~IsDir(p) /\ ~Full
              THEN /\ \E id \in DirIds :
                         /\ tree[selected][id] = Unused
                         /\ Outcome(tree' = [tree EXCEPT ![selected][id] = p],
                                    UNCHANGED tree)
                   /\ UNCHANGED <<formatted, files, selected, cwd>>
              ELSE Refuse

Go(id, r) == cwd' = id /\ Reply(r) /\ UNCHANGED <<Store, selected>>

GoRoot == Idle /\ IF formatted[selected] THEN Go(Root, Ok) ELSE Refuse

(* "." and the path query: the query loses a directory cut off from the    *)
(* root.                                                                   *)
GoHere == Idle /\ IF formatted[selected] THEN Go(cwd, Ok) ELSE Refuse

Connected(id) ==
    LET up[k \in 0 .. Capacity] ==
          IF k = 0 THEN {id}
          ELSE {tree[selected][x][1] :
                   x \in {y \in up[k - 1] \cap DirIds : tree[selected][y] # Unused}}
    IN  \E k \in 0 .. Capacity : Root \in up[k]

PathQuery ==
    Idle /\ IF ~formatted[selected] THEN Refuse
            ELSE IF Connected(cwd) THEN Go(cwd, Ok) ELSE Go(Root, Failed)

GoParent ==
    Idle /\ IF ~formatted[selected] THEN Refuse
            ELSE IF cwd = Root THEN Go(Root, Ok)
            ELSE IF tree[selected][cwd] = Unused THEN Go(Root, Failed)
            ELSE Go(tree[selected][cwd][1], Ok)

GoChild(n) ==
    /\ Idle
    /\ IF Usable(n) /\ IsDir(<<cwd, n>>)
          THEN \E id \in DirIds : tree[selected][id] = <<cwd, n>> /\ Go(id, Ok)
          ELSE Refuse

(* A Format empties the disk, in pieces; only its success says that all of *)
(* it is gone.                                                             *)
WipeBegin ==
    /\ pending = Nothing
    /\ \/ /\ selected \in Formattable
          /\ formatted' = [formatted EXCEPT ![selected] = TRUE]
          /\ pending' = Wiping /\ UNCHANGED ret
       \/ /\ selected \notin Formattable \/ "write" \in Faults
          /\ \/ UNCHANGED formatted
             \/ selected \in Formattable
                  /\ formatted' = [formatted EXCEPT ![selected] = TRUE]
          /\ Reply(Failed) /\ UNCHANGED pending
    /\ UNCHANGED <<files, tree, selected, cwd>>

Erased(f, g, gone) == \A x \in DOMAIN f : g[x] \in {f[x], gone}

WipeStep ==
    LET d == selected
    IN  /\ pending = Wiping
        /\ Erased(files[d], files'[d], Absent) /\ Erased(tree[d], tree'[d], Unused)
        /\ \A e \in Disks \ {d} : files'[e] = files[e] /\ tree'[e] = tree[e]
        /\ \/ pending' = Wiping /\ UNCHANGED <<cwd, ret>>
           \/ /\ pending' = Nothing /\ cwd' = Root /\ Reply(Ok)
              /\ \A p \in Place : files'[d][p] = Absent
              /\ \A id \in DirIds : tree'[d][id] = Unused
           \/ /\ "write" \in Faults
              /\ pending' = Nothing /\ Reply(Failed) /\ UNCHANGED cwd
        /\ UNCHANGED <<formatted, selected>>

(* Only what is not on a disk is lost.                                     *)
Crash ==
    /\ "crash" \in Faults
    /\ selected' = 0 /\ cwd' = Root /\ pending' = Nothing /\ ret' = None
    /\ UNCHANGED Store

Next ==
    \/ \E d \in Disks \cup {Cardinality(Disks)} : Select(d)
    \/ \E n \in FileNames : \E c \in Contents : PutBegin(n, c)
    \/ \E n \in FileNames : Get(n) \/ Exists(n) \/ SizeCall(n) \/ Delete(n)
    \/ \E n \in DirNames : MakeDir(n) \/ GoChild(n)
    \/ GoRoot \/ GoHere \/ PathQuery \/ GoParent
    \/ PutStep \/ WipeBegin \/ WipeStep \/ Crash

Spec == Init /\ [][Next]_vars
=============================================================================
