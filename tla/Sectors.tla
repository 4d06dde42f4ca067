------------------------------- MODULE Sectors -------------------------------
(***************************************************************************)
(* What the two disk drivers of runtime/i386-disk.c share: the sector call *)
(* in progress, the buffers in memory and the media.                       *)
(*                                                                         *)
(* The callers are the BAFS1 functions.  They transfer the superblock from *)
(* and to their stack and all other sectors through one buffer for all     *)
(* disks, fs_sector, which they fill only after another sector of the same *)
(* disk was transferred (the superblock, an entry, the sector before).     *)
(***************************************************************************)
EXTENDS Integers

CONSTANTS
    Disks,      \* indices of disks[]
    Kinds,      \* the kinds the scan may find: disks[d].kind per disk
    Lbas,       \* per disk: its sectors
    SuperLba,   \* BAF_FS_SUPER_LBA
    Contents,   \* what a sector can hold
    Blank,      \* what every sector holds at first, one of Contents
    Junk,       \* whatever is in memory that nobody set
    NoBlock,    \* no content
    Faults      \* subset of {"read", "write", "program", "flush", "timeout"}

DiskKind == {"ahci", "ide"}             \* of a registered disk

ASSUME SectorsAssumption ==
    /\ Disks # {} /\ Disks \subseteq Nat
    /\ Kinds \subseteq [Disks -> DiskKind]
    /\ Lbas \in [Disks -> SUBSET Nat]
    /\ Blank \in Contents
    /\ Junk \notin Contents /\ NoBlock \notin Contents \cup {Junk}

Buffers == {"sector", "stack"}
Buffer(l) == IF l = SuperLba THEN "stack" ELSE "sector"
Values == Contents \cup {Junk}
NoDisk == -1

VARIABLES
    kind,       \* disks[d].kind, set by the scan
    medium,     \* per disk and sector: what it keeps without power
    cache,      \* per disk and sector: in the drive's write cache, or NoBlock
    memory,     \* the buffers
    call,       \* the disk_read_sector or disk_write_sector in progress
    ret,        \* what the last one returned
    opened,     \* the disk of the last one, if it succeeded
    passed      \* history, per disk and sector: what the last write passed

shared == <<kind, medium, cache, memory, call, ret, opened, passed>>
device == <<medium, cache>>

AllLbas == UNION {Lbas[d] : d \in Disks}
View(d, l) == IF cache[d][l] = NoBlock THEN medium[d][l] ELSE cache[d][l]

Idle == [op |-> "idle"]
ReadCall == [op: {"read"}, disk: Disks, lba: AllLbas,
             value: {NoBlock}, pc: {"start", "transfer"}]
WriteCall == [op: {"write"}, disk: Disks, lba: AllLbas,
              value: Contents, pc: {"start", "transfer", "program", "flush", "flushed"}]

SectorsInit ==
    /\ kind \in Kinds
    /\ medium = [d \in Disks |-> [l \in Lbas[d] |-> Blank]]
    /\ cache = [d \in Disks |-> [l \in Lbas[d] |-> NoBlock]]
    /\ memory = [b \in Buffers |-> Junk]
    /\ call = Idle /\ ret = "none" /\ opened = NoDisk
    /\ passed = [d \in Disks |-> [l \in Lbas[d] |-> Blank]]

-----------------------------------------------------------------------------
(* disk_read_sector and disk_write_sector; both drivers refuse a sector    *)
(* that the disk does not have.                                            *)
BeginRead(d, l) ==
    /\ call = Idle
    /\ call' = [op |-> "read", disk |-> d, lba |-> l,
                value |-> NoBlock, pc |-> "start"]
    /\ UNCHANGED <<kind, device, memory, ret, opened, passed>>

(* The caller fills its buffer first.                                      *)
BeginWrite(d, l, v) ==
    /\ call = Idle
    /\ l # SuperLba => opened = d
    /\ memory' = [memory EXCEPT ![Buffer(l)] = v]
    /\ call' = [op |-> "write", disk |-> d, lba |-> l,
                value |-> v, pc |-> "start"]
    /\ passed' = [passed EXCEPT ![d][l] = v]
    /\ UNCHANGED <<kind, device, ret, opened>>

OutOfRange(d, l) ==
    /\ call = Idle /\ l \notin Lbas[d]
    /\ ret' = "failed" /\ opened' = NoDisk
    /\ UNCHANGED <<kind, device, memory, call, passed>>

(* The end of a sector call.  A BAFS1 function that sees one fail returns, *)
(* and its frame on the stack is reused.                                   *)
Succeed == call' = Idle /\ ret' = "ok" /\ opened' = call.disk

Fail ==
    /\ call' = Idle /\ ret' = "failed" /\ opened' = NoDisk
    /\ memory' = [memory EXCEPT !["stack"] = Junk]

(* A polling loop runs out while the device is still at work.              *)
GiveUp == "timeout" \in Faults /\ Fail

Goto(pc) == call' = [call EXCEPT !.pc = pc]

(* What the drives do with a sector: a write goes to the cache, a flush    *)
(* empties it.                                                             *)
Cached(d, l, v) == cache' = [cache EXCEPT ![d][l] = v]

Flushed(d) ==
    /\ medium' = [medium EXCEPT ![d] = [l \in Lbas[d] |-> View(d, l)]]
    /\ cache' = [cache EXCEPT ![d] = [l \in Lbas[d] |-> NoBlock]]
=============================================================================
