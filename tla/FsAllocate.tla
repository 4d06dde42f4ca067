----------------------------- MODULE FsAllocate -----------------------------
(***************************************************************************)
(* The extent allocator of the BAFS1 file store, fs_allocate in            *)
(* runtime/i386-disk.c, one loop iteration at a time.  The directory it    *)
(* reads is arbitrary: nothing in the code validates the entries of a      *)
(* directory, so start and count are any unsigned words and their sum may  *)
(* wrap.                                                                   *)
(***************************************************************************)
EXTENDS Integers

CONSTANTS
    Word,     \* 2^32 in the code: every quantity is a uint32_t
    DataLba,  \* BAF_FS_DATA_LBA
    MaxFiles  \* super->max_files

ASSUME AllocateAssumption ==
    /\ Word \in Nat \ {0} /\ DataLba \in Nat /\ MaxFiles \in Nat \ {0}
    /\ DataLba < Word

Index == 0 .. MaxFiles - 1
Nobody == -1               \* the caller's 0xFFFFFFFF: ignore no entry
U32 == 0 .. Word - 1

(* What the allocator looks at in an entry; no extent for a non-file.      *)
Extent == [file: BOOLEAN, start: U32, count: U32]
NoExtent == [file |-> FALSE, start |-> 0, count |-> 0]
Extents == [file: {TRUE}, start: U32, count: U32] \cup {NoExtent}

VARIABLES
    dir,        \* the directory's entries, fixed for the call
    needed,     \* sectors_needed
    ignored,    \* ignored_entry
    total,      \* super->total_sectors
    candidate,  \* candidate
    i,          \* the inner loop's index
    pc,         \* "enter", "while", "scan" or "done"
    result      \* "none", "found" (*start_out = candidate), "full", "unread"

inputs == <<dir, needed, ignored, total>>
vars == <<dir, needed, ignored, total, candidate, i, pc, result>>

-----------------------------------------------------------------------------
(* Faulty variants of the definitions below, for the mutation runs: a sum  *)
(* in a wider type, a closed upper bound, a test of one bound only.        *)
WideEnd(start, count) == start + count
TouchingOverlap(s, n, t, m) == s <= (t + m) % Word /\ t < (s + n) % Word
OneSidedOverlap(s, n, t, m) == m # 0 /\ s < (t + m) % Word /\ t <= s

(* fs_ranges_overlap, with the wrap of 32-bit addition.                    *)
End(start, count) == (start + count) % Word

Overlap(s, n, t, m) ==
    /\ n # 0 /\ m # 0
    /\ s < End(t, m)
    /\ t < End(s, n)

(* The entry at index j occupies sectors that the candidate wants.         *)
Blocks(j, s) ==
    /\ j # ignored
    /\ dir[j].file
    /\ Overlap(s, needed, dir[j].start, dir[j].count)

-----------------------------------------------------------------------------
(* fs_load_super has accepted total_sectors: it is above the data area's   *)
(* start.                                                                  *)
Init ==
    /\ dir \in [Index -> Extents]
    /\ needed \in U32
    /\ ignored \in Index \cup {Nobody}
    /\ total \in DataLba + 1 .. Word - 1
    /\ candidate = DataLba
    /\ i = 0
    /\ pc = "enter"
    /\ result = "none"

Return(r) == pc' = "done" /\ result' = r /\ UNCHANGED i

(* An empty file gets the first data sector and reserves nothing.          *)
Enter ==
    /\ pc = "enter"
    /\ IF needed = 0
          THEN Return("found")
          ELSE pc' = "while" /\ UNCHANGED <<i, result>>
    /\ UNCHANGED <<inputs, candidate>>

(* Faulty variants: the exact fit is refused; the candidate moves by the   *)
(* length of the request instead of the blocking entry's.                  *)
StrictWhile ==
    /\ pc = "while"
    /\ IF candidate < total /\ needed < total - candidate
          THEN pc' = "scan" /\ i' = 0 /\ UNCHANGED result
          ELSE Return("full")
    /\ UNCHANGED <<inputs, candidate>>

BumpByRequest ==
    /\ pc = "scan" /\ i \in Index
    /\ Blocks(i, candidate)
    /\ candidate' = End(dir[i].start, needed)
    /\ pc' = "while"
    /\ UNCHANGED <<inputs, i, result>>

(* The while condition; the subtraction cannot wrap after the first test.  *)
While ==
    /\ pc = "while"
    /\ IF candidate < total /\ needed <= total - candidate
          THEN pc' = "scan" /\ i' = 0 /\ UNCHANGED result
          ELSE Return("full")
    /\ UNCHANGED <<inputs, candidate>>

(* A blocking entry moves the candidate behind itself and restarts the     *)
(* scan.                                                                   *)
Bump ==
    /\ pc = "scan" /\ i \in Index
    /\ Blocks(i, candidate)
    /\ candidate' = End(dir[i].start, dir[i].count)
    /\ pc' = "while"
    /\ UNCHANGED <<inputs, i, result>>

PassEntry ==
    /\ pc = "scan" /\ i \in Index
    /\ ~Blocks(i, candidate)
    /\ i' = i + 1
    /\ UNCHANGED <<inputs, candidate, pc, result>>

(* The scan saw no conflict.                                               *)
Take ==
    /\ pc = "scan" /\ i = MaxFiles
    /\ Return("found")
    /\ UNCHANGED <<inputs, candidate>>

(* A directory sector could not be read (the ignored entry is not read).   *)
ReadError ==
    /\ pc = "scan" /\ i \in Index \ {ignored}
    /\ Return("unread")
    /\ UNCHANGED <<inputs, candidate>>

Next == Enter \/ While \/ Bump \/ PassEntry \/ Take \/ ReadError

(* The call runs to its end: nothing preempts it on the single core.       *)
Spec == Init /\ [][Next]_vars /\ WF_vars(Next)

-----------------------------------------------------------------------------
TypeOK ==
    /\ dir \in [Index -> Extent]
    /\ needed \in U32
    /\ ignored \in Index \cup {Nobody}
    /\ total \in DataLba + 1 .. Word - 1
    /\ candidate \in U32
    /\ i \in 0 .. MaxFiles
    /\ pc \in {"enter", "while", "scan", "done"}
    /\ result \in {"none", "found", "full", "unread"}

(* A place where the request could go, by the code's own overlap test.     *)
Fits(s) == s + needed <= total /\ \A j \in Index : ~Blocks(j, s)

(* The loop implements first fit: the start it returns is the least sector *)
(* of the data area that fits, and it reports a full disk only when no     *)
(* sector does; bumping past a blocking entry never skips a gap.           *)
FirstFit ==
    /\ result = "found" /\ needed # 0 =>
          /\ Fits(candidate)
          /\ \A s \in DataLba .. candidate - 1 : ~Fits(s)
    /\ result = "full" => \A s \in DataLba .. total : ~Fits(s)

(* What the caller relies on, stated without the code's overlap test: the  *)
(* sectors returned lie in the data area and belong to no other file whose *)
(* extent is an honest one (does not run past the end of the address       *)
(* space).                                                                 *)
SectorsFree ==
    result = "found" =>
        \A s \in candidate .. candidate + needed - 1 :
            /\ s \in DataLba .. total - 1
            /\ \A j \in Index \ {ignored} :
                  dir[j].file /\ dir[j].start + dir[j].count < Word
                      => s \notin dir[j].start .. dir[j].start + dir[j].count - 1

(* The candidate only moves up, whatever the directory holds: a wrapped    *)
(* extent end can never send the search backwards.                         *)
CandidateAscends == [][candidate' # candidate => candidate' > candidate]_vars

(* The call returns for every directory, a garbage one included.           *)
Returns == <>(pc = "done")
=============================================================================
