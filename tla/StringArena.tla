---------------------------- MODULE StringArena -----------------------------
(***************************************************************************)
(* The arena of the strings built at run time, runtime/i386-abi.ll.  A     *)
(* string is a block of the arena; what the program does with it is left   *)
(* out, and a request larger than the arena, of which baf.strlib.alloc     *)
(* reserves only a part, is not made.                                      *)
(***************************************************************************)
EXTENDS Integers, FiniteSets

CONSTANTS
    ArenaBytes,     \* 65536
    Scratch,        \* what baf.str.from_int takes for its digits, 24
    Digits,         \* the lengths of numbers, with the byte that ends them
    MaxFresh,       \* bound: the bytes built while the program holds a string
    MaxHeld         \* bound: the strings it holds

ASSUME StringArenaAssumption ==
    /\ ArenaBytes \in Nat \ {0} /\ Scratch \in 1 .. ArenaBytes
    /\ Digits \subseteq 1 .. ArenaBytes /\ MaxFresh \in Nat /\ MaxHeld \in Nat

(* A string the program holds: its block, and as a history the bytes built *)
(* since, the largest block among them, and whether it still reads as when *)
(* it was built.                                                           *)
Block == [base: Nat, size: Nat \ {0}, since: Nat, largest: Nat, intact: BOOLEAN]

VARIABLES
    next,       \* baf.strlib.arena.next
    held        \* the strings the program holds

arenaVars == <<next, held>>

-----------------------------------------------------------------------------
(* baf.strlib.alloc.  Faulty: a block that would end with the arena is     *)
(* moved to its beginning, too.                                            *)
BaseBeforeEnd(at, size) == IF at + size >= ArenaBytes THEN 0 ELSE at
Base(at, size) == IF at + size > ArenaBytes THEN 0 ELSE at

Disjoint(b, base, size) == b.base + b.size <= base \/ base + size <= b.base

Aged(b, base, size) ==
    [b EXCEPT !.since = @ + size, !.largest = IF size > @ THEN size ELSE @,
              !.intact = @ /\ Disjoint(b, base, size)]

Fresh(base, size) ==
    [base |-> base, size |-> size, since |-> 0, largest |-> 0, intact |-> TRUE]

(* The program may keep the new string.                                    *)
Keeping(others, new) ==
    \/ held' = others
    \/ Cardinality(held) < MaxHeld /\ held' = others \cup {new}

ArenaInit == next = 0 /\ held = {}

(* A concatenation or a substring.                                         *)
Build(size) ==
    LET base == Base(next, size)
        others == {Aged(b, base, size) : b \in held}
    IN  /\ \A b \in held : b.since + size <= MaxFresh
        /\ next' = base + size
        /\ Keeping(others, Fresh(base, size))

(* baf.str.from_int: the digits are built in a block of their own first.   *)
BuildNumber(size) ==
    LET low == Base(next, Scratch)
        base == Base(low + Scratch, size)
        others == {Aged(Aged(b, low, Scratch), base, size) : b \in held}
    IN  /\ \A b \in held : b.since + Scratch + size <= MaxFresh
        /\ next' = base + size
        /\ Keeping(others, Fresh(base, size))

(* The program no longer uses a string.                                    *)
Drop == (\E b \in held : held' = held \ {b}) /\ UNCHANGED next

ArenaNext ==
    \/ \E size \in 1 .. ArenaBytes : Build(size)
    \/ \E size \in Digits : BuildNumber(size)
    \/ Drop

ArenaSpec == ArenaInit /\ [][ArenaNext]_arenaVars

-----------------------------------------------------------------------------
ArenaTypeOK ==
    /\ next \in 0 .. ArenaBytes
    /\ \A b \in held : b \in Block /\ b.base + b.size <= ArenaBytes

(* A string is intact while it, what was built since and the largest block *)
(* among that fit into the arena, but for one byte: a block that does not  *)
(* fit before the end leaves a gap smaller than itself, so the arena comes *)
(* round to a string that much sooner than "after ARENA_BYTES of fresh     *)
(* strings", which is what its comment says (runtime/i386-abi.ll:266).     *)
StringsLast ==
    \A b \in held : b.size + b.since + b.largest <= ArenaBytes + 1 => b.intact
=============================================================================
