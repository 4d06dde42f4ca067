# A TLA+ verification of BackAndForth

BackAndForth is a small language with a compiler (`bafc`), hosted runtimes for
POSIX and Windows, and a freestanding i386 runtime with a console, disk drivers
and a persistent file store.  This directory holds the TLA+ model of its parts,
the TLC runs that check the model on small instances and TLAPS proofs of what
matters most for every instance.

Contents: [the system](#1-the-system) -
[what is modelled](#2-modules-and-how-they-correspond-to-the-code) -
[properties](#3-properties) - [runs](#4-runs-and-bounds) -
[fairness](#5-fairness) - [proofs](#6-proofs) -
[findings](#7-what-the-model-found) -
[limits](#8-abstractions-and-what-is-not-modelled) - [plan](#9-plan).

## 1. The system

| Component | Code | State it keeps | Operations | What makes it correct |
|---|---|---|---|---|
| BAFS1 file store | `runtime/i386-disk.c` 797-1403 | superblock, 64 directory entries and file extents on each disk; `selected_disk`, `fs_current_directory` in RAM | `Disk.Select Format CreateDir GotoDir GetDir Write Read Rem Exists Size Files Info` | extents disjoint, names unique, a completed call durable, a failed one confined to its target, no orphans |
| Extent allocator | same, 985-1021 | none (reads the directory) | `fs_allocate` | first fit, terminates for any directory content |
| Block layer | same, 40-68, 708-724 | `disks[]`, callers' buffers | sector read and write | a sector call touches one sector |
| Disk scan | same, 170-198, 246-287, 645-739 | `disk_count`, `selected_disk` | `Disk.Scan Count List Hex` | every disk found once |
| AHCI driver | same, 377-643 | command slot, buffers and tables per port | prepare, submit, read, write, flush | slot owned by one command, success means done and flushed |
| IDE PIO driver | same, 200-375 | task file of a channel shared by two drives | probe, read, write, flush | status belongs to the command, LBA28/48 boundary |
| Console, keyboard, power | `runtime/i386-core.c` | cursor, colours, modifiers | write, clear, line input, reboot | cursor inside the screen, line never longer than its buffer, the screen shows the line |
| ABI shims, string arena | `runtime/i386-abi.ll` | 64 KiB wrapping arena | concat, substring, conversions | a string does not change while it, what was built since and the largest block of that fit into the arena |
| Hosted runtimes | `runtime/posix.ll`, `runtime/windows.ll` | input buffer | line input, output, exit | all bytes written, end of input handled |
| Lexer | `src/lexer.c` | position in the text | tokens | - |
| Parser | `src/parser.c` | token position, error count | AST | the program that was written, operator by operator |
| Include expansion | `src/include.c` | files expanded, stack of open files | expand | each file once, cycles reported |
| Semantic analysis | `src/sema.c` | symbol tables, inferred types | inference fixpoint, checks | inference settles, always-returns sound, what is accepted can be generated |
| Code generation | `src/codegen.c` | loop stack, label and slot counters | LLVM text | code LLVM accepts, which does what the program means |
| Driver and utilities | `src/main.c`, `src/util.c` | none | modes, buffers | - |
| Scripts, boot code, installer, editor | `baf`, `bafb`, `scripts/`, `windows/`, `arch/`, `installer/`, `tools/` | temporary files | build and run | - |

`bafc` runs once per program, stage after stage: the includes of the source are
expanded into one text, the text is lexed and parsed, the program is analysed and
its types inferred, and LLVM code is written; `clang` and the linker do the
rest.  Nothing in it is concurrent, and nothing is kept between runs.  What is
hard there is what no single test shows: the order of two checks (a file that is
open, a file that was included), passes that must reach a fixpoint whatever the
order of the declarations, and code whose labels, slots and loops must agree over
every nesting of the statements.

A BAF program calls the runtime through the symbols `baf_core_*` (`@baf.*` in
the generated code, with shims in `i386-abi.ll`).  The kernel has one thread of
control, no interrupt handlers and no preemption: a call runs to its end.  What
runs beside it is the hardware: a disk that fails a sector, answers late, or
loses power between two sectors, and a keyboard.  The file store reaches the
disks only through `disk_read_sector` and `disk_write_sector`, the two drivers
reach the devices through registers and, for AHCI, DMA, and the scan, run by the
first disk call, gives both their table of disks.  The hard behaviours are thus
partial failures and power loss between sector writes, timeouts of the drivers,
state kept across calls (the working directory, the shared sector buffer, the
arena of strings, the screen), long sequences of legal calls, limits (disks,
contexts, buffers), and wrapping arithmetic on metadata that nothing validates.
`PROJECT.json` lists each hazard at its line with the properties that cover it.

## 2. Modules and how they correspond to the code

`PROJECT.json` maps each definition to the lines it models.

* **`FsAllocate`** - `fs_ranges_overlap` and `fs_allocate`, one loop iteration
  per step (`While`, `Bump`, `PassEntry`, `Take`, `ReadError`), on words of
  `Word` values with the wrap of unsigned addition.  The directory is any
  function from indices to extents, because no code validates entries.
* **`BafFs`** - the file store.  `dir[d][i]` is entry `i` of disk `d`,
  `blocks[d][s]` the data sector `s`, `super[d]` whether LBA 1 holds a
  superblock that `fs_load_super` accepts; `selected`, `cwd` and `call` are the
  kernel's RAM.  A call that only reads, or reads and then writes one sector, is
  one step.  `Write` and `Format` take one step per sector
  (`WriteBegin`, `WriteData`..., `WriteCommit`; `FormatSuper`,
  `FormatDirectory`...), so that an error or `Crash` can come between any two.
  A table scan (`FindChild`, `FindFree`, `Allocate`) returns its first hit and,
  when sector reads may fail, also "not found", as the code does.  A sector
  write has three outcomes (`SectorWrite`): done, failed and not on the medium,
  failed although on the medium.
* **`FileStore`** - the abstract specification: a disk maps places (a directory
  and a name) to contents.  There are no sectors or entries.  A write that does
  not complete may leave its own place old, new or damaged (reads as a
  failure), and nothing else; completed calls survive every crash.  A Write is
  refused for a bad name, a directory of that name, a new place in a full table, or
  want of room, which a content no longer than the one it replaces never meets
  (`Cramped`); where the free space lies is not the abstract store's business.
* **`BafFsStore`** - the refinement mapping from `BafFs` to `FileStore`
  (`StoreImplemented`).  `StoredFiles`: a place's content is its entry's if every
  sector reads back, `Damaged` otherwise; `StoredTree`: a directory handle's place
  is its entry's.  `EachCall` says which abstract call each call must be, where
  `StoreImplemented` is content with any.
* **`MCBafFs`** - disks, names and contents for TLC.
* **`Sectors`** - what the two drivers share: the sector call in progress
  (`call`, with the place in the driver as `pc`), the callers' buffers
  (`memory`: the stack for the superblock, `fs_sector` for the rest), and the
  drives' media and write caches.
* **`AhciPort`** - `ahci_submit` on slot 0 of a port.  The device is a second
  actor: it owns the slot while its bit in PxCI is set, moves the data between
  the buffer *as it is then* and the drive, and clears the bit, or raises an
  error and keeps the slot.
* **`IdeChannel`** - `ide_read_sector`, `ide_write_sector` and a channel whose
  drives share one task file: `chosen` is the drive whose status the driver
  reads before it selects its own; a drive can be left waiting for data by a
  call that gave up.
* **`BlockLayer`** - the three together: `Caller`, `Driver`, `Device`.
* **`MCBlockLayer`** - disks, kinds and contents for TLC.

The rest of the freestanding runtime:

* **`DiskScan`** - `baf_core_disk_scan`: a computer is its PCI slots, the drives
  on its IDE channels and the ports of its AHCI controllers.  `slot` and
  `function` are the positions of the loops over the bus, `port` that of the loop
  over the ports of the AHCI controller in hand, `drives` the drives still to be
  asked of the IDE controller in hand; there is one action per turn of a loop
  (`BeginScan`, `NextSlot`, `ScanFunction`, `ProbeDrive`, `ProbePort`, `ScanEnd`,
  `ScanDone`).  `disks`, `contexts` and `selected` are the code's variables;
  `programmed` records which port was given which context's memory.
  `ComputerAssumption` is the rule of PCI that two functions decode no address in
  common (the firmware sees to it, and the scan relies on it), and that a drive
  without 48-bit addresses has no more sectors than 28 bits count.
* **`Console`** - the screen and the line editor of `baf_core_input_read`, a
  character or a key per step.  `before` is a history of what stood on the
  screen when the line began.
* **`StringArena`** - `baf.strlib.alloc` and its callers.  A string the program
  holds is a block with a history of how much was built since.
* **`Runtime`** - the three side by side (they share nothing), and **`MCRuntime`**
  its computers, screen and keys for TLC.

The compiler:

* **`Includes`** - `include.c`, a line or a directory entry per step: `stack` is
  `ctx->stack` with the position each open path has reached (the recursion of
  `expand_path`), `expanded` the set of files taken up, `output` the lines
  copied.
* **`Syntax`** - the AST of `baf.h` and the table of builtins, as records.
* **`Parser`** - `parser.c`: each `Parse...` takes a parser state (the tokens
  left, the value of the last construct, whether an error was seen) to another,
  as each function of the code does.  They call each other through `Descend`,
  the one recursive operator.
* **`Signatures`** - what the analysis and the generation both read: the functions
  a program declares, the parameter an argument is for, the types of results and
  operators, and the order of the bodies (`Units`).
* **`Sema`** - `sema.c`: `Resolve`, then `Infer` one pass per step, then
  `Validate`.  `typing` holds the inferred types of functions, parameters and
  names in their scopes; an `Infer...` operator takes it to what the matching
  function leaves, and `...Ok` is what `validate_*` accepts.
* **`Codegen`** - `codegen.c`: the text of a function is a sequence of lines
  (labels, terminators, instructions).  `gen` carries what `ModuleGen` and `CgEnv`
  carry.  `codegen_block`, `codegen_expr` and the rest call each other down the
  tree; the calls under way are the stack `work`, the innermost first, and each
  action does what such a call does up to its next one: `CgWhile`, say, takes the
  labels and opens the condition's block, and leaves on the stack the test, the
  body, the pop of the loop and the jump back.  There is no recursion in it, so it
  can be proved about.  The loop stack holds `MaxLoops` frames.  `Built` is what
  the generator relies on and does not test: that a call has the arguments of its
  function, and that the parts of a statement are statements and expressions.
  `CodegenSpec` is the generator alone, for any program that is `Built`.
* **`Generated`** - the generated lines at work: frames with temporaries and
  slots, one line per step.  A call of the runtime is answered with any value of
  its type, from `Answers`; a text that `inpt`, `Disk.Read` or `Disk.GetDir`
  returns remembers the static buffer it lies in, and using it after the buffer
  was refilled sets `spoiled`.
* **`Words`** - the operators of the language on `Width`-bit integers, and the
  texts of numbers, shared by `Generated` and `Meaning`.
* **`Grammar`** - the reference for the parser, from `docs/GRAMMAR.md`: how a
  program is spelled, with the parentheses its operators need and no others.
* **`Meaning`** - the reference for the generator: a direct walk over the
  program that follows the answers the runtime has given so far and says which
  call comes next, or that the program ends.  It knows no labels or slots.
* **`Bafc`** - `main.c`: the stages in order, each with the places where it
  stops.  **`MCBafc`** holds the source trees and the families of programs.

Theorems are in **`FsAllocateProofs`**, **`BafFsProofs`**, **`BafFsStoreProofs`**,
**`BlockLayerProofs`**, **`RuntimeProofs`** (the console, the arena and the table of
disks), **`IncludesProofs`**, **`CodegenProofs`** (the blocks of the generated code)
and **`CodegenValuesProofs`** (its values).

The fault set `Faults` selects what the environment does: `"read"` (a sector
read fails), `"write"` (a sector write reports failure), `"crash"` (power loss
or end of the program, then a new boot that selects disk 0).  In the block
layer they are the commands that may fail (`"read"`, `"write"`, `"flush"`),
`"program"` (an IDE drive reports an error after it took the data) and
`"timeout"` (a polling loop runs out).

The modules also hold faulty variants of some definitions (each commented as
such).  They are not part of the model; replacing a definition by its variant
makes the property named in `PROJECT.json` fail, which shows that the property
depends on that code.

## 3. Properties

* Allocator: `FirstFit`, `SectorsFree` (stated without the code's overlap
  test), `CandidateAscends`, `Returns`.
* File store: `ExtentsDisjoint` and `Reservation` (no two files share a sector,
  sectors chosen by a Write stay free until the commit), `BystandersSafe` (only
  a Write to a file, its removal or a Format of its disk makes a readable file
  unreadable), `CommittedReadable` (a Write that reports success reads back),
  `NamesUnique`, `PathsResolve` (no orphans or cycles), `NewDirEmpty` (a reused
  directory id inherits no children), `CallsReturn`.  `PathsResolve` and
  `NewDirEmpty` exempt disks whose Format was cut short (section 7 says what is
  wrong with those); `CreatedInDirectory`, that a call creates no entry in a directory
  that is gone, does not hold there.
* Refinement: `StoreImplemented` (every behaviour of the sectors is one of the
  abstract store; checked on a small instance and proved for all).  A behaviour in
  which a call is refused without need is one of that store too, so
  `CallsAsPromised` asks more: every call does what its own abstract call does and
  fails only for that call's reasons.  An overwrite is not refused for a full table
  nor, if it is no longer than the old content, for want of room; `..` and `GetDir`
  from a directory that is gone lead to the root.
* Block layer: `SectorApi` (a sector changes only during a write call to it, and
  to what was passed), `WritesDurable` (success means on the medium, behind the
  cache), `ReadsCurrent`, `SlotOwned` (a command the device owns is not
  rewritten), `CallsReturn`.  `SectorContent` is the least that is left to ask
  when devices answer late, and does not hold.

* Runtime: `DisksApart` (no two disks are one drive, and no two share an AHCI
  context or a port's memory), `ScanComplete` (the scan ends, and within the limits
  it has found every drive it can reach, with its size), `EchoMatches` (while a
  line is edited the screen before the cursor is the prompt and the line as it
  will be returned), `StringsLast` (a string of the arena is intact while it, what was
  built since and the largest block of that are together at most one byte more than
  the arena; the comment on the arena promises more, see section 7).
* Includes: `OnceEach` (no line twice, whole files), `CyclesRejected` (a root that
  is accepted reaches no file that reaches itself, over all paths of directives),
  `IncludedBefore` (the text of what is named precedes the rest).
* Parser: `ParsedBack` (what was spelled by the grammar is read back; of text that
  is accepted no word is lost).
* Analysis: `InferenceSettles` (when validation begins, another pass would change
  nothing), `HandedOver` (what is accepted is what the generator takes for
  granted), `EndUnreachable` (the comment "unreachable in a well-typed program" at
  the closing return).
* Generation, the text: `BlocksAccepted` (every block ends in its one terminator,
  labels are defined once, targets exist), `ValuesAccepted` (on every path to a use
  the value has been computed), `TypesAccepted` (values have the types that calls,
  stores, tests and returns say they have).
* Generation, what it does:
  `RunsAsWritten` (the calls of the runtime, their order, their arguments and the
  end are those of the program's meaning), `Progress` (expansion ends, and the
  program made reaches a call or its end unless the source itself spins).
  `RunsAsWritten` covers programs whose loops nest no deeper than the loop stack and
  whose steps use no variable of the body, up to the first read of a refilled buffer
  or division without a value (`Covered`).  Section 7 says what happens outside.
  `VisibleOnly` is the rule on scopes of `docs/LANGUAGE.md`, and does not hold.

## 4. Runs and bounds

| Run | Question | Bounds |
|---|---|---|
| `fs_allocate` | the allocator over every directory | 2 entries, 3-bit words: all 507,000 inputs, wrapping extents included |
| `fs_store` | names, selection, isolation of disks, overwrites, full tables and disks; refinement, and each call its own abstract call; every call returns | 2 disks of 2 and 1 data sectors, 2 entries in 2 directory sectors, a name the store refuses, contents of two sectors that `Read` returns and refuses, write errors and crashes |
| `fs_read_errors` | extents, bystanders, commits and paths when reads fail too | 1 disk of 2 data sectors and one too small to format, 3 entries in 2 directory sectors, contents of no, one and two sectors, all faults |
| `fs_duplicate` | finding 1 | only read faults |
| `fs_cut_format` | finding 2 | only write faults |
| `block_layer` | the sector contract `BafFs` relies on | 2 disks of every mix of kinds, 2 sectors and 1 sector, 2 contents, failing reads, writes and flushes |
| `block_timeout` | timeouts in every wait, errors | the same with 1 content |
| `block_late` | finding 3 | only timeouts |
| `block_program` | finding 4 | only errors after the data |
| `runtime` | the scan, the console, the arena | see below |
| `compile` | the compiler and the code it makes | see below |
| `step_scope` | finding 5 | as `compile` |

Three entries are the fewest with a directory, a file in it and another file,
and with a freed index between two used ones; two directory sectors let a
Format stop between them; two-sector files next to one-sector ones are what
fragmentation and overlapping in-place overwrites need.  The disks
are small enough that the data area fills up.  In `fs_store` one
content of two sectors fills the larger disk, and nothing but directories fits on the
other; a working directory that is gone is met after a Format that stopped between the
two directory sectors.  Names behave alike, so two valid names and an invalid one show
every clash.  In the block layer two disks make a
shared channel, two ports with one buffer, or one of each; a disk with two
sectors tells a wrong address from a wrong disk; what a timeout does to commands
and calls does not depend on contents.

`runtime`: two slots, each with any of an IDE controller in either mode or with a
dead channel, AHCI controllers of two or three ports (empty, silent, stuck and
working ones), such devices as functions of one slot, and nothing; drives on three channels; 4 disks and 3 contexts, so that both limits are
met and passed; words of 8 values with a 28-bit count of at most 4, so that drives
lie below, at and beyond each limit.  A screen of 2 by 2 cells with tabs of 2 wraps
and scrolls within two characters; buffers of 1 and 6 bytes; at most `MaxWritten`
= 2 characters of a program between two lines.  An arena of 6 bytes; `MaxHeld` = 2
strings; a string is dropped before more than `MaxFresh` = 10 bytes are built after
it, which is past the point where it may be overwritten.

`compile` has 110,517 states, most of them of the generator at work or of the code
it made.  Its inputs are source trees of a root of three lines, a file of two and a file of none
or two, a directory of none or two of them, with directives to every path, one that
does not exist and malformed ones, and with and without unreadable paths, each
with an empty program; and with a plain tree the families of programs of `MCBafc`:
loops of each kind in each other with every exit, logic with effects on both sides,
numbers at the edge of 4-bit words, returns in every branch, chains of functions
without annotations in every order, texts, calls with named arguments and
recursion, two statements of any kind in a loop of a function, expressions of every
pair of operators in both groupings, programs the analyser refuses, and a program
of every construct with any one token left out.  `MaxPasses` = 4 is above the longest
chain (a longer one shows only that 64 is a limit); `MaxLoops` = 2 is the depth of the
nestings and one less than some, so that a dropped frame occurs (and is excluded by
`Shallow` from `RunsAsWritten`); `MaxAnswers` = 5 calls of the runtime are followed, two turns of a loop with two
calls and what comes after it; a walk of the reference longer than `Fuel` = 20
steps without a call counts as spinning.

## 5. Fairness

`BafFs!Spec` assumes weak fairness of `Continue`, the next sector of a call
under way: the kernel is one thread and its loops are bounded, so a call that
has begun runs on.  It assumes no fairness of calls, crashes or faults.
`FsAllocate!Spec` assumes weak fairness of `Next` for the same reason.
`BlockLayer!Spec` assumes weak fairness of `Driver` and none of the devices: each
wait is a counted loop that ends with an answer or gives up.  `Runtime!Spec`
assumes weak fairness of `ScanNext` (a loop of the one processor) and none of keys
or calls.  `Bafc!Spec` assumes weak fairness of `Expand`, `Write` and `Execute`: the
compiler is one process that runs on, and so is the program.  No fairness is
assumed of answers: `Progress` ends at a call of the runtime.

## 6. Proofs

Every theorem holds for all values of the constants that satisfy the modules'
`ASSUME`s (`AllocateAssumption`, `FsAssumption`, `LayoutAssumption`,
`SectorsAssumption`, `DiskScanAssumption`, `ComputerAssumption`,
`ConsoleAssumption`, `StringArenaAssumption`, `IncludesAssumption`,
`CodegenAssumption`).  Two facts are
assumed of the faults, where the findings show that they are needed: see
`NamesStayUnique`, `StoreIsImplemented`, `CallsDoAsPromised` and the sector contract
below.

`FsAllocateProofs`: an invariant `IInv` says that every sector from the start
of the data area to the candidate is refused, because some entry blocks it or
the request no longer fits, and that the entries passed in the current scan do
not block the candidate.  The crux is `BumpSkipsNoGap`: when entry `i` blocks
`s`, it also blocks each later start below the end of `i`, so moving behind it
skips no place.  `BumpAscends` needs `Overlap` to compare with the wrapped end.
From `IInv` follow `IsFirstFit`, `ReturnsFreeSectors` and `Ascends`.

`BafFsProofs`: `StepCases` reduces the thirteen disjuncts of `Next`, with their
failure outcomes, to seven effects on the medium (nothing, a directory made, a
file removed, entries erased, a write begun, a sector copied, an entry
committed).  On top of it:
`ExtentsDisjoint` is not inductive, since a commit relies on sectors chosen many
steps earlier; with `Reservation` it is (`ExtentsStayDisjoint`).
`BystandersStaySafe` uses both at the step that copies a sector.
`CommitsStayReadable` adds the invariant `Copy`, that the sectors already passed
hold their part of the content, and the lemma that nothing but the commit makes
a Write succeed.  `NamesStayUnique` assumes that reads do not fail and adds that
no other entry takes the name of a Write under way.

`PathsAlwaysResolve` and `DirsStartEmpty` need the invariant `Tree`, under every
fault: in a table whose Format was not cut short every live entry lies in the root
or in a live directory, and there is a rank of the entries that ascends from every
directory to what lies in it; the working directory exists; the entry a Write is
about to fill is no directory; and a Format under way has erased the sectors it
passed.  Ranks are below the number of directories, and a new directory gets the
number there was before it; so the walk of `fs_build_current_path` up to the root,
which descends in rank, takes at most as many steps as the table has entries.
That nothing but a Format removes a directory is what keeps the rank; a reused index
inherits no children since nothing lies in an entry that is not a live directory.

`BafFsStoreProofs`: `StoreIsImplemented` is the refinement, for reads that do not fail
(finding 1 is a step that the abstract store does not have).  There is a lemma per
action of `BafFs`, which gives the action of `FileStore` it maps to or says that the
abstract state stays; together they are `CallsMap`, from which `CallsDoAsPromised`
and `StoreIsImplemented` follow.  The sectors that a Write copies and the ones that a Format
erases are `PutStep`s and `WipeStep`s that damage their own place or disk, the
commit is the step in which the content appears.  The mapping reads the state through
the invariants above: `Names` makes the entry of a place unique, `Placed` keeps the
sectors of other places out of the way of a Write, `Copy` says that what is committed
reads back, `Tree` that no directory lies under a free entry, and `Target` that the
entry of a Write under way is free or the file it replaces.  A full table is a full
store by a bijection between used entries and used places (`Store!Full`).  That a Write
refused for want of room is longer than what it replaces is `RoomInPlace`: the old
extent is free to the search that ignores it, since no other file lies in it
(`ExtentsDisjoint`), and a content no longer needs no more sectors
(`NoMoreSectors`).  Where the
abstract way up is a recursive function, the proof shows that the function exists and
agrees with the walk.

`BlockLayerProofs`: type correctness and `SlotsStayOwned` hold under all faults;
the typing needs that commands name sectors of their own disk (`Addresses`).
The sector contract assumes that no polling loop runs out and that no IDE drive
reports an error after it took the data; findings 3 and 4 show that it needs
both.  Its invariant `Contract` says that a device at work serves the call in
progress at the place where the call waits for it (`AhciServes`, `IdeServes`),
that the buffer holds what the caller passed (`Filled`), and what has reached
the cache or the medium at each place (`AhciProgress`, `IdeProgress`).
`SectorsAreIsolated`, `WritesStayDurable` and `ReadsStayCurrent` follow from it.

`RuntimeProofs`, the services: `StringsLast` is not inductive.  The invariant says where the
allocator stands relative to a string that is intact: either it has not wrapped
since (and the bytes between are what was built), or it has wrapped once and is
still below the string, and then what was left at the end was less than the
largest block.  For the console the invariant of `EchoMatches` is that property
with the type of the screen; each of the operations that move the cursor
(`Letter`, `Backspace`, `NewLine`) gets a lemma that says how the text before the
cursor changes, a scroll included, and the theorem for keys follows from those.
Both hold for every size of screen, buffer and arena; `ConsoleSafe` is the type
invariant, that no write leaves video memory or the buffer.

`IncludesProofs`: `OnceEach` is not inductive: it does not say why an open file
will not be opened again, and the root is protected by the cycle test alone, since
it is never remembered.  The invariant adds that a file is open once (`OpenOnce`),
that every open file but the root is remembered (`Marked`), that a file with lines
copied is remembered or still open (`Accounted`), and that what was copied of an
open file lies before its current line (`Ahead`).

`CyclesAlwaysRejected` and `CopiesInOrder` are about all paths of directives, so their
invariant `OrderInv` says what the depth-first order has settled.  A file is *done*
when it is remembered and not open.  A done file asks only for done files and has all
its lines copied (`Finished`); what the lines passed of an open file ask for is done
or is the file opened next (`Passed`); and every line copied stands behind the lines
before it and behind the whole of the file a directive before it names (`InPlace`).
A file that lies on a cycle can then never become done: the files done when it is left
ask for nothing but one another, and it is not among them (`Escapes`).

`RuntimeProofs`, the disks: `DisksAlwaysApart` is not inductive, since the table says nothing of
the loops.  The invariant `ScanInv` says that the ports in the table and the ports
that were given memory lie behind the position of the loops (`PortsBehind`), that the
IDE drives in hand are apart from each other and from those in the table
(`DrivesAhead`), and that contexts are given out in ascending order; addresses that
are apart (`ComputerAssumption`) make ports at different positions different ports.
`DisksAllFound` is what `ScanComplete` says of the end of a scan.  Its invariant
`FoundInv` says that the ports behind the loops are settled (in the table with their
size, or without room: `PortsSettled`), that no IDE controller was passed over before
the first one was found, that the drives in hand and the settled ones together are the
drives of its channels (`DrivesSettled`), and that what is in the table is there
(`Genuine`); `SectorCountExact` shows that `ata_sector_count` neither truncates a size
nor returns zero for one beyond 32 bits.
`RuntimeTypeCorrect` bounds the table and what is selected.  `ServicesSafe` carries
what is proved of the console and the arena over to a program that uses any of the
three.

`CodegenProofs`: `BlocksAreAccepted` is about `CodegenSpec`, the generator on any
program that is `Built`; that the analyser accepts no other is `HandedOver`, which
`compile` checks, since the analysis is recursive.  `BlocksAccepted` speaks of
finished functions and says nothing of the steps, so the invariant
(`GeneratesBlocks`) has to say what every half-written function and the work left
for it owe each other.  Its centre is `Shape(gen, work)`:

* the lines so far are laid in blocks: one terminator, then a label (`Laid`);
* the text ends in a terminator exactly if the first piece of work begins with a
  label (`Opens`), and every piece of work that ends in a terminator (`Ends`) is
  followed by one that begins with a label;
* every label is defined or owed by one piece of work, never both and never by two
  (`Owed`, `Apart`), and none is beyond the counter;
* every target of a line, of a piece of work (`Refs`) and of the loop stack
  (`LoopRefs`) is a label that is defined or owed.

So a `break` may jump to an end that ten levels of nesting still have to write.  That
loop frames beyond `MaxLoops` are dropped while their pops are not does no harm here:
the frames left still name labels that are owed or defined, and this is why the
theorem holds at any depth.  Each action replaces the first piece of work by others
(`Swap`): lemma `Splice` reduces its effect on `Shape` to the new pieces alone, a lemma
`Onward...` per emitter says what it adds to the text, and a lemma `Swap...` per
statement discharges the rest.  `WorkBuilt` carries `Built` to the pieces of work,
which keeps every argument in the array of its call; `Emitted` says that the functions
written are the units before the one under way, blocks closed.  When no work is left,
`Shape` says nothing is owed, and the closing return makes `BlocksClosed` of it
(`Closing`).

`CodegenValuesProofs`: `ValuesAreAccepted` is about the same specification.  A use far
from its definition is safe because of what happens between them, and the generator
keeps operands in the C stack of the calls under way, over code with branches of its
own: the left operand of `+` over the `&&` on its right, the earlier arguments of a
call over the later ones, the subject of a `switch` over the tests of its arms.  The
invariant `GeneratesValues` adds `Flow(gen, work)` to `GeneratesBlocks`:

* no temporary is defined twice, and none is beyond the counter (`Temps`);
* a value read at line `i` was defined at a line `j` before it, and a label between the
  two is reached from between the two only; nothing still to be written refers to that
  label (`ReadsSettled`, `Settled`).  So a later jump cannot bring control in between;
* the value the first piece of work takes (`Takes`), and each value held by a later
  one (`Holds`), was defined at a line such that no jump from before that line, and
  no piece of work from the holder on, goes to a label defined since or to one that the
  pieces before the holder still owe (`ValueHeld`, `HoldsHeld`, `Held`);
* a value is held over calm work only (`Calm`): the work of expressions, which goes to
  labels it makes itself and leaves the loop stack alone.  Statements run with nothing
  held; this is why a `return`, `break` or `continue`, which leaves a dead block behind,
  never stands between a value and its use;
* a piece of work that takes the last value follows one that leaves one (`Yields`).

For an action it is enough to look at the piece of work it replaces: `Flows(g, task, h,
new)` says that the lines it adds read what was at hand (`AtHand`) or what they define
themselves, that at most the last of them is a label, that neither they nor the new
pieces go to a label nothing referred to any more (`Gone`), and what the new pieces
take and hold.  Lemma `FlowSplice` turns `Flows` into the next `Flow`; a lemma
`...Goes` per emitter (division with its two guards, concatenation, `abs`, `max`, input
and so on) says what it reads and leaves, and a lemma `Flows...` per group of actions
discharges the rest.  When no work is left, `Settled` is `Enclosed` (`Finished`).  TLC
checked `Flow` along the run `compile` before it was proved.

Only model-checked:

* what is said of the parser, the analysis and the code at work (`ParsedBack`,
  `InferenceSettles`, `HandedOver`, `TypesAccepted`, `RunsAsWritten`,
  `EndUnreachable`, and the types of `Bafc`): the operators of the parser and the
  analysis are recursive over the program, and what a recursive operator computes
  for every program is out of the prover's reach;
* liveness: `CallsReturn` of `BafFs` and of `BlockLayer`, `Returns`, `Progress`, and
  of `ScanComplete` that the scan comes to its end.

Where an argument is an induction over natural numbers (the climb to the root, the
paths of directives), the proofs take a least counterexample (`Least`) instead.

## 7. What the model found

1. `fs_find_child` (line 937) answers "not found" when a directory sector cannot
   be read, so `Write` and `CreateDir` create a second entry of an existing name
   (`fs_duplicate`).  Without read errors names stay unique (`NamesStayUnique`).
2. A `Format` that fails at a directory sector (line 1099) leaves
   `fs_current_directory` as it was though the entry may be erased; the next
   `Write` succeeds and creates a file that no path reaches, or that a directory
   created later adopts (`fs_cut_format`).
3. `ahci_submit` gives up (line 561) with the slot issued and the port running.
   The device may carry the write out later, from a stack frame or from
   `fs_sector` refilled for another call, also of another disk (`block_late`).
   An IDE drive left waiting for data has a like effect.
4. `ide_write_sector` (line 371) looks only at the busy bit after the data and
   sends the flush, which clears the error bits: a write the drive failed is
   reported as done (`block_program`).
5. The analyser checks the step of a `for` with the variables of its body still in
   scope (`sema.c` 804, and 535 in inference), but the generator drops them first
   (`codegen.c` 1042).  A step that reads such a variable reads zero; one that
   assigns it makes `codegen_block` dereference NULL: the compiler crashes on a
   program it accepted (`step_scope`).  `docs/LANGUAGE.md` 124 ends the visibility
   with the block.

Beside these, the code departs from the texts where the properties exempt it or state
what holds instead:

* The arena overwrites a string up to one block earlier than after a whole arena of
  fresh text, because of the gap it leaves at the end (`i386-abi.ll` 305): a string of
  40 KiB is overwritten by the next one of 30.
  The comment (`i386-abi.ll` 265-266) speaks of `ARENA_BYTES`; `StringsLast` gives the
  bound that holds.
* Power lost during `Format` (`i386-disk.c` 1098) leaves a valid superblock over a
  directory that is erased in part: entries remain whose directory is gone, and a
  directory created later under the same index adopts them.  The comment on
  `parent_id` (829) knows only the root and directories.  `PathsResolve` and
  `NewDirEmpty` exempt the disk until a Format has run to its end.
* `loop_push` (`codegen.c` 221) drops the frame of a 65th loop and `loop_pop` pops one
  for it: `break` and `continue` in it, and after it in the loop around it, go to a
  wrong loop or nowhere.  `docs/LANGUAGE.md` 234 sets no limit.  `Shallow` exempts such
  programs from `RunsAsWritten`.
* `Disk.Read` (`i386-disk.c` 1260), and `Disk.GetDir` likewise, return a text in a buffer
  that the next such call refills, so a text that the program kept changes.
  `docs/LANGUAGE.md` 108 says that text is immutable.  `RunsAsWritten` covers a program
  up to the read of such a buffer (`spoiled`).

Met, and not made a property: `inpt` in a loop refills the buffer of its call site, as
`docs/I386_IO.md` 29 says; the quotient of the least integer and -1 is undefined
(`docs/LANGUAGE.md` 157 speaks of truncation and of zero only); a chain of more than 64
functions without annotations, in the least fortunate order, is not inferred; only the
first IDE controller is probed; both shift keys share one flag.

## 8. Abstractions and what is not modelled

* A sector write is atomic on the medium and its landing is decided when the
  call returns.  `BlockLayer` shows that the drivers provide this except when a
  device answers after a timeout or an IDE write fails after its data (findings
  3 and 4); power loss is an action of `BafFs` only.
* The drivers: a drive is busy from the command byte on (no stale status in the
  first 400 ns), addresses are not split into bytes, an `Lbas` entry stands for
  `sectors`, and every disk supports 48-bit addresses.  Whether a drive that
  waits for data ignores a new command or drops the old one is open, so both
  happen.  The block layer starts after the scan.  The buffer of `Disk.Hex` is left out.
* A checksum match is equality of contents: collisions of the 32-bit hash are
  left out.  An entry's length, sector count and checksum are those of its
  content; the generation counter, written and never read, is left out.
* Disks start without BAFS and hold no entries (a blank image); garbage
  directories are the business of `FsAllocate` only.  `total_sectors` is the
  disk's own size, as Format writes it.
* `GetDir`'s path text is left out: 64 components of 40 bytes and their slashes
  fit its 4096-byte buffer, so its capacity checks never fail.
* `Disk.Files`, `Disk.Info`, `Disk.List` and `Disk.Hex` print and change nothing.
* The scan: a drive or port answers the probe as a whole (a disk of some size,
  nothing, no answer in time); register-level waits are those of the drivers.
  Channel and base addresses are names, and no two drives or ports share one
  unless the computer says so.
* The console: colours, the hardware cursor, the debug port and power control are
  left out (one register write each).  Scan codes that are ignored (releases,
  keys without a character) change nothing.
* The arena: what a program does with its strings is left out, and so are requests
  beyond the size of the arena, which `baf.strlib.alloc` clamps while its callers
  copy them whole.
* Includes: paths are canonical names; the syntax of a directive is either right
  or not.  The root is a regular file; the code would take a directory too
  (`include.c` 302) and expand its files.
* The parser: what a parser does after its first error matters only for the
  wording of the messages; it is rejected.  Names, numbers and texts are tokens.
* Analysis: diagnostics are a verdict.
* Generation: the text of LLVM, the pool of literals, alignments and targets are
  left out; a builtin that only passes its arguments on is one call line.
  Sizes of texts are not bounded.
* Not modelled: the lexer (a pure function of the text, whose result the parser's
  model takes as its input), the hosted runtimes (straight-line wrappers of the
  host's calls), the scripts, boot code, installer and editor (no state of their
  own beyond files and processes).

## 9. Plan

1. The link between `FsAllocate` and the choice of sectors in `BafFs`, as a lemma: what
   the one computes is what the other takes.
2. The hosted runtimes' line input, if it grows beyond a wrapper.
