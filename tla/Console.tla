------------------------------ MODULE Console -------------------------------
(***************************************************************************)
(* The text screen and the line editor of the keyboard, runtime/           *)
(* i386-core.c.  Colours, the debug port and the hardware cursor are left  *)
(* out: the cursor follows cursor_row and cursor_column at every return.   *)
(***************************************************************************)
EXTENDS Integers, Sequences

CONSTANTS
    VGA_WIDTH, VGA_HEIGHT,
    TabWidth,       \* 4, a divisor of VGA_WIDTH
    Letters,        \* printable characters
    Space,          \* one of them
    Scancodes,      \* of the keys that give a character
    Normal, Shifted,        \* the tables of translate_scancode
    Capacities,     \* the sizes of the buffers a line is read into
    MaxWritten      \* bound: characters written between two lines read

ASSUME ConsoleAssumption ==
    /\ VGA_WIDTH \in Nat \ {0} /\ VGA_HEIGHT \in Nat \ {0}
    /\ TabWidth \in Nat \ {0} /\ VGA_WIDTH % TabWidth = 0
    /\ Space \in Letters
    /\ Normal \in [Scancodes -> Letters] /\ Shifted \in [Scancodes -> Letters]
    /\ Capacities \subseteq Nat /\ MaxWritten \in Nat

Cells == 0 .. VGA_WIDTH * VGA_HEIGHT - 1

VARIABLES
    display,        \* the characters of VGA_MEMORY, cursor_row, cursor_column
    shift_down,
    reading,        \* baf_core_input_read runs
    capacity,       \* its argument
    buffer,         \* the characters it has read
    before,         \* history: what stood before the cursor when it began
    written         \* history: characters written since the last line

consoleVars == <<display, shift_down, reading, capacity, buffer, before, written>>
editor == <<shift_down, reading, capacity, buffer, before>>

Screen == [Cells -> Letters]
Shown(screen, row, col) == [screen |-> screen, row |-> row, col |-> col]
Cleared == [cell \in Cells |-> Space]
Position(d) == d.row * VGA_WIDTH + d.col
Put(d, cell, ch) == [d.screen EXCEPT ![cell] = ch]

-----------------------------------------------------------------------------
Scrolled(screen) ==
    [cell \in Cells |-> IF cell + VGA_WIDTH \in Cells THEN screen[cell + VGA_WIDTH]
                       ELSE Space]

(* To the start of the row below, which may have to be made.               *)
NewLine(screen, row) ==
    IF row + 1 < VGA_HEIGHT THEN Shown(screen, row + 1, 0)
    ELSE Shown(Scrolled(screen), VGA_HEIGHT - 1, 0)

(* The cursor wraps after the last column.  Faulty: one column later.      *)
WrappedLate(screen, row, col) ==
    IF col > VGA_WIDTH THEN NewLine(screen, row) ELSE Shown(screen, row, col)
Wrapped(screen, row, col) ==
    IF col >= VGA_WIDTH THEN NewLine(screen, row) ELSE Shown(screen, row, col)

Letter(d, ch) == Wrapped(Put(d, Position(d), ch), d.row, d.col + 1)

(* Faulty: the cursor does not go back to the row above.                   *)
BackspaceInRow(d) ==
    IF d.col = 0 THEN d ELSE Shown(Put(d, Position(d) - 1, Space), d.row, d.col - 1)

Backspace(d) ==             \* console_backspace
    CASE d.col > 0 -> Shown(Put(d, Position(d) - 1, Space), d.row, d.col - 1)
      [] d.col = 0 /\ d.row > 0 ->
             Shown(Put(d, Position(d) - 1, Space), d.row - 1, VGA_WIDTH - 1)
      [] d.col = 0 /\ d.row = 0 -> d

(* Spaces up to the next tab stop, the last of which may end the row.      *)
Tab(d) ==
    LET n == TabWidth - (d.col % TabWidth)
        cells == Position(d) .. Position(d) + n - 1
    IN  Wrapped([cell \in Cells |-> IF cell \in cells THEN Space ELSE d.screen[cell]],
                d.row, d.col + n)

-----------------------------------------------------------------------------
ConsoleInit ==
    /\ display = Shown(Cleared, 0, 0)
    /\ shift_down = FALSE /\ reading = FALSE /\ capacity = 0
    /\ buffer = <<>> /\ before = <<>> /\ written = 0

(* baf_core_console_write and its kin, a character at a time.              *)
Write ==
    /\ ~reading /\ written < MaxWritten
    /\ \/ \E ch \in Letters : display' = Letter(display, ch)
       \/ display' = NewLine(display.screen, display.row)
       \/ display' = Shown(display.screen, display.row, 0)
       \/ display' = Backspace(display)
       \/ display' = Tab(display)
    /\ written' = written + 1
    /\ UNCHANGED editor

Clear ==
    /\ ~reading
    /\ display' = Shown(Cleared, 0, 0)
    /\ UNCHANGED <<editor, written>>

(* baf_core_input_read; a buffer of no capacity returns at once.           *)
BeginRead(size) ==
    /\ ~reading /\ size # 0
    /\ reading' = TRUE /\ capacity' = size /\ buffer' = <<>>
    /\ before' = [k \in 1 .. Position(display) |-> display.screen[k - 1]]
    /\ UNCHANGED <<display, shift_down, written>>

(* Either shift key sets the one flag, and either clears it.               *)
PressShift ==
    /\ reading /\ shift_down' \in BOOLEAN
    /\ UNCHANGED <<display, reading, capacity, buffer, before, written>>

HasRoom == Len(buffer) + 1 < capacity

TypeKey(code) ==
    /\ reading /\ HasRoom
    /\ LET ch == IF shift_down THEN Shifted[code] ELSE Normal[code]
       IN  buffer' = Append(buffer, ch) /\ display' = Letter(display, ch)
    /\ UNCHANGED <<shift_down, reading, capacity, before, written>>

EraseKey ==
    /\ reading /\ buffer # <<>>
    /\ buffer' = SubSeq(buffer, 1, Len(buffer) - 1)
    /\ display' = Backspace(display)
    /\ UNCHANGED <<shift_down, reading, capacity, before, written>>

EnterKey ==
    /\ reading
    /\ reading' = FALSE /\ written' = 0
    /\ display' = NewLine(display.screen, display.row)
    /\ UNCHANGED <<shift_down, capacity, buffer, before>>

ConsoleNext ==
    \/ Write \/ Clear \/ (\E size \in Capacities : BeginRead(size))
    \/ PressShift \/ (\E code \in Scancodes : TypeKey(code)) \/ EraseKey \/ EnterKey

ConsoleSpec == ConsoleInit /\ [][ConsoleNext]_consoleVars

-----------------------------------------------------------------------------
(* The cursor is on the screen whenever a character is put there: no write *)
(* to VGA_MEMORY is outside of it.  And the line fits its buffer, with the *)
(* zero that ends it.                                                      *)
ConsoleTypeOK ==
    /\ display \in [screen: Screen, row: 0 .. VGA_HEIGHT - 1, col: 0 .. VGA_WIDTH - 1]
    /\ shift_down \in BOOLEAN /\ reading \in BOOLEAN
    /\ capacity \in Nat /\ before \in Seq(Letters) /\ written \in Nat
    /\ buffer \in Seq(Letters) /\ (reading => Len(buffer) < capacity)

(* While a line is edited, what stands before the cursor is what stood     *)
(* there when the line began followed by the line as it will be returned,  *)
(* as far as it has not been scrolled away: however the line wraps and the *)
(* screen scrolls, no key erases the prompt or leaves a letter behind.     *)
EchoMatches ==
    reading =>
        LET text == before \o buffer
            p == Position(display)
        IN  /\ p <= Len(text)
            /\ \A k \in 1 .. p : display.screen[k - 1] = text[Len(text) - p + k]
=============================================================================
